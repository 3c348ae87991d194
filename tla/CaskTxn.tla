------------------------------- MODULE CaskTxn -------------------------------
(***************************************************************************)
(* Cask install, replacement (install --force, reinstall, upgrade) and     *)
(* uninstall.  Each token has a lock of its own, so one process works on a *)
(* token at a time, and processes of different tokens interleave at every  *)
(* file operation.  What they share is where casks deploy to: the deployed *)
(* files (at) and the directories these are in (dirs).                     *)
(*                                                                         *)
(* Any file operation may fail and any process may be killed; together     *)
(* that happens at most MaxFaults times, and MaxRuns commands are started. *)
(* A request the code refuses before it changes anything is not a step.    *)
(***************************************************************************)
EXTENDS Integers, Sequences, FiniteSets, SequencesExt, Loops

CONSTANTS
    Tokens,     \* the casks
    Versions,
    Paths,      \* where casks deploy to
    Dirs,
    Dir,        \* [Paths -> Dirs]: the directory a path is in
    Artifacts,  \* [Tokens -> [Versions -> a sequence of [kind, target]]]
    Directives, \* [Tokens -> [Versions -> [{"uninstall", "zap"} -> a sequence
                \*   of [do, on]]]]; on is <<"path", p>> or <<"dir", d>>
    Linux,      \* the platform: Linux, or else macOS
    Nothing,    \* no file
    User,       \* a file no cask deployed
    MaxFaults, MaxRuns

\* How an artifact of a kind is deployed.  app stands for suite too, artifact
\* for fonts and completions, binary for manual pages, preflight for all code a
\* cask brings along.
Deploys == [app |-> "move", artifact |-> "copy", plugin |-> "copy",
            binary |-> "symlink", appimage |-> "symlink", pkg |-> "installer"]

\* What a cask declares and is refused for: code of its own to run, an
\* installer, and what the platform does not have.
Refused(kind) ==
    \/ kind \in {"preflight", "installer"}
    \/ Linux /\ kind \in {"app", "plugin", "pkg"}
    \/ ~Linux /\ kind = "appimage"

\* The actions of a plan, in the order of the declarations.
Plans == [k \in Tokens |-> [v \in Versions |->
             Chosen(Artifacts[k][v], {x \in Range(Artifacts[k][v]) : x.kind \in DOMAIN Deploys})]]
Plan(k, v) == Plans[k][v]

KindsOf == [k \in Tokens |-> [v \in Versions |-> {x.kind : x \in Range(Artifacts[k][v])}]]
Kinds(k, v) == KindsOf[k][v]

Plannable(k, v) ==
    /\ \A kind \in Kinds(k, v) : ~Refused(kind)
    /\ "stage_only" \in Kinds(k, v) => Plan(k, v) = <<>>

\* The targets of a record: a pkg has none.
TargetsOf == [k \in Tokens |-> [v \in Versions |->
                 {x.target : x \in {y \in Range(Plan(k, v)) : y.kind # "pkg"}}]]
Planned(k, v) == TargetsOf[k][v]
OwnedBy == [k \in Tokens |-> UNION {Planned(k, v) : v \in Versions}]
Own(k) == OwnedBy[k]

\* No two casks deploy to one path, and what a cask declares is a sequence.
ASSUME CaskAssumption ==
    /\ Dir \in [Paths -> Dirs]
    /\ \A k \in Tokens, v \in Versions : Planned(k, v) \subseteq Paths
    /\ \A k, j \in Tokens : k # j => Own(k) \cap Own(j) = {}
    /\ \A k \in Tokens, v \in Versions : Artifacts[k][v] \in Seq(Range(Artifacts[k][v]))
    /\ \A k \in Tokens, v \in Versions, when \in {"uninstall", "zap"} :
           LET asked == Directives[k][v][when]
           IN  /\ asked \in Seq(Range(asked))
               /\ asked # <<>> => when \in Kinds(k, v)
    /\ Linux \in BOOLEAN
    /\ MaxFaults \in Nat /\ MaxRuns \in Nat

VARIABLES
    at,         \* [Paths -> file]: what is deployed where
    dirs,       \* the directories that exist
    rooms,      \* [Tokens -> SUBSET Versions]: the version directories
    recorded,   \* [Tokens -> SUBSET Versions]: those that hold their record
    receipts,   \* [Tokens -> SUBSET Versions]: .metadata/<version>
    tx,         \* [Tokens -> the command that holds the token's lock, or held
                \*            it last]
    faults, runs

disk == <<at, dirs, rooms, recorded, receipts>>
vars == <<disk, tx, faults, runs>>

File(k, v, whole) == [token |-> k, version |-> v, whole |-> whole]
Files == {File(k, v, w) : k \in Tokens, v \in Versions, w \in BOOLEAN}
             \cup {Nothing, User}

\* A deployed file is told from the user's and from none.
ASSUME FileAssumption ==
    /\ Nothing # User
    /\ \A k \in Tokens, v \in Versions, w \in BOOLEAN : File(k, v, w) \notin {Nothing, User}

\* What a half-done copy or removal leaves.
Torn(file) == IF file = User THEN User ELSE [file EXCEPT !.whole = FALSE]

\* The Reverse entries of the journal.
Reverses == {<<"Remove", p>> : p \in Paths} \cup {<<"RemoveDir", d>> : d \in Dirs}
                \cup {<<"Restore", p>> : p \in Paths}
                \cup {<<r, v>> : r \in {"RestoreVersion", "RestoreReceipt"}, v \in Versions}
                \cup {<<"Irreversible", "pkg">>}

\* What a removal that failed on its way leaves: of a directory some files are
\* gone, and one file more, or the one it was to remove, may be torn.
Half(gone, torn) == [p \in Paths |-> IF p \in gone THEN Nothing
                                     ELSE IF p \in torn THEN Torn(at[p]) ELSE at[p]]

\* What an error may name as left behind.
Leftovers == {<<"path", p>> : p \in Paths} \cup {<<"dir", d>> : d \in Dirs}
                 \cup {<<r, v>> : r \in {"version", "receipt"}, v \in Versions}
                 \cup {<<"pkg", "installed">>, <<"staging", "tree">>}

Working(k) == tx[k].pc # "idle"

\* What a token has on disk; the backup directory holds the same kinds of things.
Standing(k) == [at |-> [p \in Own(k) |-> at[p]], rooms |-> rooms[k], receipts |-> receipts[k]]
Empty(k) == [at |-> [p \in Own(k) |-> Nothing], rooms |-> {}, receipts |-> {}]

\* No command, or one that was killed: nothing remembers it.
NoCommand == [pc |-> "idle", op |-> "none", outcome |-> "none", left |-> {},
              journal |-> <<>>, robbed |-> FALSE]

\* Types: a journal and a report name only what exists to be named, nothing is
\* deployed in a directory that is not there, and only a version directory
\* holds a record.
TypeOK ==
    /\ at \in [Paths -> Files]
    /\ dirs \subseteq Dirs
    /\ \A p \in Paths : at[p] # Nothing => Dir[p] \in dirs
    /\ rooms \in [Tokens -> SUBSET Versions] /\ receipts \in [Tokens -> SUBSET Versions]
    /\ \A k \in Tokens : recorded[k] \subseteq rooms[k]
    /\ \A k \in Tokens : /\ tx[k].left \subseteq Leftovers
                         /\ Range(tx[k].journal) \subseteq Reverses
    /\ faults \in 0..MaxFaults /\ runs \in 0..MaxRuns

\* Nothing is installed, or versions are, each with its record, its receipt
\* and its deployed files; where no cask has deployed, the user may have a
\* file of their own.
Init ==
    \E installed \in [Tokens -> SUBSET Versions] :
        LET Deployed(p) == {f \in Files : \E k \in Tokens : \E v \in installed[k] :
                               f = File(k, v, TRUE) /\ p \in Planned(k, v)}
        IN
        /\ \A k \in Tokens : \A v \in installed[k] : Plannable(k, v)
        /\ rooms = installed /\ recorded = installed /\ receipts = installed
        /\ at \in [Paths -> Files]
        /\ \A p \in Paths : at[p] \in (IF Deployed(p) = {} THEN {Nothing, User} ELSE Deployed(p))
        /\ dirs \in SUBSET Dirs
        /\ \A p \in Paths : at[p] # Nothing => Dir[p] \in dirs
        /\ tx = [k \in Tokens |-> NoCommand]
        /\ faults = 0 /\ runs = 0

-----------------------------------------------------------------------------
(* Starting, ending, failing                                               *)

Fault == faults < MaxFaults /\ faults' = faults + 1 /\ UNCHANGED runs
Fine == UNCHANGED <<faults, runs>>

\* The loops go through sorted targets and versions: in some fixed order.
InTurn(x, S) == S # {} /\ x = CHOOSE y \in S : TRUE

GoTo(k, pc) == tx' = [tx EXCEPT ![k].pc = pc]

\* An operation of an install fails and has done nothing: roll back.
Fails(k) == Fault /\ GoTo(k, "fail") /\ UNCHANGED disk

\* The token's lock is taken.  (before and robbed are for the properties: the
\* state the command found, and whether another cask has since removed a file
\* of this one.)
Start(k, op, pc, new, targets, versions) ==
    /\ ~Working(k) /\ runs < MaxRuns
    /\ runs' = runs + 1
    /\ tx' = [tx EXCEPT ![k] =
                 [pc |-> pc, op |-> op, outcome |-> "running", new |-> new,
                  targets |-> targets, versions |-> versions, cur |-> new,
                  rest |-> <<>>, journal |-> <<>>, saved |-> Empty(k), staged |-> FALSE,
                  wrote |-> "none", left |-> {}, before |-> Standing(k),
                  robbed |-> FALSE]]
    /\ UNCHANGED <<disk, faults>>

\* The command answers and the lock is free again.
Answer(k, outcome) == [tx[k] EXCEPT !.pc = "idle", !.outcome = outcome, !.journal = <<>>,
                                    !.targets = {}, !.versions = {}, !.rest = <<>>,
                                    !.saved = Empty(k), !.cur = tx[k].new,
                                    !.staged = FALSE, !.wrote = "none"]
Return(k, outcome) == tx' = [tx EXCEPT ![k] = Answer(k, outcome)]

\* Every old record is read before anything is changed, and a version
\* directory without one refuses every command.
RecordsRead(k) == recorded[k] = rooms[k]

\* A replacement refuses what the journal could not undo.
Reversible(k, v) ==
    /\ "pkg" \notin Kinds(k, v)
    /\ \A o \in rooms[k] : Kinds(k, o) \cap {"pkg", "uninstall"} = {}

\* What the transaction asks before it downloads: a token that is installed is
\* replaced or left as it is.
Accepted(k, v, replace) ==
    rooms[k] # {} => replace /\ RecordsRead(k) /\ Reversible(k, v)

Install(k, v, replace) ==
    /\ Plannable(k, v)
    /\ Accepted(k, v, replace)
    /\ Start(k, "install", "stage", v, {}, {})

\* reinstall and upgrade replace what is installed: what the transaction asks
\* they ask of all their casks before the first one starts.
Reinstall(k, v) ==
    /\ rooms[k] # {}
    /\ RecordsRead(k) /\ Plannable(k, v) /\ Reversible(k, v)
    /\ Accepted(k, v, TRUE)
    /\ Start(k, "install", "stage", v, {}, {})

-----------------------------------------------------------------------------
(* install, up to the commit                                               *)

\* The download, then a staging directory of this process's own and in it the
\* extracted archive.
Stage(k) ==
    /\ tx[k].pc = "stage"
    /\ \/ /\ Fine
          /\ tx' = [tx EXCEPT ![k].pc = IF rooms[k] = {} THEN "backup" ELSE "root",
                              ![k].staged = TRUE]
       \/ Fault /\ Return(k, "error")
       \/ Fault /\ tx' = [tx EXCEPT ![k].pc = "fail", ![k].staged = TRUE]
    /\ UNCHANGED disk

Targets(k) == UNION {Planned(k, v) : v \in rooms[k]}

\* Mutant: saves what the new plan deploys instead of what the records name.
RootOfPlan(k) ==
    /\ tx[k].pc = "root"
    /\ tx' = [tx EXCEPT ![k].pc = "backup", ![k].versions = rooms[k],
                        ![k].targets = Planned(k, tx[k].new)]
    /\ Fine /\ UNCHANGED disk

\* The backup directory, and what the old records say was deployed.
Root(k) ==
    /\ tx[k].pc = "root"
    /\ \/ /\ Fine /\ UNCHANGED disk
          /\ tx' = [tx EXCEPT ![k].pc = "backup", ![k].versions = rooms[k],
                              ![k].targets = Targets(k)]
       \/ Fails(k)

\* Mutant: the old target is removed to make way for the new one.
BackupTargetRemoves(k, p) ==
    /\ tx[k].pc = "backup" /\ InTurn(p, tx[k].targets)
    /\ at' = [at EXCEPT ![p] = Nothing]
    /\ tx' = [tx EXCEPT ![k].targets = @ \ {p}]
    /\ Fine /\ UNCHANGED <<dirs, rooms, recorded, receipts>>

\* Moves one old target into the backup directory and then journals it; one
\* that is not there is passed over.  A move to another device is a copy and a
\* removal, and a removal that fails names the backup in its error.
BackupTarget(k, p) ==
    /\ tx[k].pc = "backup" /\ InTurn(p, tx[k].targets)
    /\ \/ /\ at[p] = Nothing
          /\ Fine /\ UNCHANGED disk
          /\ tx' = [tx EXCEPT ![k].targets = @ \ {p}]
       \/ /\ at[p] # Nothing /\ Fine
          /\ at' = [at EXCEPT ![p] = Nothing]
          /\ tx' = [tx EXCEPT ![k].targets = @ \ {p}, ![k].saved.at[p] = at[p],
                              ![k].journal = Append(@, <<"Restore", p>>)]
          /\ UNCHANGED <<dirs, rooms, recorded, receipts>>
       \/ at[p] # Nothing /\ Fails(k)
       \/ /\ at[p] # Nothing /\ Fault
          /\ at' = [at EXCEPT ![p] = Torn(@)]
          /\ tx' = [tx EXCEPT ![k].pc = "fail", ![k].saved.at[p] = at[p],
                              ![k].left = @ \cup {<<"path", p>>}]
          /\ UNCHANGED <<dirs, rooms, recorded, receipts>>

BackupVersion(k, o) ==
    /\ tx[k].pc = "backup" /\ tx[k].targets = {} /\ InTurn(o, tx[k].versions)
    /\ \/ /\ Fine
          /\ rooms' = [rooms EXCEPT ![k] = @ \ {o}]
          /\ recorded' = [recorded EXCEPT ![k] = @ \ {o}]
          /\ tx' = [tx EXCEPT ![k].pc = "metadata", ![k].cur = o,
                              ![k].versions = @ \ {o}, ![k].saved.rooms = @ \cup {o},
                              ![k].journal = Append(@, <<"RestoreVersion", o>>)]
          /\ UNCHANGED <<at, dirs, receipts>>
       \/ Fails(k)

BackupReceipt(k) ==
    /\ tx[k].pc = "metadata"
    /\ \/ /\ tx[k].cur \notin receipts[k]
          /\ Fine /\ GoTo(k, "backup") /\ UNCHANGED disk
       \/ /\ tx[k].cur \in receipts[k] /\ Fine
          /\ receipts' = [receipts EXCEPT ![k] = @ \ {tx[k].cur}]
          /\ tx' = [tx EXCEPT ![k].pc = "backup",
                              ![k].saved.receipts = @ \cup {tx[k].cur},
                              ![k].journal = Append(@, <<"RestoreReceipt", tx[k].cur>>)]
          /\ UNCHANGED <<at, dirs, rooms, recorded>>
       \/ tx[k].cur \in receipts[k] /\ Fails(k)

\* Into the staged tree: the promotion carries it along.
WriteRecord(k) ==
    /\ tx[k].pc = "backup" /\ tx[k].targets = {} /\ tx[k].versions = {}
    /\ \/ /\ Fine /\ UNCHANGED disk
          /\ tx' = [tx EXCEPT ![k].pc = "apply", ![k].rest = Plan(k, tx[k].new)]
       \/ Fails(k)

RunInstaller(k) ==
    /\ tx[k].pc = "apply" /\ tx[k].rest # <<>> /\ Head(tx[k].rest).kind = "pkg"
    /\ \E pc \in {"apply", "fail"} :
           /\ IF pc = "fail" THEN Fault ELSE Fine
           /\ tx' = [tx EXCEPT ![k].pc = pc, ![k].rest = Tail(@),
                               ![k].journal = Append(@, <<"Irreversible", "pkg">>)]
    /\ UNCHANGED disk

\* The journal entries for deploying to p: they are written before the disk is.
ForTarget(p) ==
    (IF Dir[p] \in dirs THEN <<>> ELSE << <<"RemoveDir", Dir[p]>> >>)
        \o << <<"Remove", p>> >>

\* Mutant: without ensure_absent.
PrepareAnyway(k) ==
    /\ tx[k].pc = "apply" /\ tx[k].rest # <<>> /\ Head(tx[k].rest).kind # "pkg"
    /\ LET p == Head(tx[k].rest).target
       IN /\ dirs' = dirs \cup {Dir[p]}
          /\ tx' = [tx EXCEPT ![k].pc = "put", ![k].journal = @ \o ForTarget(p)]
    /\ Fine /\ UNCHANGED <<at, rooms, recorded, receipts>>

\* The target must be free (ensure_absent); the missing part of its directory
\* is created, and journaled as one removal (ensure_parent_journaled).
Prepare(k) ==
    /\ tx[k].pc = "apply" /\ tx[k].rest # <<>> /\ Head(tx[k].rest).kind # "pkg"
    /\ LET p == Head(tx[k].rest).target
       IN \/ at[p] # Nothing /\ Fine /\ GoTo(k, "fail") /\ UNCHANGED disk
          \/ Fails(k)
          \/ /\ at[p] = Nothing /\ Fine
             /\ dirs' = dirs \cup {Dir[p]}
             /\ tx' = [tx EXCEPT ![k].pc = "put", ![k].journal = @ \o ForTarget(p)]
             /\ UNCHANGED <<at, rooms, recorded, receipts>>
          \/ /\ at[p] = Nothing /\ Dir[p] \notin dirs /\ Fault
             /\ dirs' \in {dirs, dirs \cup {Dir[p]}}
             /\ tx' = [tx EXCEPT ![k].pc = "fail",
                                 ![k].journal = Append(@, <<"RemoveDir", Dir[p]>>)]
             /\ UNCHANGED <<at, rooms, recorded, receipts>>

\* If the directory has gone meanwhile a move and a symlink fail, and a copy
\* creates it again.
Put(k) ==
    /\ tx[k].pc = "put"
    /\ LET p == Head(tx[k].rest).target
           how == Deploys[Head(tx[k].rest).kind]
       IN \/ /\ Dir[p] \in dirs \/ how = "copy"
             /\ Fine
             /\ at' = [at EXCEPT ![p] = File(k, tx[k].new, TRUE)]
             /\ dirs' = dirs \cup {Dir[p]}
             /\ tx' = [tx EXCEPT ![k].pc = "apply", ![k].rest = Tail(@)]
          \/ /\ Dir[p] \notin dirs /\ how # "copy"
             /\ Fine /\ GoTo(k, "fail") /\ UNCHANGED <<at, dirs>>
          \/ /\ Fault
             /\ at' \in {at, [at EXCEPT ![p] = File(k, tx[k].new, FALSE)]}
             /\ at' # at => Dir[p] \in dirs /\ how # "symlink"
             /\ GoTo(k, "fail") /\ UNCHANGED dirs
    /\ UNCHANGED <<rooms, recorded, receipts>>

\* A failed receipt removes what it created, the whole new tree or the new leaf
\* of a tree that was there; if that fails too the error names it.
WriteReceipt(k) ==
    /\ tx[k].pc = "apply" /\ tx[k].rest = <<>>
    /\ LET new == tx[k].new
       IN \/ /\ Fine
             /\ receipts' = [receipts EXCEPT ![k] = @ \cup {new}]
             /\ tx' = [tx EXCEPT ![k].pc = "promote",
                                 ![k].wrote = IF new \in receipts[k] THEN "leaf" ELSE "tree"]
          \/ /\ Fault /\ GoTo(k, "fail") /\ UNCHANGED receipts
          \/ /\ Fault
             /\ receipts' = [receipts EXCEPT ![k] = @ \cup {new}]
             /\ tx' = [tx EXCEPT ![k].pc = "fail", ![k].left = @ \cup {<<"receipt", new>>}]
    /\ UNCHANGED <<at, dirs, rooms, recorded>>

\* The one rename that commits.  After it the backups are removed as far as
\* possible: what stays of them is never looked at.
Promote(k) ==
    /\ tx[k].pc = "promote"
    /\ \/ /\ Fine
          /\ rooms' = [rooms EXCEPT ![k] = @ \cup {tx[k].new}]
          /\ recorded' = [recorded EXCEPT ![k] = @ \cup {tx[k].new}]
          /\ Return(k, "ok")
          /\ UNCHANGED <<at, dirs, receipts>>
       \/ Fails(k)

-----------------------------------------------------------------------------
(* install, rolling back: the receipt, the journal from its end, staging   *)

RemoveReceipt(k) ==
    /\ tx[k].pc = "fail"
    /\ \/ /\ Fine
          /\ receipts' = [receipts EXCEPT ![k] = IF tx[k].wrote = "tree" THEN @ \ {tx[k].new} ELSE @]
          /\ GoTo(k, "undo")
       \/ /\ tx[k].wrote # "none" /\ Fault
          /\ tx' = [tx EXCEPT ![k].pc = "undo", ![k].left = @ \cup {<<"receipt", tx[k].new>>}]
          /\ UNCHANGED receipts
    /\ UNCHANGED <<at, dirs, rooms, recorded>>

Undoing(k, reverse, x) ==
    tx[k].pc = "undo" /\ tx[k].journal # <<>> /\ Last(tx[k].journal) = <<reverse, x>>

Undone(k) == tx' = [tx EXCEPT ![k].journal = Front(@)]
LeftBehind(k, what) ==
    tx' = [tx EXCEPT ![k].journal = Front(@), ![k].left = @ \cup {what}]

UndoRemove(k, p) ==
    /\ Undoing(k, "Remove", p)
    /\ \/ /\ Fine /\ Undone(k)
          /\ at' = [at EXCEPT ![p] = Nothing]
       \/ /\ at[p] # Nothing /\ Fault /\ LeftBehind(k, <<"path", p>>)
          /\ at' \in {at, [at EXCEPT ![p] = Torn(@)]}
    /\ UNCHANGED <<dirs, rooms, recorded, receipts>>

In(d) == {p \in Paths : Dir[p] = d /\ at[p] # Nothing}
Without(gone) == [p \in Paths |-> IF p \in gone THEN Nothing ELSE at[p]]

\* The directory this command created goes with everything in it, whoever
\* deployed it.  A removal that fails may have removed some of it.
UndoRemoveDir(k, d) ==
    /\ Undoing(k, "RemoveDir", d)
    /\ \E gone \in SUBSET In(d) :
           /\ at' = Without(gone)
           /\ \/ Fine /\ gone = In(d) /\ dirs' = dirs \ {d}
              \/ d \in dirs /\ Fault /\ UNCHANGED dirs
           /\ tx' = [j \in Tokens |->
                        IF j = k
                        THEN [tx[k] EXCEPT !.journal = Front(@),
                                           !.left = IF d \in dirs' THEN @ \cup {<<"dir", d>>} ELSE @]
                        ELSE [tx[j] EXCEPT !.robbed = @ \/ gone \cap Own(j) # {}]]
    /\ UNCHANGED <<rooms, recorded, receipts>>

\* What stands at the target is removed and the backup moved back.  The move
\* fails if the directory has gone; the backup then stays, and is named.
UndoRestore(k, p) ==
    /\ Undoing(k, "Restore", p)
    /\ \/ /\ Dir[p] \in dirs /\ Fine
          /\ at' = [at EXCEPT ![p] = tx[k].saved.at[p]]
          /\ tx' = [tx EXCEPT ![k].journal = Front(@), ![k].saved.at[p] = Nothing]
       \/ /\ Dir[p] \notin dirs
          /\ Fine /\ LeftBehind(k, <<"path", p>>) /\ UNCHANGED at
       \/ /\ Dir[p] \in dirs /\ Fault /\ LeftBehind(k, <<"path", p>>)
          /\ at' \in {at, [at EXCEPT ![p] = Nothing]}
    /\ UNCHANGED <<dirs, rooms, recorded, receipts>>

UndoRestoreVersion(k, o) ==
    /\ Undoing(k, "RestoreVersion", o)
    /\ \/ /\ Fine
          /\ rooms' = [rooms EXCEPT ![k] = @ \cup {o}]
          /\ recorded' = [recorded EXCEPT ![k] = @ \cup {o}]
          /\ tx' = [tx EXCEPT ![k].journal = Front(@), ![k].saved.rooms = @ \ {o}]
       \/ Fault /\ LeftBehind(k, <<"version", o>>) /\ UNCHANGED <<rooms, recorded>>
    /\ UNCHANGED <<at, dirs, receipts>>

UndoRestoreReceipt(k, o) ==
    /\ Undoing(k, "RestoreReceipt", o)
    /\ \/ /\ Fine
          /\ receipts' = [receipts EXCEPT ![k] = @ \cup {o}]
          /\ tx' = [tx EXCEPT ![k].journal = Front(@), ![k].saved.receipts = @ \ {o}]
       \/ /\ Fault /\ LeftBehind(k, <<"receipt", o>>)
          /\ receipts' \in {receipts, [receipts EXCEPT ![k] = @ \ {o}]}
    /\ UNCHANGED <<at, dirs, rooms, recorded>>

UndoIrreversible(k) ==
    /\ Undoing(k, "Irreversible", "pkg")
    /\ LeftBehind(k, <<"pkg", "installed">>)
    /\ Fine /\ UNCHANGED disk

\* Mutant: the receipt is removed at the end, after the journal's restores.
UnstageThenReceipt(k) ==
    /\ tx[k].pc = "undo" /\ tx[k].journal = <<>>
    /\ receipts' = [receipts EXCEPT ![k] = IF tx[k].wrote = "tree" THEN @ \ {tx[k].new} ELSE @]
    /\ tx' = [tx EXCEPT ![k].pc = "idle", ![k].staged = FALSE,
                        ![k].outcome = IF tx[k].left = {} THEN "error" ELSE "incomplete"]
    /\ Fine /\ UNCHANGED <<at, dirs, rooms, recorded>>

\* Staging is removed, and the backup directory if it is empty.  A rollback
\* that left nothing answers with the error that began it, another with
\* RollbackIncomplete.
Unstage(k) ==
    /\ tx[k].pc = "undo" /\ tx[k].journal = <<>>
    /\ \E unstaged \in BOOLEAN :
           LET left == tx[k].left \cup (IF unstaged THEN {} ELSE {<<"staging", "tree">>})
           IN /\ IF unstaged THEN Fine ELSE Fault
              /\ tx' = [tx EXCEPT ![k] =
                           [@ EXCEPT !.pc = "idle", !.journal = <<>>, !.rest = <<>>,
                                     !.targets = {}, !.versions = {}, !.saved = Empty(k), !.cur = tx[k].new, !.wrote = "none",
                                     !.staged = ~unstaged, !.left = left,
                                     !.outcome = IF left = {} THEN "error" ELSE "incomplete"]]
    /\ UNCHANGED disk

-----------------------------------------------------------------------------
(* uninstall: no journal; a failure stops where it stands                  *)

\* On macOS only, with or without --zap.  All records are read, and all
\* directives checked, before anything changes.
Uninstall(k, op) ==
    /\ ~Linux /\ rooms[k] # {} /\ RecordsRead(k)
    /\ Start(k, op, "remove", CHOOSE v \in rooms[k] : TRUE, Targets(k), rooms[k])

RemoveTarget(k, p) ==
    /\ tx[k].pc = "remove" /\ InTurn(p, tx[k].targets)
    /\ \/ /\ Fine
          /\ at' = [at EXCEPT ![p] = Nothing]
          /\ tx' = [tx EXCEPT ![k].targets = @ \ {p}]
       \/ /\ at[p] # Nothing /\ Fault /\ Return(k, "error")
          /\ at' \in {at, [at EXCEPT ![p] = Torn(@)]}
    /\ UNCHANGED <<dirs, rooms, recorded, receipts>>

\* The next version: its uninstall directives and, under --zap, its zap directives
\* are run before it is removed.
Asked(k, v, op) ==
    Directives[k][v]["uninstall"] \o (IF op = "zap" THEN Directives[k][v]["zap"] ELSE <<>>)

TakeVersion(k, v) ==
    /\ tx[k].pc = "remove" /\ tx[k].targets = {} /\ InTurn(v, tx[k].versions)
    /\ tx' = [tx EXCEPT ![k].pc = "removeVersion", ![k].cur = v, ![k].versions = @ \ {v},
                        ![k].rest = Asked(k, v, tx[k].op)]
    /\ Fine /\ UNCHANGED disk

\* The next directive of k's command is one of these.
Directed(k, kinds) ==
    tx[k].pc = "removeVersion" /\ tx[k].rest # <<>> /\ Head(tx[k].rest).do \in kinds

\* A directive may name any path below the home, prefix or application
\* directory, whoever put there what is there.
Names(on, p) == on = <<"path", p>> \/ on = <<"dir", Dir[p]>>
Named(on) == {p \in Paths : at[p] # Nothing /\ Names(on, p)}
But(on) == {d \in dirs : on # <<"dir", d>>}

\* The commands that other tokens lose files to note it.
Beside(k, command) ==
    tx' = [j \in Tokens |->
              IF j = k THEN command
              ELSE [tx[j] EXCEPT !.robbed = @ \/ \E p \in Own(j) : at'[p] # at[p]]]

\* delete, which stands for trash too, removes what it names; launchctl does
\* so with the plist it names once it is unloaded.
RunDelete(k) ==
    /\ Directed(k, {"delete", "launchctl"})
    /\ LET on == Head(tx[k].rest).on
       IN \/ /\ Fine
             /\ at' = Half(Named(on), {}) /\ dirs' = But(on)
             /\ Beside(k, [tx[k] EXCEPT !.rest = Tail(@)])
          \/ /\ Fault
             /\ \E gone \in SUBSET {p \in Named(on) : on # <<"path", p>>} :
                    \E torn \in {{}} \cup {{p} : p \in Named(on)} : at' = Half(gone, torn)
             /\ Beside(k, Answer(k, "error")) /\ UNCHANGED dirs
    /\ UNCHANGED <<rooms, recorded, receipts>>

\* rmdir removes an empty directory, passes over one that is not there and fails
\* on any other.
RunRmdir(k) ==
    /\ Directed(k, {"rmdir"})
    /\ LET on == Head(tx[k].rest).on
       IN \/ /\ Named(on) = {} /\ Fine
             /\ dirs' = But(on)
             /\ tx' = [tx EXCEPT ![k].rest = Tail(@)]
          \/ Named(on) # {} /\ Fine /\ Return(k, "error") /\ UNCHANGED dirs
          \/ Fault /\ Return(k, "error") /\ UNCHANGED dirs
    /\ UNCHANGED <<at, rooms, recorded, receipts>>

\* pkgutil is a command and removes nothing modelled here.
RunPkgutil(k) ==
    /\ Directed(k, {"pkgutil"})
    /\ \/ Fine /\ tx' = [tx EXCEPT ![k].rest = Tail(@)]
       \/ Fault /\ Return(k, "error")
    /\ UNCHANGED disk

\* A removal that fails half-way may have taken the record.
RemoveVersion(k) ==
    /\ tx[k].pc = "removeVersion" /\ tx[k].rest = <<>>
    /\ \/ /\ Fine
          /\ rooms' = [rooms EXCEPT ![k] = @ \ {tx[k].cur}]
          /\ recorded' = [recorded EXCEPT ![k] = @ \ {tx[k].cur}]
          /\ GoTo(k, "removeMetadata")
       \/ /\ Fault /\ Return(k, "error")
          /\ recorded' \in {recorded, [recorded EXCEPT ![k] = @ \ {tx[k].cur}]}
          /\ UNCHANGED rooms
    /\ UNCHANGED <<at, dirs, receipts>>

RemoveMetadata(k) ==
    /\ tx[k].pc = "removeMetadata"
    /\ \/ /\ Fine
          /\ receipts' = [receipts EXCEPT ![k] = @ \ {tx[k].cur}]
          /\ GoTo(k, "remove")
       \/ Fault /\ Return(k, "error") /\ UNCHANGED receipts
    /\ UNCHANGED <<at, dirs, rooms, recorded>>

\* The token's directory is removed if nothing is left in it.
Prune(k) ==
    /\ tx[k].pc = "remove" /\ tx[k].targets = {} /\ tx[k].versions = {}
    /\ \/ Fine /\ Return(k, "ok")
       \/ Fault /\ Return(k, "error")
    /\ UNCHANGED disk

-----------------------------------------------------------------------------
\* A process is killed: its lock is released by the system, and the staging and
\* backup directories it leaves are never looked at again.
Kill(k) ==
    /\ Working(k) /\ Fault
    /\ tx' = [tx EXCEPT ![k] = NoCommand]
    /\ UNCHANGED disk

Begin(k) ==
    \/ \E op \in {"uninstall", "zap"} : Uninstall(k, op)
    \/ \E v \in Versions, replace \in BOOLEAN : Install(k, v, replace)
    \/ \E v \in Versions : Reinstall(k, v)

Step(k) ==
    \/ Stage(k) \/ Root(k) \/ BackupReceipt(k) \/ WriteRecord(k)
    \/ RunInstaller(k) \/ Prepare(k) \/ Put(k) \/ WriteReceipt(k) \/ Promote(k)
    \/ RemoveReceipt(k) \/ UndoIrreversible(k) \/ Unstage(k)
    \/ RunDelete(k) \/ RunRmdir(k) \/ RunPkgutil(k)
    \/ RemoveVersion(k) \/ RemoveMetadata(k) \/ Prune(k)
    \/ \E p \in Own(k) : BackupTarget(k, p) \/ UndoRemove(k, p) \/ UndoRestore(k, p)
                             \/ RemoveTarget(k, p)
    \/ \E d \in Dirs : UndoRemoveDir(k, d)
    \/ \E v \in Versions : BackupVersion(k, v) \/ UndoRestoreVersion(k, v)
                               \/ UndoRestoreReceipt(k, v) \/ TakeVersion(k, v)

Next == \E k \in Tokens : Begin(k) \/ Step(k) \/ Kill(k)

Spec == Init /\ [][Next]_vars

-----------------------------------------------------------------------------
(* Properties.  Answered(k, op, outcome): the last command on the token    *)
(* answered so, and nothing has been started on it since.                  *)

Answered(k, op, outcome) == ~Working(k) /\ tx[k].op = op /\ tx[k].outcome = outcome

\* The rollback is honest (docs/how-it-works.md: what could not be undone is
\* reported).  Whatever an install that failed found and has not put back, or
\* has made and not removed, is named in its error: every path, version
\* directory, receipt and the staging directory.  In particular an error that
\* names nothing means everything is as it was found.  (Unless another cask's
\* rollback or directive has removed a file of this one.)
HonestFailure ==
    \A k \in Tokens :
        /\ Answered(k, "install", "error") \/ Answered(k, "install", "incomplete")
        /\ ~tx[k].robbed
        => LET was == tx[k].before
               named == tx[k].left
           IN /\ \A p \in Own(k) : at[p] # was.at[p] => <<"path", p>> \in named
              /\ \A v \in Versions :
                     /\ (v \in rooms[k]) # (v \in was.rooms) => <<"version", v>> \in named
                     /\ (v \in receipts[k]) # (v \in was.receipts) => <<"receipt", v>> \in named
              /\ tx[k].staged => <<"staging", "tree">> \in named

\* The new version alone is installed, with its record and its receipt,
\* everything it plans is deployed whole, and nothing the old records named stays
\* deployed.
InstalledExactly ==
    \A k \in Tokens :
        Answered(k, "install", "ok") /\ ~tx[k].robbed =>
            /\ rooms[k] = {tx[k].new} /\ RecordsRead(k)
            /\ tx[k].new \in receipts[k]
            /\ \A p \in Planned(k, tx[k].new) : at[p] = File(k, tx[k].new, TRUE)
            /\ \A o \in tx[k].before.rooms \ {tx[k].new} :
                   /\ o \notin receipts[k]
                   /\ \A p \in Planned(k, o) \ Planned(k, tx[k].new) : at[p] = Nothing

\* No version, nothing its records deployed and no receipt of what it removed.
RemovedCompletely ==
    \A k \in Tokens :
        Answered(k, "uninstall", "ok") \/ Answered(k, "zap", "ok") =>
            /\ rooms[k] = {}
            /\ receipts[k] \cap tx[k].before.rooms = {}
            /\ \A o \in tx[k].before.rooms : \A p \in Planned(k, o) : at[p] = Nothing

\* Success is complete, of an install and of an uninstall, also of one that
\* repeats a command which failed half-way or was killed.
CommittedExactly == InstalledExactly /\ RemovedCompletely

\* Until the commit, at every moment and so also if the process is killed there,
\* each file, version directory and receipt the install found exists: where it
\* was found, or in the backup directory.
NothingLost ==
    \A k \in Tokens :
        Working(k) /\ tx[k].op = "install" /\ ~tx[k].robbed =>
            LET was == tx[k].before
                saved == tx[k].saved
            IN /\ \A p \in Own(k) : was.at[p] # Nothing => was.at[p] \in {at[p], saved.at[p]}
               /\ was.rooms \subseteq rooms[k] \cup saved.rooms
               /\ was.receipts \subseteq receipts[k] \cup saved.receipts

\* The next directive of k's command removes what is at p.
Takes(k, p) ==
    Directed(k, {"delete", "launchctl"}) /\ Names(Head(tx[k].rest).on, p)

\* A file the user put where a cask wants to deploy is never changed, and the
\* files of a cask change only under that cask's lock.  There are two
\* exceptions.  A removal directive of an installed cask that names the file, or
\* the directory it is in, takes it in that directive's step, whosever it is.
\* And the rollback of another cask that created the directory takes what a cask
\* deployed there.
OthersKept ==
    [][\A p \in Paths : at'[p] # at[p] =>
           \/ \E k \in Tokens : Takes(k, p) /\ tx'[k].rest # tx[k].rest
           \/ /\ at[p] # User
              /\ \E k \in Tokens :
                     \/ p \in Own(k) /\ Working(k)
                     \/ Undoing(k, "RemoveDir", Dir[p])]_vars
=============================================================================
