----------------------------- MODULE InstallSteps -----------------------------
(***************************************************************************)
(* The structured post-install steps of a formula and the journal that     *)
(* takes them back (zapbrew-ops, install_steps.rs).  The steps of a        *)
(* formula run in order; every change a step makes to the file system is   *)
(* preceded or followed by the note of its inverse; when a step or a       *)
(* command fails, StepJournal::rollback applies the inverses backwards,    *)
(* reports the paths it could not put right and drops the journal.         *)
(*                                                                         *)
(* The file system below the prefix is one tree: a function from paths     *)
(* (sequences of names, <<>> being the prefix itself) to entries.  A       *)
(* directory with mode "ro" refuses changes of its entries.  The journal   *)
(* root, a directory of its own in the rack, is the top-level directory    *)
(* Journal, where the backups go.  Symbolic links are leaves: a path       *)
(* through a link, and the confinement of paths to the prefix and the      *)
(* cellar, are not modelled.                                               *)
(*                                                                         *)
(* `todo' is the work of the step being executed, one call of the operating*)
(* system at a time: its first item is either such a call or a helper of   *)
(* the code, which replaces itself by the work it stands for when its turn *)
(* comes, so that every helper reads the tree at the moment the code does. *)
(* Commands (`run' and maintenance steps) succeed or fail; what they change*)
(* is, as in the code, not the journal's business, and left out.           *)
(***************************************************************************)
EXTENDS Naturals, FiniteSets, Sequences, SequencesExt

CONSTANTS
    Programs,    \* the step lists a formula may carry: [guards, step] records
    Trees,       \* the trees the steps may find
    MaxFaults    \* bound: calls of the operating system that fail by themselves

VARIABLES
    program,     \* InstallSteps::steps of the formula
    start,       \* the tree before the first step
    fs,          \* the tree
    pc,          \* the index of the next step
    todo,        \* the work left of the step begun last
    answered,    \* guard_results: the guards evaluated so far
    taken,       \* which of the steps so far were executed
    deferred,    \* maintenance: the commands kept for the end
    inverses,    \* StepJournal::inverses
    backups,     \* StepJournal::next_backup
    phase,       \* "execute", "rollback", "committed" or "rolled_back"
    leftovers,   \* the paths reported as left behind
    faults       \* calls that failed by themselves so far

vars == << program, start, fs, pc, todo, answered, taken, deferred,
           inverses, backups, phase, leftovers, faults >>

-----------------------------------------------------------------------------
(* The tree. *)

Journal == <<"journal">>

File(data)  == [kind |-> "file", data |-> data, mode |-> "rw"]
Link(to)    == [kind |-> "link", data |-> to, mode |-> "rw"]
Directory   == [kind |-> "dir", data |-> <<>>, mode |-> "rw"]

Parent(p)       == SubSeq(p, 1, Len(p) - 1)
Subtree(f, p)   == {q \in DOMAIN f : IsPrefix(p, q)}
Children(f, p)  == {q \in Subtree(f, p) : Len(q) = Len(p) + 1}
IsDir(f, p)     == p \in DOMAIN f /\ f[p].kind = "dir"
Writable(f, p)  == IsDir(f, p) /\ f[p].mode = "rw"
Under(p, q)     == Append(p, Last(q))

With(f, p, e) == [q \in DOMAIN f \cup {p} |-> IF q = p THEN e ELSE f[q]]
Cut(f, p)     == [q \in DOMAIN f \ Subtree(f, p) |-> f[q]]

(* The tree after rename(p, q): what was at and below p is at q. *)
Moved(f, p, q) ==
    LET rest == Cut(f, p)
        Old(r) == p \o SubSeq(r, Len(q) + 1, Len(r))
        New(r) == q \o SubSeq(r, Len(p) + 1, Len(r))
        there == {New(r) : r \in Subtree(f, p)}
    IN [r \in DOMAIN rest \cup there |-> IF r \in there THEN f[Old(r)] ELSE rest[r]]

CanCreate(f, p) == p \notin DOMAIN f /\ Writable(f, Parent(p))

(* rename(2): a directory needs to be writable itself, only an empty one   *)
(* can be overwritten by a directory, and none by anything else.           *)
CanRename(f, p, q) ==
    /\ p \in DOMAIN f
    /\ Writable(f, Parent(p)) /\ Writable(f, Parent(q))
    /\ ~ IsPrefix(p, q)
    /\ IsDir(f, p) => f[p].mode = "rw"
    /\ q \in DOMAIN f => IsDir(f, p) = IsDir(f, q) /\ Children(f, q) = {}

(* remove_entry_confined: remove_file, or remove_dir_all of a directory. *)
CanRemove(f, p) ==
    /\ Writable(f, Parent(p))
    /\ \A q \in Subtree(f, p) :
           IsDir(f, q) /\ Children(f, q) # {} => f[q].mode = "rw"

-----------------------------------------------------------------------------
(* What the programs and the trees are: the steps name paths below the     *)
(* prefix and outside the journal, the trees are trees, without a journal. *)
Place(p) == p \in Seq(STRING) /\ p # << >> /\ p[1] # Journal[1]

OfTwoPaths == {"move", "move_children", "copy", "link_dir", "link_children", "symlink"}
OfOnePath  == {"mkdir", "parents", "touch", "remove", "inreplace", "write", "set_permissions"}

StepFits(s) ==
    /\ "do" \in DOMAIN s
    /\ s.do \in OfTwoPaths \cup OfOnePath => "at" \in DOMAIN s /\ Place(s.at)
    /\ s.do \in OfTwoPaths => "from" \in DOMAIN s /\ Place(s.from)
    /\ s.do \in OfTwoPaths \cup OfOnePath \cup {"run", "maintenance"}

IsSequence(s) == s \in Seq({s[i] : i \in DOMAIN s})

IsEntry(e) == e = [kind |-> e.kind, data |-> e.data, mode |-> e.mode]

ASSUME StepsAssumption ==
    /\ \A prog \in Programs : \A i \in 1 .. Len(prog) :
           StepFits(prog[i].step) /\ IsSequence(prog[i].guards)
    /\ \A t \in Trees :
           /\ t = [p \in DOMAIN t |-> t[p]] /\ IsFiniteSet(DOMAIN t) /\ IsDir(t, << >>)
           /\ \A p \in DOMAIN t : p # << >> => Place(p) /\ IsDir(t, Parent(p))
           /\ \A p \in DOMAIN t : IsEntry(t[p])
    /\ MaxFaults \in Nat

-----------------------------------------------------------------------------
(* The inverses. *)

RemovalOf(p)        == [undo |-> "remove", at |-> p]
ReplaceBy(p, b)     == [undo |-> "replace", at |-> p, from |-> b]
RestoreFrom(p, b)   == [undo |-> "restore", at |-> p, from |-> b]
MoveBack(p, q)      == [undo |-> "move_back", at |-> p, from |-> q]
ModeOf(p, m)        == [undo |-> "mode", at |-> p, mode |-> m]

Clears(f, inv)  == inv.undo \in {"remove", "replace"} /\ inv.at \in DOMAIN f
Fetches(f, inv) == inv.undo \in {"replace", "restore", "move_back"}
                   /\ inv.from \in DOMAIN f

Cleared(f, inv) == IF Clears(f, inv) THEN Cut(f, inv.at) ELSE f

(* apply_inverse, when every call in it succeeds.  What is not there any   *)
(* more needs no undoing: an inverse whose path or backup is missing does  *)
(* nothing.                                                                *)
ApplyInverse(f, inv) ==
    IF inv.undo = "mode"
    THEN IF inv.at \in DOMAIN f THEN [f EXCEPT ![inv.at].mode = inv.mode] ELSE f
    ELSE LET g == Cleared(f, inv)
         IN IF Fetches(g, inv) THEN Moved(g, inv.from, inv.at) ELSE g

CanApply(f, inv) ==
    /\ Clears(f, inv) => CanRemove(f, inv.at)
    /\ LET g == Cleared(f, inv)
       IN Fetches(g, inv) => CanRename(g, inv.from, inv.at)

(* The trees a failing apply_inverse leaves: nothing was done, a directory *)
(* to remove lost its contents only, or the path was cleared and the       *)
(* backup did not come back.                                               *)
HalfApplied(f, inv) ==
    {f} \cup
    (IF Clears(f, inv) /\ CanRemove(f, inv.at)
     THEN {[q \in DOMAIN f \ (Subtree(f, inv.at) \ {inv.at}) |-> f[q]]} \cup
          (IF Fetches(Cleared(f, inv), inv) THEN {Cleared(f, inv)} ELSE {})
     ELSE {})

(* inverse_leftovers *)
LeftBy(f, inv) ==
    ({inv.at} \cup (IF inv.undo \in {"replace", "restore", "move_back"}
                    THEN {inv.from} ELSE {})) \cap DOMAIN f

(* What the inverses of a journal, the last one first, make of a tree.     *)
Undone(f, journal) ==
    LET after[n \in 0 .. Len(journal)] ==
            IF n = 0 THEN f
            ELSE LET g == after[n - 1]
                     inv == journal[Len(journal) - n + 1]
                 IN IF CanApply(g, inv) THEN ApplyInverse(g, inv) ELSE g
    IN after[Len(journal)]

-----------------------------------------------------------------------------
Init ==
    /\ program \in Programs
    /\ start \in Trees
    /\ fs = start
    /\ pc = 1
    /\ todo = << >>
    /\ answered = [g \in {} |-> TRUE]
    /\ taken = << >>
    /\ deferred = 0
    /\ inverses = << >>
    /\ backups = 0
    /\ phase = "execute"
    /\ leftovers = {}
    /\ faults = 0

-----------------------------------------------------------------------------
(* The step of the list that is next: guards_match and the dispatch.       *)

GuardHolds(g) == IF g.if = "exists" THEN g.at \in DOMAIN fs ELSE g.at \notin DOMAIN fs

Answer(g) == IF g \in DOMAIN answered THEN answered[g] ELSE GuardHolds(g)

(* The guards of a step are asked in order, up to the first that fails. *)
AskedGuards(guards) ==
    {guards[i] : i \in {j \in DOMAIN guards : \A k \in 1 .. j - 1 : Answer(guards[k])}}

GuardsMatch(guards) == \A i \in DOMAIN guards : Answer(guards[i])

NextStep ==
    /\ phase = "execute" /\ todo = << >> /\ pc <= Len(program)
    /\ LET guards == program[pc].guards
           match == GuardsMatch(guards)
           asked == AskedGuards(guards)
       IN /\ answered' = [g \in DOMAIN answered \cup asked |-> Answer(g)]
          /\ taken' = Append(taken, match)
          /\ todo' = IF match THEN << program[pc].step >> ELSE << >>
    /\ pc' = pc + 1
    /\ UNCHANGED << program, start, fs, deferred, inverses, backups, phase,
                    leftovers, faults >>

-----------------------------------------------------------------------------
(* What an item of work does. *)

Item == Head(todo)
Doing(what) == phase = "execute" /\ todo # << >> /\ Item.do = what

unchangedByWork == << program, start, pc, answered, taken, leftovers >>

(* The item stands for other work. *)
StandsFor(items) ==
    /\ todo' = items \o Tail(todo)
    /\ UNCHANGED << fs, deferred, inverses, backups, phase, faults, unchangedByWork >>

(* The item is an error: execute returns, the caller rolls back. *)
Fails ==
    /\ phase' = "rollback"
    /\ todo' = << >>
    /\ UNCHANGED << fs, deferred, inverses, backups, faults, unchangedByWork >>

(* The item is a call: it succeeds if the tree lets it, leaving tree f and *)
(* noting the inverses `noted', or it fails.                               *)
Calls(possible, f, noted) ==
    \/ /\ possible
       /\ fs' = f
       /\ inverses' = inverses \o noted
       /\ todo' = Tail(todo)
       /\ UNCHANGED << deferred, backups, phase, faults, unchangedByWork >>
    \/ ~ possible /\ Fails
    \/ /\ possible /\ faults < MaxFaults
       /\ faults' = faults + 1
       /\ phase' = "rollback"
       /\ todo' = << >>
       /\ UNCHANGED << fs, deferred, inverses, backups, unchangedByWork >>

EachOf(paths, ItemFor(_)) ==
    LET order == SetToSeq(paths) IN [i \in DOMAIN order |-> ItemFor(order[i])]

ParentsOf(p)        == [do |-> "parents", at |-> Parent(p)]
DirectoryAt(p)      == [do |-> "parents", at |-> p]
Replaces(p)         == [do |-> "replace", at |-> p]
Puts(p, e)          == [do |-> "put", at |-> p, entry |-> e]
Notes(inv)          == [do |-> "note", inverse |-> inv]
Renames(p, q, noted) == [do |-> "rename", from |-> p, at |-> q, noted |-> noted]
BacksUp(p, undo)    == [do |-> "backup", at |-> p, undo |-> undo]
Links(p, q, force)  == [do |-> "link", from |-> p, at |-> q, force |-> force]

(* destination_for: into a directory, or under the target's own name. *)
DestinationFor(p, target) == IF IsDir(fs, target) THEN Under(target, p) ELSE target

-----------------------------------------------------------------------------
(* The steps.  Each becomes the calls and helpers its executor makes.      *)

Touch ==
    /\ Doing("touch")
    /\ LET p == Item.at
       IN StandsFor(<< ParentsOf(p) >> \o
                  IF p \in DOMAIN fs THEN << >>
                  ELSE << Notes(RemovalOf(p)), Puts(p, File("empty")) >>)

Move ==
    /\ Doing("move")
    /\ LET p == Item.from
           q == DestinationFor(p, Item.at)
       IN IF q \in DOMAIN fs /\ ~ Item.overwrite THEN Fails
          ELSE StandsFor(<< ParentsOf(Item.at) >> \o
                       (IF q \in DOMAIN fs THEN << BacksUp(q, "replace") >> ELSE << >>) \o
                       << Notes(MoveBack(p, q)), Renames(p, q, << >>) >>)

MoveChildren ==
    /\ Doing("move_children")
    /\ StandsFor(<< DirectoryAt(Item.at), [Item EXCEPT !.do = "move_each"] >>)

MoveEach ==
    /\ Doing("move_each")
    /\ IF ~ IsDir(fs, Item.from) THEN Fails
       ELSE StandsFor(EachOf(Children(fs, Item.from) \ {Item.at},
                LAMBDA c : [do |-> "move_child", from |-> c, at |-> Under(Item.at, c)]))

MoveChild ==
    /\ Doing("move_child")
    /\ IF Item.at \in DOMAIN fs THEN Fails
       ELSE StandsFor(<< Notes(MoveBack(Item.from, Item.at)),
                       Renames(Item.from, Item.at, << >>) >>)

Copy ==
    /\ Doing("copy")
    /\ LET p == Item.from
           q == DestinationFor(p, Item.at)
       IN IF q \in DOMAIN fs /\ ~ Item.overwrite THEN Fails
          ELSE StandsFor(<< ParentsOf(Item.at), Replaces(q),
                          [do |-> "copy_entry", from |-> p, at |-> q,
                           recursive |-> Item.recursive] >>)

(* copy_entry: a directory takes the mode of its source before it takes    *)
(* the children.                                                           *)
CopyEntry ==
    /\ Doing("copy_entry")
    /\ LET p == Item.from
       IN IF p \notin DOMAIN fs \/ (IsDir(fs, p) /\ ~ Item.recursive) THEN Fails
          ELSE IF ~ IsDir(fs, p) THEN StandsFor(<< Puts(Item.at, fs[p]) >>)
          ELSE StandsFor(<< Puts(Item.at, Directory),
                          [do |-> "set_mode", at |-> Item.at, mode |-> fs[p].mode],
                          [Item EXCEPT !.do = "copy_children"] >>)

(* A copy of a directory into itself meets its own copy for ever, until    *)
(* the path is too long for the operating system.                          *)
CopyChildren ==
    /\ Doing("copy_children")
    /\ IF IsPrefix(Item.from, Item.at) THEN Fails
       ELSE StandsFor(EachOf(Children(fs, Item.from),
                LAMBDA c : [do |-> "copy_entry", from |-> c, at |-> Under(Item.at, c),
                            recursive |-> TRUE]))

(* expand_glob of the two patterns modelled: a path, or all that a         *)
(* directory holds.                                                        *)
Glob(item) == IF item.glob THEN Children(fs, item.at) ELSE {item.at} \cap DOMAIN fs

RemovePaths ==
    /\ Doing("remove")
    /\ StandsFor(EachOf(Glob(Item),
           LAMBDA p : [do |-> "remove_path", at |-> p, recursive |-> Item.recursive,
                       only |-> Item.only]))

(* `only' is the filter on the content of a file, {} for none. *)
RemovePath ==
    /\ Doing("remove_path")
    /\ LET p == Item.at
       IN IF \/ p \notin DOMAIN fs
             \/ Item.only # {} /\ (fs[p].kind # "file" \/ fs[p].data \notin Item.only)
          THEN StandsFor(<< >>)
          ELSE IF IsDir(fs, p) /\ ~ Item.recursive THEN Fails
          ELSE StandsFor(<< BacksUp(p, "restore") >>)

(* Where the links that a path ends in lead: to a file, a directory,       *)
(* nothing, or, of links that lead to each other, to one of them.          *)
Followed(f, p) ==
    LET after[n \in 0 .. Cardinality(DOMAIN f)] ==
            IF n = 0 THEN p
            ELSE LET q == after[n - 1]
                 IN IF q \in DOMAIN f /\ f[q].kind = "link" THEN f[q].data ELSE q
    IN after[Cardinality(DOMAIN f)]

(* What is read is what the path leads to; what is replaced is the path    *)
(* itself, a link by a file.                                               *)
Inreplace ==
    /\ Doing("inreplace")
    /\ LET p == Item.at
           q == Followed(fs, p)
       IN IF q \in DOMAIN fs /\ fs[q].kind = "file" /\ fs[q].data = Item.before
          THEN StandsFor(<< Replaces(p), ParentsOf(p), Puts(p, File(Item.after)) >>)
          ELSE Fails

LinkTree ==
    /\ Doing("link_dir")
    /\ StandsFor(<< DirectoryAt(Item.at), [Item EXCEPT !.do = "link_each"] >>)

(* A tree linked into itself is met again in what it is linked into, until *)
(* the path is too long; onto itself, its files become links to themselves. *)
LinkEach ==
    /\ Doing("link_each")
    /\ IF \/ ~ IsDir(fs, Item.from)
          \/ Item.from # Item.at /\ IsPrefix(Item.from, Item.at)
       THEN Fails
       ELSE StandsFor(EachOf(Children(fs, Item.from),
                LAMBDA c : [do |-> "link_entry", from |-> c, at |-> Under(Item.at, c)]))

LinkEntry ==
    /\ Doing("link_entry")
    /\ LET q == Item.at
       IN IF ~ IsDir(fs, Item.from) THEN StandsFor(<< Links(Item.from, q, TRUE) >>)
          ELSE StandsFor((IF q \in DOMAIN fs /\ ~ IsDir(fs, q) THEN << Replaces(q) >> ELSE << >>)
                       \o << DirectoryAt(q), [Item EXCEPT !.do = "link_dir"] >>)

LinkChildren ==
    /\ Doing("link_children")
    /\ StandsFor(<< DirectoryAt(Item.at), [Item EXCEPT !.do = "link_list"] >>)

LinkList ==
    /\ Doing("link_list")
    /\ IF ~ IsDir(fs, Item.from) THEN Fails
       ELSE StandsFor(EachOf(Children(fs, Item.from),
                LAMBDA c : Links(c, Under(Item.at, c), FALSE)))

(* With source_glob, the entries of the source directory. *)
Symlink ==
    /\ Doing("symlink")
    /\ LET sources == IF Item.glob THEN Children(fs, Item.from) ELSE {Item.from}
           into == Item.glob /\ (Cardinality(sources) > 1 \/ IsDir(fs, Item.at))
       IN StandsFor((IF into /\ sources # {} THEN << DirectoryAt(Item.at) >> ELSE << >>) \o
                  EachOf(sources, LAMBDA s : Links(s, IF into THEN Under(Item.at, s)
                                                      ELSE Item.at, Item.force)))

WriteFile ==
    /\ Doing("write")
    /\ LET p == Item.at
       IN StandsFor(IF p \in DOMAIN fs /\ ~ Item.overwrite THEN << >>
                  ELSE << Replaces(p), ParentsOf(p), Puts(p, File(Item.content)) >>)

SetPermissions ==
    /\ Doing("set_permissions")
    /\ StandsFor(EachOf(Glob(Item),
           LAMBDA p : [do |-> "set_mode_recursive", at |-> p, mode |-> Item.mode,
                       recursive |-> Item.recursive]))

SetModeRecursive ==
    /\ Doing("set_mode_recursive")
    /\ LET p == Item.at
       IN IF p \notin DOMAIN fs THEN Fails
          ELSE IF fs[p].kind = "link" THEN StandsFor(<< >>)
          ELSE StandsFor(<< Notes(ModeOf(p, fs[p].mode)),
                          [do |-> "set_mode", at |-> p, mode |-> Item.mode] >> \o
                       IF IsDir(fs, p) /\ Item.recursive
                       THEN EachOf(Children(fs, p), LAMBDA c : [Item EXCEPT !.at = c])
                       ELSE << >>)

-----------------------------------------------------------------------------
(* The helpers. *)

(* create_parents: the missing directories down to the path, one by one. *)
CreateParents ==
    /\ Doing("parents")
    /\ LET p == Item.at
           there == CHOOSE n \in 0 .. Len(p) :
                        /\ SubSeq(p, 1, n) \in DOMAIN fs
                        /\ \A m \in n + 1 .. Len(p) : SubSeq(p, 1, m) \notin DOMAIN fs
       IN IF IsDir(fs, SubSeq(p, 1, there))
          THEN StandsFor([i \in 1 .. Len(p) - there |->
                            [do |-> "mkdir", at |-> SubSeq(p, 1, there + i)]])
          ELSE Fails

(* create_link *)
CreateLink ==
    /\ Doing("link")
    /\ LET q == Item.at
       IN IF q \in DOMAIN fs /\ ~ Item.force THEN Fails
          ELSE StandsFor(<< ParentsOf(q), Replaces(q), Puts(q, Link(Item.from)) >>)

(* replace_before_mutation *)
ReplaceBeforeMutation ==
    /\ Doing("replace")
    /\ StandsFor(IF Item.at \in DOMAIN fs THEN << BacksUp(Item.at, "replace") >>
               ELSE << Notes(RemovalOf(Item.at)) >>)

(* StepJournal::backup: the path is renamed into the journal root, which   *)
(* the first backup creates, under a number of its own; the inverse is     *)
(* noted when the rename has succeeded.                                    *)
Backup ==
    /\ Doing("backup")
    /\ IF Journal \notin DOMAIN fs THEN StandsFor(<< [do |-> "root"], Item >>)
       ELSE LET b == Append(Journal, backups)
            IN /\ backups' = backups + 1
               /\ todo' = << Renames(Item.at, b,
                                << IF Item.undo = "replace" THEN ReplaceBy(Item.at, b)
                                   ELSE RestoreFrom(Item.at, b) >>) >> \o Tail(todo)
               /\ UNCHANGED << fs, deferred, inverses, phase, faults, unchangedByWork >>

-----------------------------------------------------------------------------
(* The calls. *)

CreateRoot == Doing("root") /\ Calls(TRUE, With(fs, Journal, Directory), << >>)

(* Mutant: the inverse is noted before the directory is created. *)
MkdirNotedFirst ==
    /\ Doing("mkdir")
    /\ StandsFor(<< Notes(RemovalOf(Item.at)), Puts(Item.at, Directory) >>)

(* create_dir, of a mkdir step or of a missing parent: the inverse is      *)
(* noted when the directory has been created.                              *)
Mkdir ==
    /\ Doing("mkdir")
    /\ Calls(CanCreate(fs, Item.at), With(fs, Item.at, Directory), << RemovalOf(Item.at) >>)

Put ==
    /\ Doing("put")
    /\ Calls(CanCreate(fs, Item.at), With(fs, Item.at, Item.entry), << >>)

Rename ==
    /\ Doing("rename")
    /\ Calls(CanRename(fs, Item.from, Item.at), Moved(fs, Item.from, Item.at), Item.noted)

SetMode ==
    /\ Doing("set_mode")
    /\ Calls(Item.at \in DOMAIN fs, [fs EXCEPT ![Item.at].mode = Item.mode], << >>)

(* The push of an inverse before its change. *)
Note ==
    /\ Doing("note")
    /\ inverses' = Append(inverses, Item.inverse)
    /\ todo' = Tail(todo)
    /\ UNCHANGED << fs, deferred, backups, phase, faults, unchangedByWork >>

(* run_command of a run step, in its place; of a maintenance step, kept    *)
(* for the end.                                                            *)
RunStep ==
    /\ Doing("run")
    /\ StandsFor(<< >>) \/ Fails

DeferMaintenance ==
    /\ Doing("maintenance")
    /\ deferred' = deferred + 1
    /\ todo' = Tail(todo)
    /\ UNCHANGED << fs, inverses, backups, phase, faults, unchangedByWork >>

AllTaken == phase = "execute" /\ todo = << >> /\ pc > Len(program)

RunMaintenance ==
    /\ AllTaken /\ deferred > 0
    /\ deferred' = deferred - 1
    /\ phase' \in {"execute", "rollback"}
    /\ UNCHANGED << fs, todo, inverses, backups, faults, unchangedByWork >>

-----------------------------------------------------------------------------
(* The end.  The caller takes the journal root of an execution that        *)
(* succeeded, or rolls a failed one back.                                  *)

(* remove_tree_confined of the journal root: it may fail, and is reported. *)
DropRoot(end) ==
    /\ \/ /\ fs' = Cut(fs, Journal)
          /\ UNCHANGED << leftovers, faults >>
       \/ /\ Journal \in DOMAIN fs /\ faults < MaxFaults
          /\ leftovers' = leftovers \cup {Journal}
          /\ faults' = faults + 1
          /\ UNCHANGED fs
    /\ phase' = end
    /\ UNCHANGED << program, start, pc, todo, answered, taken, deferred, backups >>

(* take_cleanup_root, and the removal by the caller. *)
Commit ==
    /\ AllTaken /\ deferred = 0
    /\ inverses' = << >>
    /\ DropRoot("committed")

(* The loop of StepJournal::rollback over the inverses, last one first. *)
UndoLast ==
    /\ phase = "rollback" /\ inverses # << >>
    /\ LET inv == Last(inverses)
       IN \/ /\ CanApply(fs, inv)
             /\ fs' = ApplyInverse(fs, inv)
             /\ UNCHANGED << leftovers, faults >>
          \/ /\ ~ CanApply(fs, inv) \/ faults < MaxFaults
             /\ faults' = IF CanApply(fs, inv) THEN faults + 1 ELSE faults
             /\ fs' \in HalfApplied(fs, inv)
             /\ leftovers' = leftovers \cup LeftBy(fs', inv)
    /\ inverses' = Front(inverses)
    /\ UNCHANGED << program, start, pc, todo, answered, taken, deferred, backups, phase >>

RollbackDone ==
    /\ phase = "rollback" /\ inverses = << >>
    /\ DropRoot("rolled_back")
    /\ UNCHANGED inverses

-----------------------------------------------------------------------------
Execute ==
    \/ NextStep
    \/ Touch \/ Move \/ MoveChildren \/ MoveEach \/ MoveChild
    \/ Copy \/ CopyEntry \/ CopyChildren \/ RemovePaths \/ RemovePath \/ Inreplace
    \/ LinkTree \/ LinkEach \/ LinkEntry \/ LinkChildren \/ LinkList \/ Symlink
    \/ WriteFile \/ SetPermissions \/ SetModeRecursive
    \/ CreateParents \/ CreateLink \/ ReplaceBeforeMutation \/ Backup
    \/ CreateRoot \/ Mkdir \/ Put \/ Rename \/ SetMode \/ Note
    \/ RunStep \/ DeferMaintenance \/ RunMaintenance

Next == Execute \/ Commit \/ UndoLast \/ RollbackDone

Spec == Init /\ [][Next]_vars

-----------------------------------------------------------------------------
(* Type correctness: the tree is a tree whose inner nodes are directories, *)
(* and every inverse is of a kind apply_inverse knows.                     *)
TypeOK ==
    /\ << >> \in DOMAIN fs
    /\ \A p \in DOMAIN fs :
           /\ fs[p].kind \in {"file", "dir", "link"} /\ fs[p].mode \in {"rw", "ro"}
           /\ p # << >> => IsDir(fs, Parent(p))
    /\ phase \in {"execute", "rollback", "committed", "rolled_back"}
    /\ phase # "execute" => todo = << >>
    /\ pc \in 1 .. Len(program) + 1 /\ Len(taken) = pc - 1
    /\ \A g \in DOMAIN answered : answered[g] \in BOOLEAN
    /\ \A i \in DOMAIN inverses :
           inverses[i].undo \in {"remove", "replace", "restore", "move_back", "mode"}
    /\ deferred \in Nat /\ backups \in Nat /\ faults \in 0 .. MaxFaults

(* At every moment of every step, between any two calls, the inverses      *)
(* noted so far, applied backwards, give back the tree the steps found:    *)
(* contents, modes and links, and nothing else beside the journal.         *)
UndoRestores ==
    phase = "execute" => Cut(Undone(fs, inverses), Journal) = start

(* What is not reported is not there: an execution that ends without       *)
(* leftovers has no journal left, and if it failed, the tree is the one    *)
(* the steps found, whichever inverse or call failed on the way.           *)
SilenceMeansRestored ==
    leftovers = {} =>
        /\ phase \in {"committed", "rolled_back"} => Journal \notin DOMAIN fs
        /\ phase = "rolled_back" => fs = start

(* A guard is asked once: the steps that carry the same guards are all     *)
(* executed or all skipped, even when the first of them changes what the   *)
(* guard asks about.                                                       *)
SameGuardsSameFate ==
    \A i, j \in DOMAIN taken :
        program[i].guards = program[j].guards => taken[i] = taken[j]

(* The three of them: what the steps of a formula did is taken back in     *)
(* full or reported, and the guards decide for all the steps alike.        *)
StepsUndone == UndoRestores /\ SilenceMeansRestored /\ SameGuardsSameFate
===============================================================================
