------------------------------- MODULE Linker -------------------------------
(***************************************************************************)
(* Symlinking a keg into the prefix and taking its links out again: the    *)
(* planner, the operations it plans and `unlink' of zapbrew-pour/src/      *)
(* link.rs, driven by the commands `link' and `unlink' of zapbrew-ops      *)
(* (link.rs, unlink.rs).  InstallTxn and RemovalTxn abstract this to a set *)
(* of files; here are the directories: which of them are linked whole,     *)
(* which are made real, and what becomes of what is already there.         *)
(*                                                                         *)
(* The commands hold the locks of every formula they touch, so each is one *)
(* step; any of its file-system calls may fail, which ends it there.       *)
(***************************************************************************)
EXTENDS Naturals, FiniteSets, SequencesExt

CONSTANTS
    Formulae, Kegs,
    VersionsOf,   \* VersionsOf[f]: the kegs f may have, newest last: a sequence
    Tree,         \* Tree[k]: what keg k ships, [path -> "file" | "dir" | "broken"]
    Order,        \* every path, as sorted_children visits them: a sequence
    Stems,        \* <<name, stem>>: the name begins with the stem
    KegOnly,      \* formulae that are keg-only ...
    ByVersion,    \* ... because versioned, ...
    ByMacos,      \* ... or because macOS provides them (default prefix)
    Family,       \* Family[f]: the formulae of f's link-overwrite family, by name: a sequence
    AliasNames, AliasesOf,
    UserTrees,    \* what the user may have put there: functions from paths to nodes
    RecordDirs,   \* formulae whose opt record may be a directory of the user's
    NoKegHere,    \* Option::None
    MaxLinkFaults,\* bound: commands with a failing call
    MaxPoured     \* bound: kegs in the Cellar at once

Paths == ToSet(Order)
FormulaOfKeg(k) == CHOOSE f \in Formulae : Contains(VersionsOf[f], k)

AbovePath == [p \in Paths |-> {SubSeq(p, 1, n) : n \in 1 .. Len(p) - 1}]
Above(p) == AbovePath[p]
\* A path and what is below it.
FromPath == [p \in Paths |-> {q \in Paths : q = p \/ p \in Above(q)}]
From(p) == FromPath[p]

\* What is there below something is below a directory.
Treelike(m) == \A p \in Paths : m[p] # <<"absent">> => \A a \in Above(p) : m[a] = <<"dir">>

ASSUME LinkerAssumption ==
    \* A directory comes before what is below it, and nothing comes twice.
    /\ \A p \in Paths : p # <<>> /\ p \in Seq(ToSet(p)) /\ Above(p) \subseteq Paths
    /\ \A i, j \in DOMAIN Order : i < j => Order[i] # Order[j] /\ Order[j] \notin Above(Order[i])
    /\ Order \in Seq(Paths)
    /\ Kegs = UNION {ToSet(VersionsOf[f]) : f \in Formulae} /\ NoKegHere \notin Kegs
    \* A keg is of one formula: its path names it.
    /\ \A f, g \in Formulae : f = g \/ ToSet(VersionsOf[f]) \cap ToSet(VersionsOf[g]) = {}
    /\ \A k \in Kegs : /\ DOMAIN Tree[k] \subseteq Paths
                       /\ \A p \in DOMAIN Tree[k] : \A a \in Above(p) :
                             a \in DOMAIN Tree[k] /\ Tree[k][a] = "dir"
    /\ \A f \in Formulae : VersionsOf[f] \in Seq(Kegs) /\ Family[f] \in Seq(Formulae)
    /\ \A t \in UserTrees : \A p \in DOMAIN t : t[p] \in {<<"dir">>, <<"file">>, <<"outside">>}
    /\ MaxLinkFaults \in Nat /\ MaxPoured \in Nat

VARIABLES
    at,         \* at[p]: what is at p in the prefix
    backedUp,   \* backedUp[p]: what is at Backup/p
    opt, linked,\* the records opt/<f> and var/homebrew/linked/<f>
    alias,      \* alias[a]: the formula the alias records of a point to
    poured,     \* kegs that are in the Cellar
    mine,       \* at, before the first command
    torn,       \* kegs some call failed for: while linking or unlinking them, or while
                \* making a directory real that was linked to them
    asked,      \* how the last command ended, if it was a `link'
    linkFaults

linkVars == <<at, backedUp, opt, linked, alias, poured, mine, torn, asked, linkFaults>>

-----------------------------------------------------------------------------
(* Nodes: what lstat sees.  <<"link", k, p>> is a symlink to path p of keg *)
(* k, <<"outside">> one to something that is not in the Cellar.            *)

Absent == <<"absent">>
RealDir == <<"dir">>
File == <<"file">>
Outside == <<"outside">>
LinkTo(k, p) == <<"link", k, p>>
IsLink(n) == n[1] = "link"
IsSymlink(n) == IsLink(n) \/ n = Outside

\* fs::metadata(dst) succeeds: what the link names is there.
Resolves(n) == n = Outside \/ (IsLink(n) /\ n[2] \in poured /\ Tree[n[2]][n[3]] # "broken")
\* Mutant: a link to any keg counts as this keg's.
ResolvesToAny(n, k, p) == IsLink(n) /\ Resolves(n)

\* symlink_resolves_to(dst, src), canonical paths compared.
ResolvesTo(n, k, p) == n = LinkTo(k, p) /\ Resolves(n)
\* symlink_resolves_to is false of a link into the Cellar that names a directory of another keg.
MergeDir(n) == IsLink(n) /\ Resolves(n) /\ Tree[n[2]][n[3]] = "dir"

Name(p) == p[Len(p)]
Rel(p) == Tail(p)

-----------------------------------------------------------------------------
(* The strategy tables.                                                    *)

Stem(name, stem) == name = stem \/ <<name, stem>> \in Stems

LinkDirs == {"etc", "bin", "sbin", "include", "share", "lib", "Frameworks"}
UnlinkDirs == {"bin", "etc", "include", "lib", "sbin", "share", "var"}
MustExistTop == {"bin", "etc", "include", "lib", "sbin", "share", "opt"}

\* postgresql_versioned: ^postgresql@\d+
PostgresqlVersioned(rel) == Stem(rel[1], "postgresql@1")

\* SHARE_PATHS: directories under share that are always real.
SharePaths ==
    {<<d>> : d \in {"aclocal", "cps", "doc", "info", "java", "locale", "man", "applications",
                    "gnome", "icons", "mime", "mime-info", "pixmaps", "postgresql", "sounds",
                    "guile", "lua", "fish", "zsh", "pypy", "emacs", "vim"}}
    \cup {<<"man", m>> : m \in {"man1", "man2", "man3", "man4", "man5", "man6", "man7", "man8",
                                "cat1", "cat2", "cat3", "cat4", "cat5", "cat6", "cat7", "cat8"}}
    \cup {<<"gnome", "help">>, <<"mime", "packages">>}

\* is_localedir: .../locale/<code> or .../man/<code>, where two lower-case
\* letters, a C or POSIX begin the code.
LocaleDir(rel) ==
    \E i \in 1 .. Len(rel) - 1 :
        rel[i] \in {"locale", "man"} /\ \E c \in {"C", "POSIX", "xx"} : Stem(rel[i + 1], c)

InfoFile(rel) ==
    /\ Len(rel) > 1 /\ rel[1] = "info"
    /\ rel = <<"info", "dir">> \/ Stem(Name(rel), ".info")

ShareStrategy(rel) ==
    CASE InfoFile(rel) -> "info"
      [] \/ rel = <<"locale", "locale.alias">>
         \/ Len(rel) > 2 /\ rel[1] = "icons" /\ Name(rel) = "icon-theme.cache" -> "skip_file"
      [] \/ LocaleDir(rel) \/ PostgresqlVersioned(rel) \/ rel \in SharePaths
         \/ Len(rel) > 1 /\ rel[1] \in {"icons", "lua", "guile"}
         \/ \E s \in {"zsh", "fish", "pypy"} : Stem(rel[1], s) -> "mkpath"
      [] OTHER -> "link"

LibStrategy(rel) ==
    CASE rel = <<"charset.alias">> -> "skip_file"
      [] \/ rel \in {<<d>> : d \in {"cps", "pkgconfig", "cmake", "dtrace", "ghc", "php"}}
         \/ \E s \in {"gdk-pixbuf", "gio", "lua", "mecab", "node", "ocaml", "perl5", "pypy",
                      "python3.1", "R", "ruby"} : Stem(rel[1], s)
         \/ PostgresqlVersioned(rel) -> "mkpath"
      [] OTHER -> "link"

StrategyFor(p) ==
    CASE p[1] = "etc" -> "mkpath"
      [] p[1] \in {"bin", "sbin"} -> "skip_dir"
      [] p[1] = "include" -> IF PostgresqlVersioned(Rel(p)) THEN "mkpath" ELSE "link"
      [] p[1] = "share" -> ShareStrategy(Rel(p))
      [] p[1] = "lib" -> LibStrategy(Rel(p))
      [] p[1] = "Frameworks" ->
            IF \/ Stem(Name(p), ".framework")
               \/ Len(p) > 2 /\ Name(p) = "Versions" /\ Stem(p[Len(p) - 1], ".framework")
            THEN "mkpath" ELSE "link"
      [] OTHER -> "link"

Inner == {p \in Paths : Len(p) > 1}
Strategy == [p \in Inner |-> StrategyFor(p)]
IsApp(p) == Stem(Name(p), ".app")

\* The files that get no link whatever is at their destination.
NeverLinked == {p \in Inner :
    \/ Name(p) = ".DS_Store"
    \/ Stem(Name(p), ".pyc") /\ Contains(p, "site-packages")
    \/ Strategy[p] = "skip_file"
    \/ Strategy[p] = "info" /\ Name(p) = "dir"}

-----------------------------------------------------------------------------
(* Planning: every destination is classified on the disk as it is, before  *)
(* the first write.                                                        *)

Disk == [at |-> at, backedUp |-> backedUp, opt |-> opt, linked |-> linked, alias |-> alias]

\* ensure_destination_ancestors: nothing but real directories above p, as far
\* as there is anything.
AncestorsReal(d, p) == \A a \in Above(p) : d.at[a] \in {RealDir, Absent}

Classify(d, k, p) ==
    CASE d.at[p] = Absent -> "absent"
      [] IsSymlink(d.at[p]) /\ ~Resolves(d.at[p]) -> "broken"
      [] ResolvesTo(d.at[p], k, p) -> "to_keg"
      [] MergeDir(d.at[p]) -> "cellar_dir"
      [] d.at[p] = RealDir -> "real_dir"
      [] OTHER -> "conflict"

\* The walk goes below directory p of the keg.
Descends(d, k, p) ==
    \/ d.at[p] = RealDir
    \/ /\ ~IsApp(p)
       /\ \/ Strategy[p] = "mkpath"
          \/ Strategy[p] # "skip_dir" /\ Classify(d, k, p) = "cellar_dir"

\* The entries of the keg that `visit' is called with.
Visited(d, k) ==
    {p \in DOMAIN Tree[k] :
        /\ Len(p) > 1 /\ p[1] \in LinkDirs
        /\ \A a \in Above(p) : Len(a) > 1 => Descends(d, k, a)}

\* Those whose destination is classified.
Classified(d, k) == {p \in Visited(d, k) : Tree[k][p] = "dir" \/ p \notin NeverLinked}

\* push_symlink, record_conflict, plan_symlink, plan_mkpath and the directory
\* branch of visit: the operation planned for entry p.
PlannedOp(d, k, p, overwrite) ==
    LET class == Classify(d, k, p)
        inTheWay == IF overwrite THEN "backup" ELSE "conflict"
    IN
    IF Tree[k][p] # "dir"
    THEN CASE class = "absent" -> "symlink"
           [] class = "to_keg" -> "none"
           [] class = "broken" -> "replace"
           [] OTHER -> inTheWay
    ELSE IF class = "real_dir" \/ IsApp(p) THEN "none"
    ELSE CASE Strategy[p] = "skip_dir" -> "none"
           [] Strategy[p] = "mkpath" ->
                CASE class = "absent" -> "mkdir"
                  [] class = "broken" -> "replace_mkdir"
                  [] class \in {"to_keg", "cellar_dir"} -> "expand"
                  [] OTHER -> IF overwrite THEN "backup_mkdir" ELSE "conflict"
           [] OTHER ->
                CASE class = "cellar_dir" -> "expand"
                  [] class = "broken" -> "replace"
                  [] class = "to_keg" -> "none"
                  [] class = "absent" -> "symlink"
                  [] OTHER -> inTheWay

\* link, up to the preflight gate.
PlanRefused(d, k) == \E p \in Classified(d, k) : ~AncestorsReal(d, p)
Plan(d, k, overwrite) ==
    LET classified == Classified(d, k)
    IN  [p \in Paths |-> IF p \in classified THEN PlannedOp(d, k, p, overwrite) ELSE "none"]
PlanConflicts(d, k, overwrite) ==
    {p \in Classified(d, k) : PlannedOp(d, k, p, overwrite) = "conflict"}

\* preflight_always_on_destinations.
PreflightRefused(d) ==
    \E t \in MustExistTop : <<t>> \in Paths /\ d.at[<<t>>] \notin {RealDir, Absent}

-----------------------------------------------------------------------------
(* Carrying the plan out.                                                  *)

\* create_dir_all
WithDirs(m, p) == [q \in Paths |-> IF q = p \/ q \in Above(p) THEN RealDir ELSE m[q]]

\* make_symlink, after the directories above it.
WithLink(m, k, p) == [WithDirs(m, p) EXCEPT ![p] = LinkTo(k, p)]

\* expand_dir: the linked directory becomes a real one, with a link to every
\* file of the keg it was linked from, whichever those are.
ExpandDir(m, p) ==
    LET k == m[p][2]
        shipped == (From(p) \ {p}) \cap DOMAIN Tree[k]
    IN  [q \in Paths |-> IF q = p \/ (q \in shipped /\ Tree[k][q] = "dir") THEN RealDir
                         ELSE IF q \in shipped THEN LinkTo(k, q) ELSE m[q]]

WithoutAll(m, ps) == [q \in Paths |-> IF q \in ps THEN Absent ELSE m[q]]

\* Mutant: what is in the way is deleted.
Discard(d, p) == [d EXCEPT !.at = WithoutAll(d.at, From(p))]

\* backup: what is at p, with all that is below it, moves to Backup.
MoveAway(d, p) ==
    [d EXCEPT !.backedUp = [q \in Paths |-> IF q \in From(p) THEN d.at[q] ELSE d.backedUp[q]],
              !.at = WithoutAll(d.at, From(p))]

\* apply_op of the operation planned for p.
ApplyOp(d, k, p, op) ==
    CASE op \in {"mkdir", "replace_mkdir"} -> [d EXCEPT !.at = WithDirs(d.at, p)]
      [] op = "backup_mkdir" -> [MoveAway(d, p) EXCEPT !.at = WithDirs(MoveAway(d, p).at, p)]
      [] op = "expand" -> [d EXCEPT !.at = ExpandDir(d.at, p)]
      [] op = "backup" -> [MoveAway(d, p) EXCEPT !.at = WithLink(MoveAway(d, p).at, k, p)]
      [] OTHER -> [d EXCEPT !.at = WithLink(d.at, k, p)]

\* What is there when the second half of apply_op fails.
Halfway(d, p, op) ==
    CASE op \in {"backup", "backup_mkdir"} -> MoveAway(d, p)
      [] op \in {"replace", "replace_mkdir"} -> [d EXCEPT !.at[p] = Absent]
      [] op = "expand" -> [d EXCEPT !.at[p] = RealDir]
      [] OTHER -> d

\* backup refuses to go onto a symlink or a directory under Backup, and below
\* anything there that is not a directory; rename puts no directory over a file.
BackupRefused(d, p, op) ==
    /\ op \in {"backup", "backup_mkdir"}
    /\ \/ IsSymlink(d.backedUp[p]) \/ d.backedUp[p] = RealDir
       \/ d.at[p] = RealDir /\ d.backedUp[p] # Absent
       \/ \E a \in Above(p) : d.backedUp[a] \notin {Absent, RealDir}
       \/ \E q \in From(p) \ {p} : d.backedUp[q] # Absent

\* The loop over the operations: the disk before them, when the must-exist directories are
\* there, after the first, the second and so on, up to a backup that is refused.
Ready(d) == [d EXCEPT !.at =
    [q \in Paths |-> IF Len(q) = 1 /\ q[1] \in MustExistTop THEN RealDir ELSE d.at[q]]]
Turn(s, k, p, op) ==
    IF ~s.going \/ op = "none" THEN s
    ELSE IF BackupRefused(s.disk, p, op) THEN [s EXCEPT !.going = FALSE]
    ELSE [s EXCEPT !.disk = ApplyOp(s.disk, k, p, op)]
Stages(d, k, plan) ==
    LET after[i \in 0 .. Len(Order)] ==
            IF i = 0 THEN [disk |-> Ready(d), going |-> TRUE]
            ELSE Turn(after[i - 1], k, Order[i], plan[Order[i]])
    IN  after

\* How a command ends: "ok"; "conflict" or "refused" before the first write; "stuck"
\* or "torn" after it, stopped by what it found or by a failing call.  hurt are other
\* kegs that are left without their links.
Answer(d, status) == [disk |-> d, status |-> status, hurt |-> {}]
Hurting(a, kegs) == [a EXCEPT !.hurt = @ \cup kegs]

\* What a failing call can leave.
Failing(answers) == IF linkFaults < MaxLinkFaults THEN answers ELSE {}
Torn(disks) == Failing({Answer(d, "torn") : d \in disks})

\* The second half of apply_op fails: of an expansion, the keg that was linked is hurt.
TornOp(d, p, op) ==
    Hurting(Answer(Halfway(d, p, op), "torn"), IF op = "expand" THEN {d.at[p][2]} ELSE {})

\* write_record, twice; a directory in the place of a record is refused.
WriteRecords(d, k) ==
    LET f == FormulaOfKeg(k)
        withOpt == [d EXCEPT !.opt[f] = k]
    IN  IF d.opt[f] = "directory" THEN {Answer(d, "stuck")}
        ELSE {Answer([withOpt EXCEPT !.linked[f] = k], "ok")}
             \cup Torn({d, [d EXCEPT !.opt[f] = NoKegHere], withOpt,
                        [withOpt EXCEPT !.linked[f] = NoKegHere]})

\* link(keg, prefix, options): every way it can end.
LinkKeg(d, k, overwrite, fileLinks) ==
    IF (fileLinks /\ PlanRefused(d, k)) THEN {Answer(d, "refused")}
    ELSE IF (fileLinks /\ PlanConflicts(d, k, overwrite) # {}) THEN {Answer(d, "conflict")}
    ELSE IF PreflightRefused(d) THEN {Answer(d, "refused")}
    ELSE LET plan == IF fileLinks THEN Plan(d, k, overwrite) ELSE [p \in Paths |-> "none"]
             stages == Stages(d, k, plan)
             last == stages[Len(Order)]
         IN  (IF last.going THEN WriteRecords(last.disk, k) ELSE {Answer(last.disk, "stuck")})
             \cup Torn({stages[i].disk : i \in 0 .. Len(Order)})
             \cup Failing({TornOp(stages[i - 1].disk, Order[i], plan[Order[i]]) :
                               i \in {j \in 1 .. Len(Order) : stages[j].going}})

-----------------------------------------------------------------------------
(* unlink                                                                  *)

\* walk_unlink does not look below a symlink of the prefix.
UnlinkVisited(d, k) ==
    {p \in DOMAIN Tree[k] :
        /\ Len(p) > 1 /\ p[1] \in UnlinkDirs
        /\ \A a \in Above(p) : Len(a) > 1 => ~IsSymlink(d.at[a])}
OwnLinks(d, k) == {p \in UnlinkVisited(d, k) : ResolvesTo(d.at[p], k, p)}
OwnDirs(d, k) == {p \in UnlinkVisited(d, k) : Tree[k][p] = "dir" /\ d.at[p] = RealDir}

WithoutLinks(d, ps) == [d EXCEPT !.at = WithoutAll(d.at, ps)]

\* rmdir_if_possible, deepest first: a .DS_Store that is no directory goes in any
\* case, a directory goes when nothing is left in it.
Pruned(d, dirs) ==
    LET stores == {q \in Paths : /\ Name(q) = ".DS_Store" /\ Front(q) \in dirs
                                 /\ d.at[q] # RealDir}
        noStore == WithoutAll(d.at, stores)
        gone == {p \in dirs : \A q \in From(p) : noStore[q] = Absent \/ q \in dirs}
    IN  [d EXCEPT !.at = WithoutAll(noStore, gone)]

\* unlink(keg, prefix): every way it can end.
UnlinkKeg(d, k) ==
    LET links == OwnLinks(d, k)
        f == FormulaOfKeg(k)
        bare == WithoutLinks(d, links)
        unrecorded == IF d.linked[f] = k THEN [bare EXCEPT !.linked[f] = NoKegHere] ELSE bare
    IN  {Answer(Pruned(unrecorded, OwnDirs(d, k)), "ok")}
        \cup Torn({WithoutLinks(d, links \cap {Order[i] : i \in 1 .. n}) : n \in 0 .. Len(Order)})

-----------------------------------------------------------------------------
(* The commands.                                                           *)

Poured(f) == ToSet(VersionsOf[f]) \cap poured
\* selected_keg: the newest.
Selected(f) == VersionsOf[f][Max({i \in DOMAIN VersionsOf[f] : VersionsOf[f][i] \in poured})]

\* linked_family_siblings, in the order of their names: their kegs, or none.
LinkedSiblings(f) ==
    [i \in 1 .. Len(Family[f]) |->
        IF f \in KegOnly \/ Family[f][i] \in KegOnly THEN linked[Family[f][i]] ELSE NoKegHere]
SiblingKegs(f) == ToSet(LinkedSiblings(f)) \ {NoKegHere}

\* Mutant: the siblings stay unlinked.
RestoreNothing(d, ks) == {Answer(d, "ok")}

\* restore_links: a conflict is an error too.
RestoreLink(d, k) ==
    {[a EXCEPT !.status = IF @ \in {"ok", "torn"} THEN @ ELSE "stuck"] :
        a \in LinkKeg(d, k, FALSE, TRUE)}

\* Unlinking, or relinking, one keg of a sequence after the other, until one fails.
SiblingAnswers(d, k, restoring) == IF restoring THEN RestoreLink(d, k) ELSE UnlinkKeg(d, k)
InTurn(d, ks, restoring) ==
    LET after[i \in 0 .. Len(ks)] ==
            IF i = 0 THEN {Answer(d, "ok")}
            ELSE UNION {IF a.status = "ok" /\ ks[i] # NoKegHere
                        THEN SiblingAnswers(a.disk, ks[i], restoring) ELSE {a} :
                           a \in after[i - 1]}
    IN  after[Len(ks)]

UnlinkSiblings(d, ks) == InTurn(d, ks, FALSE)
RestoreLinks(d, ks) == InTurn(d, Reverse(ks), TRUE)

\* write_alias_opt_symlinks
WithAliases(d, f) == [d EXCEPT !.alias = [n \in AliasNames |->
                        IF n \in AliasesOf[f] THEN f ELSE d.alias[n]]]

\* remove_alias_opt_symlinks: those that still resolve into the keg.
WithoutAliases(d, f, k) == [d EXCEPT !.alias = [n \in AliasNames |->
                        IF n \in AliasesOf[f] /\ d.alias[n] # NoKegHere /\ d.opt[d.alias[n]] = k
                        THEN NoKegHere ELSE d.alias[n]]]

\* reject_conflicts on the preview: what a sibling's links occupy will be free.
PreviewConflicts(d, k, ks, overwrite) ==
    {p \in PlanConflicts(d, k, overwrite) :
        ~(Resolves(d.at[p]) /\ IsLink(d.at[p]) /\ d.at[p][2] \in ToSet(ks))}

\* The end of link_one, from the first write on.
Relink(d, f, k, ks, overwrite) ==
    UNION {IF u.status # "ok" THEN {u}
           ELSE UNION {IF r.status = "ok"
                       THEN {Answer(WithAliases(r.disk, f), "ok")} \cup Torn({r.disk})
                       ELSE {Hurting(IF b.status = "ok" THEN Answer(b.disk, r.status) ELSE b, r.hurt) :
                               b \in RestoreLinks(r.disk, ks)}
                       : r \in LinkKeg(u.disk, k, overwrite, TRUE)}
           : u \in UnlinkSiblings(d, ks)}

Declined(f, force) == f \in KegOnly /\ (f \in ByMacos \/ ~(force \/ f \in ByVersion))

\* link_one: every way it can end.
LinkOneAnswers(f, overwrite, force) ==
    LET k == Selected(f)
        ks == LinkedSiblings(f)
    IN  IF linked[f] = k THEN {Answer(Disk, "already")}
        ELSE IF linked[f] # NoKegHere THEN {Answer(Disk, "another")}
        ELSE IF Declined(f, force) THEN {Answer(Disk, "declined")}
        ELSE IF PlanRefused(Disk, k) THEN {Answer(Disk, "refused")}
        ELSE IF PreviewConflicts(Disk, k, ks, overwrite) # {} THEN {Answer(Disk, "conflict")}
        ELSE Relink(Disk, f, k, ks, overwrite)

SetDisk(d) ==
    /\ UNCHANGED mine
    /\ at' = d.at /\ backedUp' = d.backedUp /\ opt' = d.opt
    /\ linked' = d.linked /\ alias' = d.alias

\* The command ends with answer a; ks are the kegs it relinks.
EndCommand(linking, ks, a) ==
    /\ SetDisk(a.disk)
    /\ asked' = IF linking THEN a.status ELSE "other"
    /\ linkFaults' = IF a.status = "torn" THEN linkFaults + 1 ELSE linkFaults
    /\ torn' = CASE a.status \in {"torn", "stuck"} -> torn \cup ks \cup a.hurt
                 [] a.status = "ok" -> torn \ ks
                 [] OTHER -> torn

LinkCommand(f, overwrite, force) ==
    /\ Poured(f) # {}
    /\ \E a \in LinkOneAnswers(f, overwrite, force) :
          EndCommand(TRUE, {Selected(f)} \cup SiblingKegs(f), a)
    /\ UNCHANGED poured

UnlinkCommand(f) ==
    LET k == IF linked[f] # NoKegHere THEN linked[f] ELSE Selected(f)
    IN  /\ Poured(f) # {}
        /\ \E a \in UnlinkKeg(WithoutAliases(Disk, f, k), k) : EndCommand(FALSE, {k}, a)
        /\ UNCHANGED poured

\* What install and upgrade leave when they succeed (InstallTxn has the rest): the
\* keg linked before is unlinked, the new one linked; keg-only: only its records.
Install(f, k) ==
    /\ k \in ToSet(VersionsOf[f]) \ poured /\ Cardinality(poured) < MaxPoured
    /\ \E u \in (IF linked[f] = NoKegHere THEN {Answer(Disk, "ok")} ELSE UnlinkKeg(Disk, linked[f])) :
          /\ u.status = "ok"
          /\ \E a \in LinkKeg(u.disk, k, FALSE, f \notin KegOnly) :
                a.status = "ok" /\ EndCommand(FALSE, {k, linked[f]}, a)
    /\ poured' = poured \cup {k}

\* targets, without --force: the linked keg, or the one of the opt record, or the newest.
TargetKeg(f) ==
    IF linked[f] # NoKegHere THEN linked[f]
    ELSE IF opt[f] \in Poured(f) THEN opt[f] ELSE Selected(f)

\* ... and uninstall (RemovalTxn): unlinked if it was linked, opt removed, gone.
Uninstall(f) ==
    LET k == TargetKeg(f) IN
    /\ Poured(f) # {}
    /\ \E u \in (IF linked[f] = k THEN UnlinkKeg(Disk, k) ELSE {Answer(Disk, "ok")}) :
          /\ u.status = "ok"
          /\ EndCommand(FALSE, IF linked[f] = k THEN {k} ELSE {},
                 Answer([u.disk EXCEPT !.opt[f] = IF @ = k THEN NoKegHere ELSE @], "ok"))
    /\ poured' = poured \ {k}

\* What the user's prefix holds before anything is linked.
UserPrefix(theirs) == [p \in Paths |->
    IF p \in DOMAIN theirs THEN theirs[p]
    ELSE IF Len(p) = 1 /\ p[1] \in MustExistTop THEN RealDir ELSE Absent]

ASSUME UserTreesAssumption == \A t \in UserTrees : Treelike(UserPrefix(t))

LinkInit ==
    /\ at \in {UserPrefix(theirs) : theirs \in UserTrees}
    /\ mine = at
    /\ backedUp = [p \in Paths |-> Absent]
    /\ \E dirs \in SUBSET RecordDirs :
          opt = [f \in Formulae |-> IF f \in dirs THEN "directory" ELSE NoKegHere]
    /\ linked = [f \in Formulae |-> NoKegHere]
    /\ alias = [n \in AliasNames |-> NoKegHere]
    /\ poured = {} /\ torn = {} /\ asked = "other" /\ linkFaults = 0

LinkNext ==
    \E f \in Formulae :
        \/ \E overwrite \in BOOLEAN, force \in {FALSE, (f \in KegOnly)} :
              LinkCommand(f, overwrite, force)
        \/ UnlinkCommand(f)
        \/ Uninstall(f)
        \/ \E k \in Kegs : Install(f, k)

LinkSpec == LinkInit /\ [][LinkNext]_linkVars

-----------------------------------------------------------------------------
(* Properties                                                              *)

\* The user finds what keg k ships at p: the link, or one to a directory above.
\* (A link that went to Backup with --overwrite is the user's choice.)
Reachable(k, p) ==
    \E q \in {p} \cup Above(p) : at[q] = LinkTo(k, q) \/ backedUp[q] = LinkTo(k, q)

Eligible(k) ==
    {p \in DOMAIN Tree[k] :
        /\ Tree[k][p] = "file" /\ p[1] \in LinkDirs /\ p \in Inner \ NeverLinked
        /\ \A a \in Above(p) : ~IsApp(a) /\ Name(a) # ".DS_Store"
        /\ p[1] \in {"bin", "sbin"} => Len(p) = 2}

\* A keg whose record says linked has every file it ships in the prefix, alone
\* or through a linked directory, whatever was linked, merged into or taken out
\* of the same directories before and after.  (link, expand_dir, unlink.)
LinkedReachable ==
    \A f \in Formulae \ KegOnly :
        linked[f] # NoKegHere /\ linked[f] \notin torn
            => \A p \in Eligible(linked[f]) : Reachable(linked[f], p)

\* Nothing is left behind: every link of the prefix belongs to a keg that is
\* recorded as linked, and every directory that was not there before to one that
\* ships it.  Left out by name: Frameworks, which `unlink' does not walk, and
\* links through which nothing resolves, with their directories.  (unlink, write_record.)
NothingLeftBehind ==
    \A p \in Paths : p[1] # "Frameworks" =>
        /\ IsLink(at[p]) /\ at[p][2] \notin torn /\ Tree[at[p][2]][at[p][3]] # "broken"
              => linked[FormulaOfKeg(at[p][2])] = at[p][2]
        /\ at[p] = RealDir /\ Len(p) > 1 /\ mine[p] # RealDir
              => \/ \E k \in Kegs : /\ p \in DOMAIN Tree[k] /\ Tree[k][p] = "dir"
                                    /\ k \in torn \/ linked[FormulaOfKeg(k)] = k
                 \/ \E q \in From(p) : IsLink(at[q]) /\ Tree[at[q][2]][at[q][3]] = "broken"

\* The two records of a linked keg name the same one.
RecordsPaired ==
    \A f \in Formulae : linked[f] # NoKegHere /\ linked[f] \notin torn => opt[f] = linked[f]

\* The records and the prefix agree, both ways.
RecordsTrue == LinkedReachable /\ NothingLeftBehind /\ RecordsPaired

\* What the user had at a destination is still there or was moved to Backup, and
\* there only another --overwrite of the same destination can have replaced it
\* (by a keg's link: a rename replaces a plain file).  (backup, apply_op.)
UserFilesKept ==
    \A p \in Paths :
        mine[p] \in {File, Outside} /\ Name(p) # ".DS_Store"
            => at[p] = mine[p] \/ backedUp[p] = mine[p] \/ IsLink(backedUp[p])

\* What a `link' that refuses may touch: what a linked keg ships, and what is below it.
OfLinked(p) ==
    \E g \in Formulae : /\ linked[g] # NoKegHere
                        /\ \E a \in {p} \cup Above(p) : Len(a) > 1 /\ a \in DOMAIN Tree[linked[g]]

\* A `link' that refuses has changed nothing: the siblings it had unlinked to make
\* room are linked as before, and their records are as they were.  What is in the
\* prefix may differ where they ship something, since directories go and come back with
\* them (another keg's may be expanded, or made real no longer), and never in
\* what the user put there or in what any keg has in reach.  (link_one, restore_links.)
RefusalChangesNothing ==
    [][asked' \in {"conflict", "refused", "declined", "another"} /\ torn = {}
          => /\ UNCHANGED <<opt, linked, alias, backedUp>>
             /\ \A p \in Paths :
                   /\ at[p] \in {File, Outside} /\ Name(p) # ".DS_Store" => at'[p] = at[p]
                   /\ at'[p] # at[p] /\ Len(p) > 1 => OfLinked(p)
             /\ \A k \in poured : \A p \in Eligible(k) : Reachable(k, p) => Reachable(k, p)']_linkVars

\* "A symlink resolving to a real directory under the cellar (mergeable)": a
\* directory another keg has linked whole does not keep a keg from linking.
DirectoriesMerge ==
    asked = "refused"
        => \E k \in Kegs : \E p \in Classified(Disk, k) : \E a \in Above(p) :
              at[a] # Absent /\ at[a] # RealDir /\ ~MergeDir(at[a])
=============================================================================
