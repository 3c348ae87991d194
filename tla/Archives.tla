------------------------------ MODULE Archives ------------------------------
(***************************************************************************)
(* Unpacking a bottle into the Cellar and a cask's archive into its        *)
(* staging directory.  Both read an archive twice: a preflight validates   *)
(* every entry and writes nothing, then the extraction checks each entry   *)
(* once more and places it.                                                *)
(*                                                                         *)
(* A path is a sequence of components: "/" first if it is absolute, ".."   *)
(* and "." for what they are, "" for an empty segment.  An entry is        *)
(* [path, kind, to, writable]: its link target and the owner's write bit.  *)
(* What is on disk is a function from paths below the destination to       *)
(* nodes.  An archive names no path twice.                                 *)
(***************************************************************************)
EXTENDS Naturals, Sequences, SequencesExt, FiniteSets

CONSTANTS
    KegPath,    \* <<name, version>> of the formula that is poured
    StagePath   \* where a cask's archive is extracted to, absolute

Entry(path, kind, to, writable) ==
    [path |-> path, kind |-> kind, to |-> to, writable |-> writable]

\* The tar headers the library consumes itself, and what is never unpacked.
Metadata == {"header"}
Unsafe == {"device"}
Linking == {"symlink", "hardlink"}

IsAbsolute(path) == path # <<>> /\ path[1] = "/"
Normals(path) == SelectSeq(path, LAMBDA c : c \notin {"/", "..", ".", ""})
Parent(path) == SubSeq(path, 1, Len(path) - 1)
Above(path) == {SubSeq(path, 1, n) : n \in 1 .. Len(path) - 1}

-----------------------------------------------------------------------------
(* A bottle: what an entry must be.                                        *)

\* Relative, without dots and empty segments (a directory's trailing slash
\* apart), and <<name, version>> first.
ValidPath(path) ==
    /\ \A i \in DOMAIN path : /\ path[i] \notin {"/", "..", "."}
                              /\ path[i] = "" => i = Len(path)
    /\ IsPrefix(KegPath, Normals(path))

\* Nowhere if it climbs above the root.
Nowhere == <<"nowhere">>
LexicalJoin(base, rel) ==
    FoldLeft(LAMBDA out, c :
                 CASE out = Nowhere \/ c = "/" \/ (c = ".." /\ out = <<>>) -> Nowhere
                   [] c = ".." -> Parent(out)
                   [] c = "." -> out
                   [] OTHER -> Append(out, c),
             <<>>, base \o rel)

ExactKeg(resolved) == IsPrefix(KegPath, Normals(resolved))

\* An absolute target points into the prefix the bottle was built in, and stays
\* for the relocation to rewrite.
ValidSymlink(path, to) == IsAbsolute(to) \/ ExactKeg(LexicalJoin(Parent(Normals(path)), to))

\* The target of a hard link is a path of the archive.
ValidLink(e) ==
    /\ e.to # <<>>
    /\ e.kind = "hardlink" => ValidPath(e.to) /\ ExactKeg(e.to)
    /\ e.kind = "symlink" => ValidSymlink(e.path, e.to)

Valid(e) == /\ e.kind \notin Unsafe
            /\ ValidPath(e.path)
            /\ e.kind \in Linking => ValidLink(e)

\* Mutant: an ancestor must have an entry of its own.
NestedUnlessDirectory(path, kinds) ==
    \E a \in Above(path) : Len(a) > Len(KegPath) /\ ~(a \in DOMAIN kinds /\ kinds[a] = "dir")

\* Below an entry that is no directory.  A directory without an entry is made
\* when something is placed in it.
Nested(path, kinds) == \E a \in Above(path) : a \in DOMAIN kinds /\ kinds[a] # "dir"

\* The kinds of the entries by their paths, or refused.
Preflight(entries) ==
    FoldLeft(LAMBDA s, e :
                 CASE ~s.ok \/ e.kind \in Metadata -> s
                   [] Valid(e) /\ ~Nested(Normals(e.path), s.kinds) ->
                          [s EXCEPT !.kinds = (Normals(e.path) :> e.kind) @@ @]
                   [] OTHER -> [s EXCEPT !.ok = FALSE],
             [ok |-> TRUE, kinds |-> <<>>], entries)

-----------------------------------------------------------------------------
(* Placing what passed.                                                    *)

Nothing == <<>>
Refused(disk) == [ok |-> FALSE, disk |-> disk]
Placed(disk) == [ok |-> TRUE, disk |-> disk]
NewDir(writable) == [kind |-> "dir", writable |-> writable]
IsDirectory(disk, p) == p \in DOMAIN disk /\ disk[p].kind = "dir"

\* The missing directories above a path.
WithParents(disk, path) ==
    [p \in Above(path) \ DOMAIN disk |-> NewDir(TRUE)] @@ disk

\* Every existing directory above lets something be put below it.
Reachable(disk, path) ==
    \A a \in Above(path) \cap DOMAIN disk : disk[a].kind = "dir" /\ disk[a].writable

\* Where the components left lead from the directory dir, symlinks followed; an
\* absolute target is outside the destination.
MaxSymlinks == 40
RECURSIVE Canonical(_, _, _, _)
Canonical(disk, dir, left, followed) ==
    IF left = <<>> THEN dir
    ELSE LET next == Append(dir, Head(left))
         IN CASE Head(left) \in {".", ""} -> Canonical(disk, dir, Tail(left), followed)
              [] Head(left) = ".." /\ dir # <<>> -> Canonical(disk, Parent(dir), Tail(left), followed)
              [] next \notin DOMAIN disk -> Nowhere
              [] disk[next].kind = "symlink" ->
                     IF IsAbsolute(disk[next].to) \/ followed = MaxSymlinks THEN Nowhere
                     ELSE Canonical(disk, dir, disk[next].to \o Tail(left), followed + 1)
              [] disk[next].kind = "dir" \/ Tail(left) = <<>> ->
                     Canonical(disk, next, Tail(left), followed)
              [] OTHER -> Nowhere
Canonicalized(disk, path) == Canonical(disk, <<>>, path, 0)

\* What a hard link names: the last component itself, which may be a symlink.
Source(disk, to) == Append(Canonicalized(disk, Parent(to)), Last(to))

\* What an entry becomes: a hard link is its file under another name.
Node(disk, e) ==
    CASE e.kind = "dir" -> NewDir(e.writable)
      [] e.kind = "symlink" -> [kind |-> "symlink", to |-> e.to]
      [] e.kind = "hardlink" -> disk[Source(disk, Normals(e.to))]
      [] OTHER -> [kind |-> "file", of |-> Normals(e.path)]

\* The tar library's unpack_in: a directory may be there already, nothing else.
\* What a hard link names must lead to something inside the destination.
UnpackIn(disk, e) ==
    LET path == Normals(e.path)
    IN IF /\ Reachable(disk, path)
          /\ path \in DOMAIN disk => e.kind = "dir" /\ IsDirectory(disk, path)
          /\ e.kind = "hardlink" =>
                 /\ Canonicalized(disk, Normals(e.to)) # Nowhere
                 /\ ~IsDirectory(disk, Source(disk, Normals(e.to)))
       THEN Placed((path :> Node(disk, e)) @@ WithParents(disk, path))
       ELSE Refused(disk)

\* Extraction does not go through a symlink an earlier entry left.
SymlinkAbove(disk, path) ==
    \E a \in Above(path) \cap DOMAIN disk : disk[a].kind = "symlink"

\* u+w, so that later entries can be placed below.
OwnerWritable(disk, p) == [disk EXCEPT ![p] = [@ EXCEPT !.writable = TRUE]]

Extract(entries) ==
    FoldLeft(LAMBDA s, e :
                 IF ~s.ok \/ e.kind \in Metadata THEN s
                 ELSE LET path == Normals(e.path)
                          done == UnpackIn(s.disk, e)
                      IN IF ~Valid(e) \/ SymlinkAbove(s.disk, path) \/ ~done.ok THEN Refused(s.disk)
                         ELSE IF e.kind = "dir" THEN Placed(OwnerWritable(done.disk, path))
                         ELSE done,
             Placed(Nothing), entries)

\* And at the end u+w for every directory of the keg.
AllWritable(disk) ==
    [p \in DOMAIN disk |-> IF IsPrefix(KegPath, p) /\ IsDirectory(disk, p)
                           THEN NewDir(TRUE) ELSE disk[p]]

Unpack(entries) ==
    IF ~Preflight(entries).ok THEN Refused(Nothing)
    ELSE LET done == Extract(entries)
         IN IF done.ok THEN Placed(AllWritable(done.disk)) ELSE done

-----------------------------------------------------------------------------
(* A cask's archive: a tar, or a zip, which has no links.                  *)

Unpackable(format) == {"file", "dir"} \cup (IF format = "tar" THEN {"symlink"} ELSE {})

\* A "." in front is a component as well, further on it disappears.
SafeRelative(path) ==
    /\ Normals(path) # <<>>
    /\ path[1] \notin {"/", "."}
    /\ \A i \in DOMAIN path : path[i] # ".."

\* Where a target leads, as the path says: outside, or below the root.
Normalize(path) ==
    FoldLeft(LAMBDA out, c :
                 CASE out = Nowhere \/ (c = ".." /\ Len(out) <= 1) -> Nowhere
                   [] c = ".." -> Parent(out)
                   [] c \in {".", ""} -> out
                   [] OTHER -> Append(out, c),
             <<>>, path)
ConfinedTarget(root, link, to) ==
    IsPrefix(root, Normalize(IF IsAbsolute(to) THEN to ELSE Parent(link) \o to))

Confined(e) ==
    e.kind = "symlink" /\ ~IsAbsolute(e.to) =>
        ConfinedTarget(StagePath, StagePath \o Normals(e.path), e.to)

BelowFile(files, path) == Above(path) \cap files # {}

\* What an entry must be next to the files before it.
Fits(e, format, files) ==
    e.kind \in Unpackable(format) /\ SafeRelative(e.path) /\ ~BelowFile(files, Normals(e.path))

Noted(e, files) == IF e.kind = "dir" THEN files ELSE files \cup {Normals(e.path)}

PreflightTar(entries) ==
    FoldLeft(LAMBDA s, e :
                 CASE ~s.ok \/ e.kind \in Metadata -> s
                   [] Fits(e, "tar", s.files) /\ Confined(e) -> [s EXCEPT !.files = Noted(e, @)]
                   [] OTHER -> [s EXCEPT !.ok = FALSE],
             [ok |-> TRUE, files |-> {}], entries)

PreflightZip(entries) ==
    FoldLeft(LAMBDA s, e : IF s.ok /\ Fits(e, "zip", s.files) THEN [s EXCEPT !.files = Noted(e, @)]
                           ELSE [s EXCEPT !.ok = FALSE],
             [ok |-> TRUE, files |-> {}], entries)

\* Directories are made as they are needed and do not get the entry's mode; a
\* symlink or a file does not replace a directory.
PlaceCask(disk, e) ==
    LET path == Normals(e.path)
    IN IF Reachable(disk, path) /\ (path \in DOMAIN disk => e.kind = "dir" /\ IsDirectory(disk, path))
       THEN Placed((path :> Node(disk, [e EXCEPT !.writable = TRUE])) @@ WithParents(disk, path))
       ELSE Refused(disk)

ExtractTar(entries) ==
    FoldLeft(LAMBDA s, e :
                 IF ~s.ok \/ e.kind \in Metadata THEN s
                 ELSE IF e.kind \in Unpackable("tar") /\ SafeRelative(e.path) /\ Confined(e)
                 THEN PlaceCask(s.disk, e)
                 ELSE Refused(s.disk),
             Placed(Nothing), entries)

ExtractZip(entries) ==
    FoldLeft(LAMBDA s, e : IF s.ok /\ SafeRelative(e.path) THEN PlaceCask(s.disk, e) ELSE Refused(s.disk),
             Placed(Nothing), entries)

PreflightCask(entries, format) ==
    IF format = "zip" THEN PreflightZip(entries) ELSE PreflightTar(entries)

UnpackCask(entries, format) ==
    IF ~PreflightCask(entries, format).ok THEN Refused(Nothing)
    ELSE IF format = "zip" THEN ExtractZip(entries) ELSE ExtractTar(entries)

-----------------------------------------------------------------------------
(* What an archiver makes of a tree, and the tree again.                   *)

Contents(entries) == SelectSeq(entries, LAMBDA e : e.kind \notin Metadata)

\* The archive of some tree: what has something below it is a directory, and a
\* hard link comes after its file.  Directories may come late or have no entry.
OfTree(entries) ==
    LET all == Contents(entries)
        path(i) == Normals(all[i].path)
    IN /\ \A i, j \in DOMAIN all : path(i) \in Above(path(j)) => all[i].kind = "dir"
       /\ \A i \in DOMAIN all :
              all[i].kind = "hardlink" =>
                  \E j \in 1 .. i - 1 : path(j) = all[i].to /\ all[j].kind # "dir"

\* A link with n leading "..", which is how archivers write them, leads from its
\* directory n up and then down.
Ups(to) == Cardinality({i \in DOMAIN to : \A j \in 1 .. i : to[j] = ".."})
LeadsBelow(root, dir, to) ==
    /\ Ups(to) <= Len(dir)
    /\ IsPrefix(root, SubSeq(dir, 1, Len(dir) - Ups(to)) \o SubSeq(to, Ups(to) + 1, Len(to)))

LinksStay(root, entries) ==
    \A e \in ToSet(Contents(entries)) :
        e.kind = "symlink" => IsAbsolute(e.to) \/ LeadsBelow(root, Parent(e.path), e.to)

\* The tree: every entry and the directories above it, the directories
\* writable and the names of a file one file.
Tree(entries) ==
    LET all == Contents(entries)
        entry == [p \in {Normals(e.path) : e \in ToSet(all)} |->
                     CHOOSE e \in ToSet(all) : Normals(e.path) = p]
        dirs == UNION {Above(p) : p \in DOMAIN entry} \ DOMAIN entry
        Of[p \in DOMAIN entry] ==
            CASE entry[p].kind = "dir" -> NewDir(TRUE)
              [] entry[p].kind = "symlink" -> [kind |-> "symlink", to |-> entry[p].to]
              [] entry[p].kind = "hardlink" -> Of[Normals(entry[p].to)]
              [] OTHER -> [kind |-> "file", of |-> p]
    IN [p \in DOMAIN entry \cup dirs |-> IF p \in dirs THEN NewDir(TRUE) ELSE Of[p]]

\* Every hard link to a symlink finds it leading, by what is placed before the hard
\* link, to something inside the destination.
LinksLead(entries) ==
    LET all == Contents(entries)
    IN \A i \in DOMAIN all :
           all[i].kind = "hardlink" =>
               Canonicalized(Tree(SubSeq(all, 1, i - 1)), Normals(all[i].to)) # Nowhere

\* The archive of a keg whose relative links stay in it is accepted, and nothing
\* the preflight accepts fails half-way: it unpacks to exactly that keg, whatever
\* order its entries have, read-only directories and directories without an
\* entry included, with two names of a file one file.  The exception is a hard
\* link to a symlink that is absolute or leads to nothing placed yet: the
\* preflight accepts it and the extraction stops there.  (archive.rs `unpack'.)
BottleUnpacks(entries) ==
    LET all == ToSet(Contents(entries))
    IN /\ OfTree(entries) /\ Preflight(entries).ok =>
              IF LinksLead(entries) THEN Unpack(entries) = Placed(Tree(entries))
              ELSE ~Unpack(entries).ok
       /\ /\ OfTree(entries) /\ LinksStay(KegPath, entries)
          /\ \A e \in all : e.kind \notin Unsafe /\ IsPrefix(KegPath, e.path)
          => Preflight(entries).ok

\* The same of a cask's archive: a tar with its links, a zip without, neither
\* with hard links, and with paths that do not begin with a ".".
\* (cask/archive.rs.)
CaskUnpacks(entries, format) ==
    LET all == ToSet(Contents(entries))
        done == UnpackCask(entries, format)
    IN /\ OfTree(entries) /\ PreflightCask(entries, format).ok => done = Placed(Tree(entries))
       /\ /\ OfTree(entries) /\ LinksStay(<<>>, entries)
          /\ \A e \in all : e.kind \in Unpackable(format) /\ e.path[1] # "."
          => PreflightCask(entries, format).ok
=============================================================================
