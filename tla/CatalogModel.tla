---------------------------- MODULE CatalogModel ----------------------------
(***************************************************************************)
(* From a verified payload to what the commands use: the entries of the    *)
(* catalog with the variations of this host, the index by name, and the    *)
(* bottle chosen for the host.                                             *)
(* (zapbrew-api/src/model.rs and catalog.rs, zapbrew-types/src/bottle.rs,  *)
(* zapbrew-net/src/select.rs)                                              *)
(*                                                                         *)
(* A tag is written as the words of its spelling: "arm64_sonoma" is        *)
(* <<"arm64", "sonoma">>, "sonoma" is <<"sonoma">>. Releases of macOS are  *)
(* numbered by their place in MacOsVersion::ALL.                           *)
(***************************************************************************)
EXTENDS Naturals, Sequences, FiniteSets, SequencesExt, FiniteSetsExt, Options

CONSTANTS Symbols,       \* MacOsVersion::ALL: the names of the releases, ascending
          Majors,        \* the major version of each: 10.15 is Catalina, the rest by major
          Arches         \* the architectures bottles are built for

Releases == DOMAIN Symbols
LinuxTag(arch) == [os |-> "linux", arch |-> arch, version |-> 0]
MacTag(arch, version) == [os |-> "macos", arch |-> arch, version |-> version]
AllTag == [os |-> "all", arch |-> "all", version |-> 0]
HostTags == {LinuxTag(a) : a \in Arches} \cup {MacTag(a, v) : a \in Arches, v \in Releases}
BottleTags == HostTags \cup {AllTag}

(***************************************************************************)
(* Tags                                                                    *)
(***************************************************************************)
\* BottleTag's Display: Intel macOS is the bare release.
ShowTag(tag) == CASE tag.os = "all"   -> <<"all">>
                  [] tag.os = "linux" -> <<tag.arch, "linux">>
                  [] OTHER -> IF tag.arch = "x86_64" THEN <<Symbols[tag.version]>>
                                                     ELSE <<tag.arch, Symbols[tag.version]>>

\* MacOsVersion::from_str.
SymbolOf(word) == {v \in Releases : Symbols[v] = word}

\* BottleTag::from_str: x86_64 has no tag but Linux's, a bare word is Intel
\* macOS, anything else is refused.
ParseTag(words) ==
    CASE words = <<"all">> -> Some(AllTag)
      [] Len(words) = 2 /\ words[1] \in Arches /\ words[2] = "linux" -> Some(LinuxTag(words[1]))
      [] Len(words) = 2 /\ words[1] = "arm64" /\ SymbolOf(words[2]) # {} ->
            Some(MacTag("arm64", CHOOSE v \in SymbolOf(words[2]) : TRUE))
      [] Len(words) = 1 /\ SymbolOf(words[1]) # {} ->
            Some(MacTag("x86_64", CHOOSE v \in SymbolOf(words[1]) : TRUE))
      [] OTHER -> None

\* MacOsVersion::from_product_version on the numbers between the dots.
FromProductVersion(numbers) ==
    IF Len(numbers) \notin 1..3 THEN None
    ELSE LET named == {v \in Releases : Majors[v] = numbers[1]}
         IN IF named = {} \/ (numbers[1] = 10 /\ (Len(numbers) = 1 \/ numbers[2] # 15)) THEN None
            ELSE Some(CHOOSE v \in named : TRUE)

\* The version of a macOS host: the name of a release, or else a product version.
MacOsVersion(given) ==
    IF "name" \in DOMAIN given
    THEN IF SymbolOf(given.name) = {} THEN None ELSE Some(CHOOSE v \in SymbolOf(given.name) : TRUE)
    ELSE FromProductVersion(given.numbers)

\* BottleTag::from_host: never the universal tag.
FromHost(host) ==
    LET arch == IF host.arch = "aarch64" THEN "arm64" ELSE host.arch
    IN CASE arch \notin Arches -> None
         [] host.os = "linux" -> Some(LinuxTag(arch))
         [] host.os \in {"macos", "darwin"} ->
              LET version == MacOsVersion(host.version)
              IN IF version = None THEN None ELSE Some(MacTag(arch, version[1]))
         [] OTHER -> None

(***************************************************************************)
(* Bottles                                                                 *)
(***************************************************************************)
\* formula_from_value, the files of the stable bottle: a file whose tag or
\* checksum does not parse is not there. A payload file is [words, checksum].
BottleFiles(raw) == {[tag |-> ParseTag(f.words)[1], file |-> f] :
                        f \in {f \in raw : ParseTag(f.words) # None /\ f.checksum # "junk"}}

WithTag(files, tag) == {f \in files : f.tag = tag}

\* Mutant: the oldest release that has a bottle.
SelectOlderAscending(files, host) ==
    LET older == {v \in Releases : v < host.version /\ WithTag(files, MacTag(host.arch, v)) # {}}
    IN IF older = {} THEN {} ELSE WithTag(files, MacTag(host.arch, Min(older)))

\* select_older_macos: newest first, below the host's release.
SelectOlder(files, host) ==
    LET older == {v \in Releases : v < host.version /\ WithTag(files, MacTag(host.arch, v)) # {}}
    IN IF older = {} THEN {} ELSE WithTag(files, MacTag(host.arch, Max(older)))

\* select_bottle: the host's own, on macOS an older one, the universal one.
SelectBottle(files, host) ==
    CASE WithTag(files, host) # {} -> WithTag(files, host)
      [] host.os = "macos" /\ SelectOlder(files, host) # {} -> SelectOlder(files, host)
      [] OTHER -> WithTag(files, AllTag)

(***************************************************************************)
(* Entries                                                                 *)
(***************************************************************************)
\* merge_variations: the keys of the host's variation replace the entry's.
MergeVariations(raw, host) ==
    IF \E v \in raw.variations : v.words = ShowTag(host)
    THEN LET over == (CHOOSE v \in raw.variations : v.words = ShowTag(host)).keys
         IN [k \in DOMAIN raw |-> IF k \in DOMAIN over THEN over[k] ELSE raw[k]]
    ELSE raw

\* parse_uses_from_macos: an element that is neither a name nor an object with
\* one has no dependency in it; a tag with no meaning is dropped.
ParseUses(element) ==
    IF element.name = "" THEN None
    ELSE Some([to |-> element.name, tags |-> element.tags \cap {"build", "test", "recommended", "optional"}])

SinceAt(bounds, i) == IF i \in DOMAIN bounds THEN bounds[i] ELSE None

\* formula_from_value, uses_from_macos: element and bound have one index.
UsesFromMacos(entry) ==
    {[dep |-> ParseUses(entry.uses[i])[1], since |-> SinceAt(entry.bounds, i)] :
        i \in {i \in DOMAIN entry.uses : ParseUses(entry.uses[i]) # None}}

\* formula_from_value, the groups of dependencies: one edge for each mention.
GroupEdges(entry) ==
    UNION {{[to |-> n, tags |-> IF g = "run" THEN {} ELSE {g}] : n \in entry.groups[g]} : g \in DOMAIN entry.groups}

(***************************************************************************)
(* The index                                                               *)
(***************************************************************************)
\* A payload is a sequence of [name, aliases, oldnames]; of two entries that
\* claim one name the later one has it.
Claims(payload, key, name) == {i \in DOMAIN payload : name \in payload[i][key]}
ByName(payload, name) == {i \in DOMAIN payload : payload[i].name = name}
LastOf(S) == IF S = {} THEN None ELSE Some(Max(S))

\* Catalog::index, its three maps read back.
NameEntry(payload, name) == LastOf(ByName(payload, name))
AliasOf(payload, name) == LET i == LastOf(Claims(payload, "aliases", name))
                          IN IF i = None THEN None ELSE Some(payload[i[1]].name)
OldnameOf(payload, name) == LET i == LastOf(Claims(payload, "oldnames", name))
                            IN IF i = None THEN None ELSE Some(payload[i[1]].name)

\* Catalog::get.
CatalogGet(payload, name) ==
    CASE NameEntry(payload, name) # None -> NameEntry(payload, name)
      [] AliasOf(payload, name) # None -> NameEntry(payload, AliasOf(payload, name)[1])
      [] OldnameOf(payload, name) # None -> NameEntry(payload, OldnameOf(payload, name)[1])
      [] OTHER -> None

\* Catalog::resolve.
CatalogResolve(payload, name) ==
    CASE NameEntry(payload, name) # None -> [as |-> "exact", name |-> name]
      [] AliasOf(payload, name) # None -> [as |-> "alias", name |-> AliasOf(payload, name)[1]]
      [] OldnameOf(payload, name) # None -> [as |-> "oldname", name |-> OldnameOf(payload, name)[1]]
      [] OTHER -> [as |-> "missing", name |-> name]

\* CaskCatalog::get: tokens, then renames.
CaskGet(payload, token) ==
    IF NameEntry(payload, token) # None THEN NameEntry(payload, token)
    ELSE IF OldnameOf(payload, token) # None THEN NameEntry(payload, OldnameOf(payload, token)[1])
    ELSE None

\* count_changed_formulae, names first of all: what `update` reports.
CountChanged(previous, current) ==
    Cardinality({i \in DOMAIN current :
        LET old == NameEntry(previous, current[i].name)
        IN old = None \/ previous[old[1]] # current[i]})

(***************************************************************************)
(* Properties                                                              *)
(***************************************************************************)
RunsOn(tag, host) == tag = AllTag \/ tag = host \/ (tag.os = "macos" /\ host.os = "macos"
                        /\ tag.arch = host.arch /\ tag.version <= host.version)
Better(a, b) == b = AllTag \/ (a # AllTag /\ a.version >= b.version)

\* A host that is recognised pours a bottle whenever one runs on it, one that
\* does run on it, and of those the one built nearest to it: never one of a
\* newer release, nor of the other architecture, whatever spellings the payload
\* has next to it.
PoursTheNearest(host, raw) ==
    FromHost(host) # None =>
        LET tag    == FromHost(host)[1]
            files  == BottleFiles(raw)
            chosen == SelectBottle(files, tag)
        IN /\ tag \in HostTags
           /\ (chosen = {}) = (\A f \in files : ~RunsOn(f.tag, tag))
           /\ \A c \in chosen : /\ RunsOn(c.tag, tag) /\ c.file.words = ShowTag(c.tag)
                                /\ \A f \in files : RunsOn(f.tag, tag) => Better(c.tag, f.tag)

\* A name leads to one formula: what resolve says it is called is what get
\* returns, asking again with that name changes nothing (the locks, the racks
\* and the edges of the dependency graph are all keyed by the answer), and no
\* alias or old name hides a formula from its own name.
NamesResolve(payload, names) ==
    /\ \A n \in names :
          LET entry == CatalogGet(payload, n)  answer == CatalogResolve(payload, n)
          IN /\ (entry = None) = (answer.as = "missing")
             /\ entry # None => /\ payload[entry[1]].name = answer.name
                                /\ CatalogGet(payload, answer.name) = entry
    /\ \A i \in DOMAIN payload : payload[CatalogGet(payload, payload[i].name)[1]].name = payload[i].name

\* A uses_from_macos dependency has the bound that its own element was
\* published with, also after a variation and next to elements the code does
\* not understand.
BoundsAligned(raw, host) ==
    LET entry == MergeVariations(raw, host)
    IN \A u \in UsesFromMacos(entry) :
          \E i \in DOMAIN entry.uses : /\ entry.uses[i].name = u.dep.to
                                       /\ u.since = SinceAt(entry.bounds, i)
=============================================================================
