------------------------------ MODULE MCTools ------------------------------
(***************************************************************************)
(* One instance of each part that works beside the transactions: services, *)
(* taps, what cleanup decides, the expansion of dependencies, and the pure *)
(* functions (versions, relocation, the entries of the catalog, the        *)
(* configuration of a service); and the post-install steps of a formula.   *)
(* They share no state; a behaviour is one part's, and the variables of    *)
(* the others stand still.                                                 *)
(***************************************************************************)
EXTENDS Services, ServiceConfig, Relocation, Versions, Taps, CleanupPlan, Dependencies, CatalogModel,
        MCInstallSteps

VARIABLES part,          \* the part this behaviour is about
          input          \* of a pure function: its arguments

toolVars == <<part, input, serviceVars, tapVars, cleanupVars, depVars, vars>>

-----------------------------------------------------------------------------
(* Cleanup: the Cellar, the cache and the prefix do not meet, so each is   *)
(* varied with the others bare.                                            *)
Opt(p, s, c) == [prune |-> p, scrub |-> s, scope |-> c]
MCRoots == {<<"lib">>}
MCDirs == {<<"lib", "a">>, <<"lib", "a", "b">>, <<"lib", "c">>}
MCPaths == {<<"lib", "a", "x">>, <<"lib", "a", "b", "y">>}
Bare == [kegs |-> {}, linked |-> 0, pinned |-> 0, listing |-> <<>>, excluded |-> FALSE,
         cache |-> {}, dirs |-> {}, links |-> [p \in MCPaths |-> "none"],
         options |-> Opt(<<>>, FALSE, "all"), to_link |-> {}]
Listings(schemes) == {<<>>} \cup {<<[version |-> v, scheme |-> s]>> : v \in KegVersions, s \in schemes}
CellarStates ==
    {[Bare EXCEPT !.kegs = ks, !.linked = l, !.pinned = p, !.listing = c] :
        ks \in SUBSET [version : KegVersions, scheme : 0 .. 1], l \in {0} \cup KegVersions,
        p \in {0} \cup KegVersions, c \in Listings({0, 1})}
CacheNames == {"alias", "download"} \X KegVersions \cup {<<"incomplete", 1>>}
CacheEntries(names, m) ==
    {[name |-> n[1], version |-> n[2],
      age |-> IF n[1] = "alias" THEN [m |-> 9, c |-> 9] ELSE [m |-> m, c |-> 9]] : n \in names}
CacheOptions == {Opt(<<>>, TRUE, s) : s \in {"all", "other"}}
                \cup {Opt(<<5>>, FALSE, "all"), Opt(<<0>>, FALSE, "this"), Opt(<<>>, FALSE, "all")}
CacheStates ==
    {[Bare EXCEPT !.kegs = [version : vs, scheme : {0}], !.listing = c, !.excluded = x, !.options = o,
                  !.cache = CacheEntries(names, m)] :
        vs \in SUBSET KegVersions, c \in Listings({0}), x \in BOOLEAN, o \in CacheOptions,
        m \in {0, 9}, names \in SUBSET CacheNames}
PrefixStates ==
    {[Bare EXCEPT !.dirs = ds, !.links = ls, !.options = Opt(<<>>, FALSE, s), !.to_link = t] :
        ds \in SUBSET MCDirs, ls \in [MCPaths -> {"none", "live", "broken", "file"}],
        s \in {"all", "prefix"}, t \in SUBSET MCPaths}
MCStates == CellarStates \cup CacheStates \cup PrefixStates

-----------------------------------------------------------------------------
(* Taps: two taps of one user, and a name that is none.                    *)
Raw(u, r, pre) == [parts |-> 2, user |-> u, repository |-> r, prefixed |-> pre]
TapA == Raw("alice", "one", FALSE)
TapB == Raw("alice", "two", FALSE)
BadName == [TapA EXCEPT !.parts = 3]
Cmd(op, names, force) ==
    [op |-> op, names |-> names, force |-> force,
     remote |-> [host |-> "github", path |-> TapName(names[1]), scheme |-> "ssh", dotgit |-> TRUE]]
MCTapCommands ==
    {Cmd("tap", <<n>>, FALSE) : n \in {TapA, TapB, BadName}}
    \cup {Cmd("untap", ns, f) : ns \in {<<TapA>>, <<TapB>>, <<TapA, TapB>>, <<TapA, TapA>>}, f \in BOOLEAN}
    \cup {Cmd("update", <<TapA, TapB>>, FALSE)}
MCForbidden == {<<"owner", "mallory">>}

-----------------------------------------------------------------------------
(* Dependencies: three formulae, up to two edges of the first and one of   *)
(* the others, every cycle; then edges by release, tag and a missing end.  *)
Edge(to, tags) == [to |-> to, tags |-> tags, macos |-> FALSE, since |-> NoSince]
FromMacos(to, tags, since) == [to |-> to, tags |-> tags, macos |-> TRUE, since |-> since]
EdgesTo(T) == UNION {{Edge(t, {}), Edge(t, {"build"}), Edge(t, {"test"}),
                      FromMacos(t, {"build", "test"}, 2),
                      FromMacos(t, {"recommended", "test"}, NoSince)} : t \in T}
Lists(T) == {<<>>} \cup {<<e>> : e \in EdgesTo(T)} \cup {<<e, Edge(t, {})>> : e \in EdgesTo(T), t \in T}
Short(T) == {<<>>} \cup {<<Edge(t, tags)>> : t \in T, tags \in {{}, {"test"}}}
Catalogs == {[f \in {"a", "b", "c"} |-> CASE f = "a" -> x [] f = "b" -> y [] OTHER -> z] :
                x \in Lists({"b", "c"}), y \in Short({"a", "c"}), z \in Short({"b"})}
DepFilter(b, t, o, s) ==
    [build |-> b, test |-> t, optional |-> o, skipRecommended |-> s, rootOnlyTest |-> TRUE]
Query(c, t, r, f, p) == [catalog |-> c, target |-> t, roots |-> r, filter |-> f, pour |-> p]
ByRelease ==
    {FromMacos("b", tags, since) : tags \in {{}, {"build", "test"}}, since \in {NoSince, 2, 3, Strange}}
    \cup {Edge("c", {t}) : t \in {"optional", "recommended"}} \cup {Edge("d", {})}
ReleaseCatalogs == {[f \in {"a", "b", "c"} |-> CASE f = "a" -> <<e>> [] f = "b" -> <<g>> [] OTHER -> <<>>] :
                       e \in ByRelease, g \in ByRelease}
MCQueries ==
    {Query(c, OnLinux, r, DepFilter(FALSE, t, FALSE, FALSE), TRUE) :
        c \in Catalogs, r \in {<<"a">>, <<"a", "b">>}, t \in BOOLEAN}
    \cup {Query(c, t, r, DepFilter(b, b, o, s), FALSE) :
        c \in ReleaseCatalogs, t \in {OnLinux, 2}, r \in {<<"a">>, <<"c", "a", "c">>, <<"a", "d">>},
        b \in BOOLEAN, o \in BOOLEAN, s \in BOOLEAN}

-----------------------------------------------------------------------------
(* Versions: token lists of up to three, with zeros, letters and suffixes. *)
SampleTokens == {Zero, <<"Numeric", 1>>, <<"Numeric", 2>>, <<"String", UpperB>>,
                 <<"Beta", 0>>, <<"Beta", 1>>, <<"Post", 0>>}
Text(ts) == [kind |-> "text", tokens |-> ts]
Texts == {Text(ts) : ts \in SeqOf(SampleTokens, 2) \cup [1..3 -> {Zero, <<"Numeric", 1>>, <<"Beta", 1>>}]}
Few == {Text(ts) : ts \in SeqOf({Zero, <<"Numeric", 1>>, <<"Beta", 1>>}, 1)
            \cup {<<<<"Numeric", 1>>, <<"String", UpperB>>>>, <<<<"Numeric", 1>>, Zero, <<"Numeric", 1>>>>}}
       \cup {[kind |-> k, tokens |-> <<>>] : k \in {"null", "head"}}
Pkg(vs, revisions) == [version : vs, revision : revisions]

VersionsOrdered ==
    part = "version" =>
        /\ \A q \in Pkg(Few, {0, 1}) : Trichotomy(input, q)
        /\ \A q, r \in Pkg(Few, {0}) : Transitive(input, q, r) /\ Transitive(q, input, r)
        /\ \A w \in Few : HashAgrees(input.version, w)
        /\ \A n \in 0 .. 1 : ReleaseOrder(input.version, n)

-----------------------------------------------------------------------------
(* Service configurations.                                                 *)
CronTerms == {[from |-> f, to |-> t, step |-> s] :
    f \in {<<>>, <<0>>, <<5>>, <<7>>}, t \in {<<>>, <<2>>, <<7>>}, s \in {<<>>, <<0>>, <<3>>, <<60>>}}
AllAny == [k \in CronKinds |-> <<Wildcard>>]
CronsWith(a) ==
    {[AllAny EXCEPT ![k] = <<a>>] : k \in CronKinds}
    \cup {[AllAny EXCEPT !["Weekday"] = <<a, [Wildcard EXCEPT !.from = <<5>>, !.to = t]>>,
                         !["Hour"] = <<[Wildcard EXCEPT !.step = <<5>>]>>] : t \in {<<>>, <<7>>, <<8>>}}
KeepAlives == {<<"absent">>, <<"other">>} \cup {"bool", "always", "successful_exit", "crashed"} \X BOOLEAN
Object(t, n, c, k, r, f) ==
    [run_type |-> t, interval |-> n, cron |-> c, keep_alive |-> k, run |-> r, fields |-> f]
Objects ==
    {Object("cron", <<>>, <<c>>, <<"absent">>, "command", "plain") : c \in UNION {CronsWith(a) : a \in CronTerms}}
    \cup {Object(t, n, <<>>, k, r, f) :
            t \in {"immediate", "interval", "cron", "other"}, n \in {<<>>, <<5>>}, k \in KeepAlives,
            r \in {"absent", "command", "arguments", "unsupported"}, f \in {"plain", "unsupported"}}
MCInstants == [Minute : {0, 7, 59}, Hour : {0, 5}, Day : {1, 5}, Month : {5}, Weekday : 0 .. 6]

ManagersAgree == part = "service config" => CalendarsAgree(input) /\ RestartsAgree(input)

-----------------------------------------------------------------------------
(* Relocation: an image with one or two loaded segments, with and without  *)
(* a .bss and sections, one of them outside the file, and links of a keg.  *)
LongPrefix == <<"/", "home", "hb">>
MCEnvs == {[prefix |-> p, cellar |-> p \o <<"Cellar">>, platform |-> "linux",
            ldSo |-> l, gcc |-> g, glibc |-> FALSE] : p \in {<<"/">>, LongPrefix}, l \in BOOLEAN, g \in BOOLEAN}
Runpaths == {<<"$ORIGIN", "..", "lib">>, <<"@@PREFIX@@", "lib">>,
             <<"@@PREFIX@@", "lib", "gcc", "9", ":", "other">>,
             <<"@@CELLAR@@", "x", "lib", ":", "@@PREFIX@@", "lib">>, <<>>}
Interps == {<<"@@PREFIX@@", "lib", "ld.so">>, <<"/", "lib", "ld">>}
Loaded(o, v, f, m, a) == [type |-> "LOAD", offset |-> o, vaddr |-> v, filesz |-> f, memsz |-> m, align |-> a]
NotLoaded(t, o, n) == [type |-> t, offset |-> o, vaddr |-> o, filesz |-> n, memsz |-> n, align |-> 1]
Img(interp, pad, runpath, tag, lay, data) ==
    LET ic == interp \o Padding(pad)
        tab == <<Nul, "sym", Nul>> \o runpath \o <<Nul, "name", Nul>>
        body == <<"header", "header", "header", "header">> \o ic \o tab \o data
        n == Len(body)
        at == RoundUp(n, lay.align)
        first == Loaded(0, 0, n, IF lay.two THEN n ELSE n + lay.bss, lay.align)
        second == Loaded(at, at + 2 * lay.align, 2, 2 + lay.bss, lay.align)
        cells == IF lay.two THEN body \o Padding(at - n) \o <<"data", "more">> ELSE body
    IN [format |-> "elf", text |-> FALSE, phoff |-> 0,
        cells |-> cells \o [i \in 1 .. lay.tail |-> "sect"],
        headers |-> <<NotLoaded("INTERP", 4, Len(ic)), first>>
                    \o (IF lay.two THEN <<second>> ELSE <<>>) \o <<NotLoaded("DYNAMIC", 0, 0)>>,
        dynamic |-> <<<<"STRTAB", 4 + Len(ic)>>, <<"STRSZ", Len(tab)>>, <<tag, 3>>, <<"NULL", 0>>>>,
        sections |-> [i \in 1 .. lay.tail |->
            IF i = 1 THEN [addr |-> 4 + Len(ic), offset |-> 4 + Len(ic), size |-> Len(tab), inside |-> TRUE]
            ELSE [addr |-> 0, offset |-> 0, size |-> 0, inside |-> FALSE]]]
Lays == [two : BOOLEAN, bss : {0, 3}, tail : 0 .. 2, align : {1, 4}]
Imgs == {Img(i, p, r, t, l, d) : i \in Interps, p \in {1, 4}, r \in Runpaths, t \in {"RUNPATH", "RPATH"},
            l \in Lays, d \in {<<"x">>, <<"x", Nul, "@@PREFIX@@", "y", Nul>>}}
LinkDirs == {<<>>, <<"bin">>, <<"lib", "x">>}
LinkTargets == {<<"@@CELLAR@@", "foo", "1", "lib", "a">>, <<"@@PREFIX@@", "opt", "b">>,
                <<"/", "home", "hb", "Cellar", "foo", "1">>, <<"/", "usr">>, <<"..", "lib">>}
RackOf(env) == env.cellar \o <<"foo">>

ImagesLoad == part = "image" => ImageLoads(input.env, input.image)
MovedHeadersCovered == part = "image" => HeadersCovered(input.env, input.image)
LinksLead ==
    part = "link" => PromotedLeads(input.env, RackOf(input.env) \o <<".stage", "foo", "1">>,
                                   RackOf(input.env) \o <<"1">>, input.dir, input.target)

-----------------------------------------------------------------------------
(* Entries of the catalog: hosts and bottles by tag, claims on names, and  *)
(* uses_from_macos lists with bounds.                                      *)
MCSymbols == <<"catalina", "big_sur", "monterey">>
MCMajors == <<10, 11, 12>>
Spellings == {<<"all">>, <<"x86_64", "linux">>, <<"arm64", "linux">>, <<"catalina">>, <<"big_sur">>,
              <<"arm64", "big_sur">>, <<"arm64", "catalina">>, <<"arm64", "monterey">>,
              <<"x86_64", "big_sur">>, <<"mojave">>}
RawFile(w, c) == [words |-> w, checksum |-> c]
RawFiles(S, junk) == {RawFile(w, IF w = <<"all">> /\ junk THEN "junk" ELSE "ok") : w \in S}
OnOs(os, versions) == [os : {os}, arch : {"x86_64", "aarch64"}, version : versions]
Hosts == OnOs("linux", {[name |-> "big_sur"]}) \cup OnOs("windows", {[name |-> "big_sur"]})
         \cup OnOs("darwin", {[name |-> "big_sur"], [name |-> "mojave"]} \cup
                {[numbers |-> n] : n \in {<<10, 15>>, <<10, 14, 6>>, <<11, 2, 1>>, <<12, 1>>, <<13>>, <<10>>}})
Entry(n, as, os) == [name |-> n, aliases |-> as, oldnames |-> os]
NameEntries == {Entry(n, as, os) : n \in {"a", "b"}, as \in SUBSET {"b", "x"}, os \in SUBSET {"a", "x"}}
Payloads == {<<e>> : e \in NameEntries} \cup {<<e, f>> : e \in NameEntries, f \in NameEntries}
Lists3(S, n) == UNION {[1 .. k -> S] : k \in 0 .. n}
UsesElements == {[name |-> n, tags |-> {"build", "odd"}] : n \in {"", "p"}} \cup {[name |-> "q", tags |-> {}]}
OnLinuxOnly == [words |-> <<"x86_64", "linux">>,
                keys |-> [uses |-> <<[name |-> "q", tags |-> {}]>>, bounds |-> <<<<>>>>]]
RawEntries ==
    {[uses |-> u, bounds |-> b, groups |-> [run |-> {"p"}, build |-> {"p"}], variations |-> v] :
        u \in {u \in Lists3(UsesElements, 3) : \A i, j \in DOMAIN u : i # j => u[i].name # u[j].name},
        b \in Lists3({<<>>, <<"sonoma">>}, 2), v \in {{}, {OnLinuxOnly}}}

BottlesFit == part = "bottle" => PoursTheNearest(input.host, input.raw)
NamesLead == part = "names" => NamesResolve(input.payload, {"a", "b", "x", "z"})
BoundsKept == part = "uses" => BoundsAligned(input.entry, input.host)
CatalogRead == BottlesFit /\ NamesLead /\ BoundsKept

-----------------------------------------------------------------------------
(* Archives: up to three entries of one keg, or of a cask's tree, in every *)
(* order, with links that stay, leave and lead into another prefix.        *)
Arch == INSTANCE Archives WITH KegPath <- <<"foo", "1">>, StagePath <- <<"/", "stage">>

InKeg(tail) == <<"foo", "1">> \o tail
ArchivePaths == {InKeg(<<"a">>), InKeg(<<"a", "b">>), InKeg(<<"c">>)}
EntriesAt(p) ==
    {Arch!Entry(p, "dir", <<>>, w) : w \in BOOLEAN} \cup {Arch!Entry(p, "file", <<>>, TRUE)}
    \cup {Arch!Entry(p, "symlink", t, TRUE) :
            t \in {<<"..", "c">>, <<"b">>, <<"..", "..", "1", "c">>, <<"..", "..", "..", "bar">>, <<"/", "opt">>}}
    \cup {Arch!Entry(p, "hardlink", t, TRUE) : t \in {InKeg(<<"a", "b">>), InKeg(<<"c">>)}}
OtherEntries ==
    {Arch!Entry(InKeg(<<"a">>), "header", <<>>, TRUE), Arch!Entry(InKeg(<<"a">>), "device", <<>>, TRUE),
     Arch!Entry(<<"foo", "2", "a">>, "file", <<>>, TRUE), Arch!Entry(<<".", "c">>, "file", <<>>, TRUE),
     Arch!Entry(InKeg(<<"a", "">>), "dir", <<>>, FALSE)}
ArchiveEntries == UNION {EntriesAt(p) : p \in ArchivePaths} \cup OtherEntries
PathsOf(es) == [i \in DOMAIN Arch!Contents(es) |-> Arch!Normals(Arch!Contents(es)[i].path)]
MCArchives == {es \in Lists3(ArchiveEntries, 3) : IsInjective(PathsOf(es))}

ArchivesUnpack ==
    part = "archive" =>
        /\ Arch!BottleUnpacks(input.entries)
        /\ Arch!CaskUnpacks(input.entries, "tar")
        /\ Arch!CaskUnpacks(Arch!Contents(input.entries), "zip")

-----------------------------------------------------------------------------
Inputs(p) ==
    CASE p = "version" -> Pkg(Texts, {0})
      [] p = "service config" -> Objects
      [] p = "image" -> [env : MCEnvs, image : Imgs]
      [] p = "link" -> [env : MCEnvs, dir : LinkDirs, target : LinkTargets]
      [] p = "bottle" -> [host : Hosts, raw : {RawFiles(S, j) : S \in {S \in SUBSET Spellings : Cardinality(S) <= 3},
                                                               j \in BOOLEAN}]
      [] p = "archive" -> [entries : MCArchives]
      [] p = "names" -> [payload : Payloads]
      [] p = "uses" -> [entry : RawEntries, host : {LinuxTag("x86_64"), MacTag("arm64", 1)}]
PureParts == {"version", "service config", "image", "link", "bottle", "names", "uses",
              "archive"}

NoServices == /\ platform = 0 /\ files = 0 /\ active = 0 /\ enabled = 0 /\ job = 0 /\ timed = 0
              /\ present = 0 /\ svcFaults = 0 /\ done = 0
NoTaps == /\ taps = [t \in TapNames |-> "none"] /\ userDirs = 0 /\ tapLock = 0 /\ sources = 0 /\ task = 0
          /\ tapPc = [p \in TapProcs |-> "start"]
          /\ tapAt = 0 /\ tapLeft = 0 /\ tapFaults = 0
NoCleanup == /\ kegs = 0 /\ linkedKeg = 0 /\ pinnedKeg = 0 /\ listing = 0 /\ excluded = 0 /\ cache = 0
             /\ options = 0 /\ prefixDirs = 0 /\ links = [p \in LinkPaths |-> "none"] /\ plan = 0 /\ before = 0 /\ cleanPc = "look"
             /\ failed = 0 /\ cleanFaults = 0 /\ toLink = 0 /\ linking = 0 /\ disturbed = 0
NoDependencies == /\ query = 0 /\ waiting = 0 /\ path = 0 /\ complete = 0 /\ order = 0 /\ merged = 0
                  /\ expansion = 0

NoSteps == /\ program = 0 /\ start = 0 /\ fs = 0 /\ pc = 0 /\ todo = 0 /\ answered = 0
           /\ taken = <<>> /\ deferred = 0 /\ inverses = 0 /\ backups = 0 /\ phase = "none"
           /\ leftovers = {} /\ faults = 0

InitOf(parts) ==
    /\ part \in parts
    /\ part \notin PureParts => input = 0
    /\ IF part = "steps" THEN Init ELSE NoSteps
    /\ IF part = "services" THEN ServicesInit ELSE NoServices
    /\ IF part = "taps" THEN TapsInit ELSE NoTaps
    /\ IF part = "cleanup" THEN CleanupInit ELSE NoCleanup
    /\ IF part = "dependencies" THEN DepInit ELSE NoDependencies
    /\ part \in PureParts => input \in Inputs(part)

ToolsNext ==
    /\ UNCHANGED <<part, input>>
    /\ \/ part = "services" /\ ServicesNext /\ UNCHANGED <<tapVars, cleanupVars, depVars, vars>>
       \/ part = "taps" /\ TapsNext /\ UNCHANGED <<serviceVars, cleanupVars, depVars, vars>>
       \/ part = "cleanup" /\ CleanupNext /\ UNCHANGED <<serviceVars, tapVars, depVars, vars>>
       \/ part = "dependencies" /\ DepNext /\ UNCHANGED <<serviceVars, tapVars, cleanupVars, vars>>
       \/ part = "steps" /\ Next /\ UNCHANGED <<serviceVars, tapVars, cleanupVars, depVars>>

Parts == PureParts \cup {"services", "taps", "cleanup", "dependencies", "steps"}

ToolsInit == InitOf(Parts)
ToolsSpec == ToolsInit /\ [][ToolsNext]_toolVars

\* The links of a keg alone, under an ordinary prefix.
RelocationInit == InitOf({"link"}) /\ input.env.prefix = LongPrefix
RelocationSpec == RelocationInit /\ [][ToolsNext]_toolVars

-----------------------------------------------------------------------------
(* The properties of the parts, each of the behaviours of its part.        *)
CleanupInstalledBottleKept == part = "cleanup" => InstalledBottleKept
ExpansionSound == part = "dependencies" => DependenciesPrecede /\ PourKeepsNeeded /\ QueriesAgree
=============================================================================
