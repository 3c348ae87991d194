---------------------------- MODULE CleanupPlan ----------------------------
(***************************************************************************)
(* `cleanup' of zapbrew-ops/src/cleanup.rs: it decides what to remove from *)
(* one look at the Cellar, the cache and the prefix, and then removes it,  *)
(* one entry after the other, while an install may link into the prefix:   *)
(* of a formula whose lock cleanup does not hold, being new.  The Cellar   *)
(* is that of one formula; its removal is atomic here (RemovalTxn has its  *)
(* steps), and the lock files are in LockFiles.                            *)
(***************************************************************************)
EXTENDS Naturals, FiniteSets, Sequences, SequencesExt

CONSTANTS
    KegVersions,     \* package versions, in their order
    PrefixRoots,     \* PREFIX_LINK_ROOTS: paths, which are sequences of names
    PrefixDirs,      \* the directories that may be below them
    LinkPaths,       \* the links and files that may be there
    MaxAge,          \* cleanup_max_age_days
    CleanupStates,   \* what cleanup may find, and its options
    MaxCleanupFaults \* bound: removals that fail

ASSUME CleanupAssumption ==
    /\ KegVersions \subseteq Nat \ {0} /\ MaxAge \in Nat
    /\ MaxCleanupFaults \in Nat
    \* Paths are sequences; no root is below another, or below a directory of another.
    /\ \A p \in PrefixRoots \cup PrefixDirs \cup LinkPaths : p \in Seq(Range(p))
    /\ \A r \in PrefixRoots, d \in PrefixDirs \ PrefixRoots : ~IsStrictPrefix(d, r)
    \* The cache has finitely many entries, each of its own name.
    /\ \A s \in CleanupStates :
          /\ s.kegs \subseteq [version : KegVersions, scheme : Nat]
          /\ s.listing \in Seq([version : Nat, scheme : Nat])
          /\ IsFiniteSet(s.cache)
          /\ \A e, f \in s.cache : e.name = f.name /\ e.version = f.version => e = f
          /\ s.dirs \subseteq PrefixDirs /\ s.to_link \subseteq LinkPaths
          /\ s.links \in [LinkPaths -> {"none", "live", "broken", "file"}]

VARIABLES
    kegs,       \* the kegs of the formula: [version, scheme]
    linkedKeg, pinnedKeg,  \* the versions that are linked and pinned, or 0
    listing,    \* what the catalog says of it: <<>>, or <<[version, scheme]>>
    excluded,   \* it is in HOMEBREW_NO_CLEANUP_FORMULAE
    cache,      \* the entries of the cache: [name, version, age]
    prefixDirs, \* the directories that exist
    links,      \* links[p]: "none", "live", "broken" or "file"
    options,    \* [prune, scrub, scope], the scope being the formulae that are named
    plan,       \* the candidates that are not done yet
    before,     \* the kegs and the cache when cleanup looked
    cleanPc, failed, cleanFaults,
    toLink,     \* what an install is going to link
    linking,    \* the link whose directories it has made: <<>> or <<path>>
    disturbed   \* it has changed the prefix since cleanup looked

storeVars == <<kegs, linkedKeg, pinnedKeg, listing, excluded, cache, options>>
prefixVars == <<prefixDirs, links>>
cleanupVars == <<storeVars, prefixVars, plan, before, cleanPc, failed, cleanFaults, toLink, linking, disturbed>>

Below(d, p) == IsStrictPrefix(d, p)
Empty(d) == /\ \A e \in prefixDirs : ~Below(d, e)
            /\ \A p \in LinkPaths : Below(d, p) => links[p] = "none"

-----------------------------------------------------------------------------
(* What is a candidate                                                     *)

\* resolve_racks, retain_cleanable: whether the formula is looked at.
LookedAt == options.scope # "other" /\ ~excluded

OldKeg(k) ==
    \/ listing[1].scheme > k.scheme
    \/ listing[1].scheme = k.scheme /\ listing[1].version > k.version

LatestInstalled == listing # <<>> /\ \E k \in kegs : k.version = listing[1].version

\* collect_formula_candidates
FormulaCandidates ==
    IF LookedAt /\ LatestInstalled
    THEN {k \in kegs : OldKeg(k) /\ k.version \notin {linkedKeg, pinnedKeg}}
    ELSE {}

Cached(name, v) == \E e \in cache : e.name = name /\ e.version = v
Dangling(e) == e.name = "alias" /\ ~Cached("download", e.version)

\* cache_aliases: an alias that leads somewhere, and the download it leads to.
Referenced == {e \in cache : /\ e.name \in {"alias", "download"}
                             /\ Cached("alias", e.version) /\ Cached("download", e.version)}

\* older_than: by the time of the contents and of the inode.
OlderThan(e, days) == days = 0 \/ (e.age.m > days /\ e.age.c > days)
Aged(e) == IF options.prune = <<>> THEN e \notin Referenced /\ OlderThan(e, MaxAge)
           ELSE OlderThan(e, options.prune[1])

\* stale_bottle: the kegs count only of a formula that is looked at.
StaleBottle(e) ==
    /\ options.scrub
    /\ e.name \in {"alias", "download"}
    /\ listing # <<>>
    /\ options.scope = "all" \/ LookedAt
    /\ e.version # listing[1].version
    /\ ~(LookedAt /\ \E k \in kegs : k.version = e.version)

\* collect_cache_candidates
CacheCandidates ==
    {e \in cache : Dangling(e) \/ e.name = "incomplete" \/ Aged(e) \/ StaleBottle(e)}

\* broken_prefix_symlinks
BrokenLinks == {p \in LinkPaths : links[p] = "broken"}

\* collect_empty_directories: what will be empty without the broken links.
EmptyDirectories ==
    {d \in prefixDirs \ PrefixRoots : \A p \in LinkPaths : Below(d, p) => links[p] \in {"none", "broken"}}

Nothing == [kegs |-> {}, cache |-> {}, links |-> {}, dirs |-> {}]

\* A keg is linked or pinned by its version; entries are where their parent is.
CleanupInit ==
    /\ \E s \in CleanupStates :
          /\ kegs = s.kegs /\ linkedKeg = s.linked /\ pinnedKeg = s.pinned
          /\ listing = s.listing /\ excluded = s.excluded /\ cache = s.cache
          /\ prefixDirs = PrefixRoots \cup s.dirs /\ links = s.links /\ options = s.options
          /\ toLink = s.to_link
    /\ \A k, l \in kegs : k.version = l.version => k = l
    /\ {linkedKeg, pinnedKeg} \subseteq {0} \cup {k.version : k \in kegs}
    /\ \A d \in prefixDirs \ PrefixRoots : Front(d) \in prefixDirs
    /\ \A p \in LinkPaths : links[p] # "none" => Front(p) \in prefixDirs
    /\ plan = Nothing /\ before = [kegs |-> kegs, cache |-> cache]
    /\ cleanPc = "look" /\ failed = {} /\ cleanFaults = 0
    /\ linking = <<>> /\ disturbed = FALSE

-----------------------------------------------------------------------------
(* cleanup                                                                 *)

LookAround ==
    /\ cleanPc = "look"
    /\ plan' = IF options.scope = "prefix"
               THEN [Nothing EXCEPT !.links = BrokenLinks, !.dirs = EmptyDirectories]
               ELSE [kegs |-> FormulaCandidates, cache |-> CacheCandidates,
                     links |-> BrokenLinks, dirs |-> EmptyDirectories]
    /\ disturbed' = FALSE
    /\ cleanPc' = "kegs"
    /\ UNCHANGED <<storeVars, prefixVars, before, failed, cleanFaults, toLink, linking>>

\* Which of S cannot be removed: within the bound, any.
Failures(S) == {bad \in SUBSET S : cleanFaults + Cardinality(bad) <= MaxCleanupFaults}
Count(bad) == /\ cleanFaults' = cleanFaults + Cardinality(bad)
              /\ failed' = failed \cup bad

\* apply_formula_candidates: all kegs of a formula in one removal.
RemoveKegs ==
    /\ cleanPc = "kegs"
    /\ \/ kegs' = kegs \ plan.kegs /\ UNCHANGED <<failed, cleanFaults>>
       \/ /\ plan.kegs # {} /\ cleanFaults < MaxCleanupFaults
          /\ cleanFaults' = cleanFaults + 1 /\ failed' = failed \cup plan.kegs
          /\ UNCHANGED kegs
    /\ plan' = [plan EXCEPT !.kegs = {}]
    /\ cleanPc' = "cache"
    /\ UNCHANGED <<linkedKeg, pinnedKeg, listing, excluded, cache, options, prefixVars, before,
                   toLink, linking, disturbed>>

\* apply_file_candidates, in the cache
RemoveCached ==
    /\ cleanPc = "cache"
    /\ \E bad \in Failures(plan.cache) : cache' = cache \ (plan.cache \ bad) /\ Count(bad)
    /\ plan' = [plan EXCEPT !.cache = {}]
    /\ cleanPc' = "links"
    /\ UNCHANGED <<kegs, linkedKeg, pinnedKeg, listing, excluded, options, prefixVars, before,
                   toLink, linking, disturbed>>

\* remove_entry: what has the path by now; nothing is well, too.
RemoveLink ==
    /\ cleanPc = "links"
    /\ \E p \in plan.links :
          /\ \E bad \in Failures({p}) :
                /\ links' = IF bad = {} THEN [links EXCEPT ![p] = "none"] ELSE links
                /\ Count(bad)
          /\ plan' = [plan EXCEPT !.links = @ \ {p}]
    /\ UNCHANGED <<storeVars, prefixDirs, before, cleanPc, toLink, linking, disturbed>>

LinksRemoved ==
    /\ cleanPc = "links" /\ plan.links = {}
    /\ cleanPc' = "dirs"
    /\ UNCHANGED <<storeVars, prefixVars, plan, before, failed, cleanFaults, toLink, linking, disturbed>>

\* Mutant: the directories in the order of their paths.
NextDirectoryByPath == {d \in plan.dirs : \A e \in plan.dirs : Len(d) <= Len(e)}

\* The directories are removed from the bottom up.
NextDirectory == {d \in plan.dirs : \A e \in plan.dirs : Len(d) >= Len(e)}

\* apply_directory_candidates: remove_dir fails when something is inside.
RemoveDirectory ==
    /\ cleanPc = "dirs"
    /\ \E d \in NextDirectory :
          /\ IF d \notin prefixDirs THEN UNCHANGED <<prefixDirs, failed, cleanFaults>>
             ELSE IF ~Empty(d)
             THEN failed' = failed \cup {d} /\ UNCHANGED <<prefixDirs, cleanFaults>>
             ELSE \E bad \in Failures({d}) : prefixDirs' = prefixDirs \ ({d} \ bad) /\ Count(bad)
          /\ plan' = [plan EXCEPT !.dirs = @ \ {d}]
    /\ UNCHANGED <<storeVars, links, before, cleanPc, toLink, linking, disturbed>>

\* CleanupIncomplete names what is left.
Cleaned ==
    /\ cleanPc = "dirs" /\ plan.dirs = {}
    /\ cleanPc' = IF failed = {} THEN "clean" ELSE "incomplete"
    /\ UNCHANGED <<storeVars, prefixVars, plan, before, failed, cleanFaults, toLink, linking, disturbed>>

(* An install that links: the directories first, and then the link, which needs them. *)
MakeDirectories ==
    /\ linking = <<>>
    /\ \E p \in toLink :
          /\ links[p] \in {"none", "broken"}
          /\ linking' = <<p>>
          /\ toLink' = toLink \ {p}
          /\ prefixDirs' = prefixDirs \cup {d \in PrefixDirs : Below(d, p)}
    /\ disturbed' = TRUE
    /\ UNCHANGED <<storeVars, links, plan, before, cleanPc, failed, cleanFaults>>

MakeLink ==
    /\ linking # <<>>
    /\ links' = IF Front(linking[1]) \in prefixDirs
                THEN [links EXCEPT ![linking[1]] = "live"] ELSE links
    /\ linking' = <<>>
    /\ disturbed' = TRUE
    /\ UNCHANGED <<storeVars, prefixDirs, plan, before, cleanPc, failed, cleanFaults, toLink>>

CleanupNext ==
    \/ LookAround \/ RemoveKegs \/ RemoveCached \/ RemoveLink \/ LinksRemoved
    \/ RemoveDirectory \/ Cleaned \/ MakeDirectories \/ MakeLink
CleanupSpec == CleanupInit /\ [][CleanupNext]_cleanupVars

-----------------------------------------------------------------------------
(* Properties                                                              *)

CleanupEnded == cleanPc \in {"clean", "incomplete"}

\* A cleanup that nobody disturbs and in which no call fails leaves no broken link
\* and no empty directory: what became empty on the way is removed as well.
PrefixClean ==
    CleanupEnded /\ ~disturbed /\ cleanFaults = 0 =>
        /\ cleanPc = "clean"
        /\ BrokenLinks = {}
        /\ \A d \in prefixDirs \ PrefixRoots : ~Empty(d)

\* What cleanup must not take: of the kegs the linked, the pinned, the one that is
\* what the catalog has or newer, and all when that version is not installed; of the
\* cache, without --prune, the bottle of an installed or current version, and never
\* a download without its alias.
WorthKept ==
    CleanupEnded =>
        /\ before.kegs # kegs =>
              \E k \in before.kegs : /\ k.version = listing[1].version
                                     /\ k.scheme >= listing[1].scheme => k \in kegs
        /\ \A k \in before.kegs : k.version \in {linkedKeg, pinnedKeg} => k \in kegs
        /\ options.prune = <<>> => \A e \in before.cache :
              LET pair == {f \in before.cache : f.name \in {"alias", "download"} /\ f.version = e.version}
              IN  e \in pair /\ Cardinality(pair) = 2 =>
                    /\ cleanPc = "clean" => pair \subseteq cache \/ pair \cap cache = {}
                    /\ \/ listing # <<>> /\ listing[1].version = e.version
                       \/ ~excluded /\ \E k \in before.kegs : k.version = e.version
                       => pair \subseteq cache

\* Both promises of cleanup.
CleanupSound == PrefixClean /\ WorthKept

\* What the report .outline/sdd/task-6g-report.md says of scrubbed bottles: a bottle
\* is kept when its version is installed.
InstalledBottleKept ==
    CleanupEnded /\ options.prune = <<>> => \A e \in before.cache \ cache :
        e.name = "download" /\ (\E f \in before.cache : f.name = "alias" /\ f.version = e.version)
            => \A k \in before.kegs : k.version # e.version

\* What the report says of prefix symlinks: a live one is kept.
LiveLinksKept == [][\A p \in LinkPaths : links[p] = "live" => links'[p] = "live"]_cleanupVars
=============================================================================
