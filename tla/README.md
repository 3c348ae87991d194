# A TLA+ model of Zapbrew

Zapbrew installs prebuilt Homebrew bottles. Its state is the file system: a
Cellar of kegs, a prefix of symlinks into them, receipts, a download cache, a
cache of the signed catalog, lock files. Nothing else persists, there is no
daemon, and several `zapbrew` processes may run at once. What can go wrong is
therefore a question of which file-system calls happen in which order, which of
them fail, where a process is killed, and who else is at work in the same
directories. That is what the modules here are about.

All paths are relative to `src/`.

## 1. Inventory

### 1.1 Components

| Component | State it keeps | Operations | What makes it hard | What makes it correct |
|---|---|---|---|---|
| **Install transaction** `crates/zapbrew-ops/src/transaction.rs` | the rack directory, staging directory, backup, final keg; prefix links, `opt/`, `linked/`; skeleton files; an in-memory `Journal` | `install`: `apply`, `rollback`, `remove_after_commit` | every call may fail, also those of the rollback; the journal is lost on a kill; other formulae link meanwhile | an installed keg is never lost; a plain error means nothing changed; a success means everything is there |
| **Removal transaction** same file | a trash directory, `SymlinkSnapshot`s of pin/opt/linked, racks | `remove_formulae` over several formulae and kegs: apply, rollback, cleanup | all or nothing over several racks; partial unlinks | as above, for all formulae at once |
| **Keg linker** `zapbrew-pour/src/link.rs`, commands `link.rs`, `unlink.rs` | symlinks under the prefix, `opt/`, `linked/`, aliases, `Backup/` | `link`, `unlink`, `--overwrite`, the plan (directory strategies, expansion of directory links), records, siblings | plan then act: the world changes between; no lock covers the prefix; directories that two kegs share | the records and the prefix agree; the user's files are kept; a refusal changes nothing |
| **Post-install steps** `zapbrew-ops/src/install_steps.rs`, `postinstall.rs` | files of the prefix named by a plan, backups in a scratch root, `StepJournal` of `Inverse`s | `execute`, `rollback`; mkdir, touch, move, copy, remove, inreplace, links, write, permissions, `run` steps | inverses of inverses; directories created on the way; steps that overwrite each other | after a rollback without leftovers the prefix is as before |
| **Lock files** `zapbrew-prefix/src/path.rs`, `transaction.rs`, `cask/mod.rs`, `cleanup.rs` | `var/homebrew/locks/*` | `LockGuard::acquire`, `acquire_shared`, drop; the `acquire_*_locks` functions; removal by `cleanup` | the lock is on an inode, the name can be removed | mutual exclusion by name; nobody waits; somebody proceeds |
| **Formula commands** `install.rs`, `upgrade.rs`, `reinstall.rs`, `uninstall.rs`, `autoremove.rs`, `link.rs`, `unlink.rs`, `pin.rs`, `unpin.rs`, `state.rs`, `dependency.rs` | none of their own: receipts (`installed_on_request`, runtime dependencies, tap), pins, links | one operation each | decide on a scan, act later; enumerate before locking | what was decided under the locks still holds when acting; dependencies stay |
| **Casks** `cask/*.rs` | the Caskroom, targets in an app directory and the prefix, records, receipts, a journal of `Reverse`s | install, reinstall (replace a whole token), uninstall, zap, upgrade | commit is one rename; removal is not transactional | as for formulae |
| **Download cache** `zapbrew-net/src/download.rs`, `cache.rs` | `downloads/<hash>--<name>`, its `.incomplete`, an alias | `fetch_bottle`, `fetch_artifact`, `download_all`, resume, publish | resume after a crash; two processes on one `.incomplete`; no lock | what is used is what was verified; a retry gets further |
| **Catalog cache** `zapbrew-api/src/transport.rs` | `api/*.jws.json` and its modification time | load, force refresh, conditional GET, fallback | two processes replace, touch and remove the same file | an unverified body never replaces a verified one; a refresh sees what is published |
| **Taps** `tap.rs`, `untap.rs`, `update.rs` | git clones under `Library/Taps` | clone with rollback, remove, pull | git is another process; `update` takes no lock | a partial tap is reported; success means done; an untap strands no keg |
| **Services** `services.rs` | unit files and plists, the service manager's jobs | run, start, stop, restart, kill, cleanup | three calls to another program, each may fail | a failed `run` leaves the persistent service as it was; a restart keeps the registration; both managers run the same schedule |
| **Cleanup** `cleanup.rs` | nothing | old kegs, cache files, broken links, empty directories, lock files | takes few or no locks | removes only what nobody needs |
| **Catalog** `zapbrew-api/src/catalog.rs`, `model.rs` | parsed JSON, immutable | lookup by name, alias, old name; variations of a host; `uses_from_macos` bounds | precedence; parallel lists | one name, one formula; each element its own bound |
| **Domain types** `zapbrew-types`, `zapbrew-net/src/select.rs` | none | version order, bottle tags and their selection, checksums, names | a total order on odd strings; a list with junk | order is total and transitive; the nearest bottle that runs |
| **Dependencies** `dependency.rs`, `deps.rs`, `uses.rs` | none | expansion in post-order with an explicit path, filters, the tree, the inverse question | cycles, edges that depend on host and role | each after what it needs; three questions, one answer |
| **Archive and relocation** `zapbrew-pour/src/archive.rs`, `relocate.rs` | the private staging directory | unpack, rewrite prefixes in text, ELF and Mach-O | two passes that must agree; images with no room | what preflight accepts unpacks to the tree; the rewritten image loads |
| **JWS** `zapbrew-api/src/jws.rs` | none | verify | cryptography | – |
| **Environment** `zapbrew-prefix` (`env.rs`, `tab.rs`, `ld.rs`, `command.rs`) | environment variables, receipts | detection, load, save | – | – |
| **Command line** `zapbrew-cli` | none | parse, dispatch, print, completions | SIGINT ends the process at an await (`dispatch.rs:554-557`) | – |
| **Read-only commands** `info`, `list`, `search`, `desc`, `doctor`, `config`, `leaves`, `outdated`, `tap-info` | none | print | – | – |

### 1.2 How they interact

- `install`, `upgrade` and `reinstall` lock taps (shared) and racks (exclusive),
  scan the Cellar, decide, download, and then run one **install transaction** per
  formula. `uninstall`, `autoremove` and `cleanup` lock racks, scan, decide, and
  run one **removal transaction**.
- Both transactions call the **linker**, whose destinations in the prefix are
  shared by all formulae and covered by no lock.
- Locks are non-blocking: a busy lock is an error of the command
  (`PrefixError::LockBusy`), never a wait.
- A transaction's journal lives in memory. Nothing looks for what a killed
  process left; the next command meets it as it is.
- The catalog and the download cache are written by every command, with no lock
  at all, protected only by write-aside-and-rename.

### 1.3 What is hard to test here

`PROJECT.json` lists each hazard at its line with the properties about it. In
short: a failing call in the middle of an apply and again in the rollback; a kill
between any two calls and the next run over its remains; other formulae's links
appearing in between; lock files removed under a process that has them open;
decisions made on scans that are out of date; legal sequences of commands that
together delete what the user wanted; two processes on one `.incomplete` or one
catalog file.

## 2. Modules

| Module | Models | State | One action is |
|---|---|---|---|
| `InstallTxn` | `FormulaTransaction` of `transaction.rs` with `link`/`unlink` of `link.rs` | the disk as the transaction sees it, its `Journal`, a program counter named after the statements | one file-system call, succeeding or failing |
| `RackUpdate` | what an install promises (abstract) | kegs of a rack, result | the whole transaction |
| `InstallTxnProofs` | – | – | the theorems about `InstallTxn` |
| `Linker` | `link.rs` of the pour crate in full, the commands `link` and `unlink` | nodes of the prefix, `Backup`, the records | one command, all its calls in order, one of which may fail |
| `Services` | the verbs of `services.rs` | unit files, plists, what systemd or launchd has loaded and enabled | one command: its calls in order, each with its outcomes |
| `ServiceConfig` | the service object as unit, timer and plist | – | – (functions) |
| `Taps` | `tap`, `untap`, `update` | the taps' and users' directories, the taps' locks, each process | one call, or one git command's beginning or end |
| `CleanupPlan` | what `cleanup` chooses and removes | kegs, cache entries, links and directories, the plan | one removal, or one step of a concurrent install |
| `Dependencies` | `dependency.rs`, `deps.rs`, `uses.rs` | the path of frames, the order | one turn of the loop |
| `Versions` | the comparison and hash of `version.rs` | – | – (functions) |
| `ToolsProofs` | – | – | the theorems about `Versions`, `Dependencies` and `InstallSteps` |
| `CatalogModel` | tags, bottle selection, variations, bounds, the index by name | – | – (functions) |
| `Relocation` | `relocate.rs` | – | – (functions) |
| `Archives` | `archive.rs` of both crates | – | – (functions) |
| `Options` | `Option<T>` | – | – |
| `InstallSteps` | the executors of `install_steps.rs` and `StepJournal` | a tree of files, directories and links, the inverses, the guard cache | one file-system call, or one helper becoming its calls |
| `RemovalTxn` | `RemovalTransaction` and `cleanup_replaced_kegs` of `transaction.rs` | racks, trash, links, records, journal | one file-system call |
| `BulkRemoval` | what a removal promises (abstract) | kegs of all formulae, result | the whole transaction |
| `RemovalTxnProofs` | – | – | the theorems about `RemovalTxn` |
| `Loops` | the loops that make a list of calls or filter a list | – | – (operators) |
| `LoopsProofs` | – | – | lemmas about flattened and filtered sequences |
| `LockFiles` | `LockGuard`, the `acquire_*_locks` functions, the lock order of each command, `cleanup`'s removal of lock files | directory entries, inodes, locks, what each process has open | one `open`, `flock`, `unlink` or close |
| `PrefixProofs` | – | – | the theorems about `LockFiles` and `Linker` |
| `ReadersWriters` | a reader-writer lock per name (abstract) | holders | acquire, release |
| `Fleet` | what each formula command scans, locks, decides and does | racks (kegs, linked version, pin), receipts' requests, taps, each process's scan and plan | lock, scan, decide, or one formula's transaction |
| `CommandsProofs` | – | – | the theorems about `Fleet`, `Taps`, `Services` and `CleanupPlan` |
| `Downloads` | one entry of the download cache: `download.rs`, `publish` of `cache.rs` | names, inodes and their chunks, the alias, each fetch | one request, chunk, check or call |
| `CatalogCache` | the cached signed catalog: `transport.rs` | the cached copy and its mtime, the servers, each load | one request, read or call |
| `NetworkProofs` | – | – | the theorems about `CatalogCache` and `Downloads` |
| `CaskTxn` | install, replacement and removal of casks: `cask/transaction.rs`, `artifact.rs`, `uninstall.rs` | deployed files and their directories, version directories with their records, receipts, each command with its journal | one file operation, or one command of a directive |
| `CaskTxnProofs` | – | – | the theorems about `CaskTxn` |
| `MCInstallTxn`, `MCRemovalTxn`, `MCLinker`, `MCLockFiles`, `MCFleet`, `MCDownloads`, `MCCaskTxn` | instances for TLC | | |
| `MCNetwork` | `CatalogCache` and `Downloads` beside each other | `part`: which of the two a behaviour is about | a step of that one |
| `MCTools`, `MCInstallSteps` | the parts beside the transactions: `Services`, `ServiceConfig`, `Taps`, `CleanupPlan`, `Dependencies`, `Versions`, `CatalogModel`, `Relocation`, `Archives`, `InstallSteps` | `part`, and `input` for those that are functions | a step of that part; a function's inputs are initial states |

How they compose: `Fleet` takes a pour and a bulk removal as one step because
`InstallTxn` implements `RackUpdate` and `RemovalTxn` implements `BulkRemoval`,
and takes a set of locks as held by name because `LockFiles` implements
`ReadersWriters` as long as no `cleanup` runs. What `Fleet` pours in order is what
`Dependencies` expands; the destinations of `InstallTxn` and `RemovalTxn` are what
`Linker` makes of a keg's tree; `CleanupPlan` takes the removal of kegs as one step,
which is what `RemovalTxn` shows of it. `InstallTxn` takes the post-install
steps as one reversible effect, which is what `InstallSteps` shows of them.
The definitions marked as mutants are deliberately wrong variants of their
neighbours, each of which breaks one property; no specification uses them.

### 2.1 InstallTxn

`keg[v]` says what the directory of version `v` holds: nothing, the keg that was
there ("old"), the one being poured ("new") or the remains of an interrupted
`remove_dir_all` ("torn"). `stage`, `backup`, `rackDir`, `conf`, `steps` are the
other directories and files the code touches; `link[f]`, `opt`, `linked` the
prefix. `journal` has the fields of `Journal`. `pc` has one label per statement of
`apply`, of `remove_after_commit` and of `rollback`; each action is guarded by its
label, has a disjunct for success, one for each early return of the code and one
for a failing call (`Fault`), with what a call that fails half-way may leave. An
action that sets a journal field before its call (backup, promoted, link) or
after it (`old_unlinked`) does so in the order of the code: that order is what
most of the properties depend on. The loops of `link` and `unlink` are one action
per destination, so a fault, a kill or a neighbour's link can fall between two.

`Crash` is a kill at any label; `Begin` starts the next transaction on whatever
is there. `OtherFormula` is another formula's process, which holds other locks,
taking or freeing a destination at any moment.

### 2.2 RemovalTxn

The same for the removal of several formulae: snapshot of the records, then for
each formula its pin, its links, its `opt`, its keg renamed into the trash; then
the racks; the commit; then the trash and the records are cleaned up. `cleanup`
and `upgrade` use it for single kegs, `uninstall` for whole racks. The nested
loops are a sequence of calls still to make, `tasks`.

### 2.3 LockFiles

A lock is taken by `open(O_CREAT)` and then `flock(LOCK_NB)`: two calls, with the
name resolved only at the first. The model has names, inodes and locks on inodes,
and each command's sequence of names from the code. Nobody but `cleanup` removes
a name. `ImplementsRW` says that each name acts as a reader-writer lock: every
name while no `cleanup` is at work, the taps' names always, because what `cleanup`
sweeps is never a tap's.

### 2.4 Fleet

Two processes run one command each on a Cellar of three formulae, with every
combination of starting racks. A command takes its locks, scans, decides from the
scan as its code does (`select_unmet`, `check_conflicts`, reverse dependencies,
autoremove's fixpoint, untap's dependents) and then acts formula by formula. Taking
the locks is one step, all or none. `uninstall`, `autoremove` and an
argument-less `upgrade` enumerate what to lock before they lock, as the code does. No formula is keg-only,
none has versioned siblings, pins exist only in the racks a behaviour starts with,
`untap`'s scan is one step, and `cleanup` is not among the commands.

### 2.5 InstallSteps

The prefix is a tree: a function from paths to files, links and directories, with
a mode that may forbid changes of a directory's entries. The journal root is a
directory of that tree; a backup is a rename into it. A step is expanded lazily:
`todo` starts with the step and a helper (`create_parents`, `create_link`,
`replace_before_mutation`, `link_tree`, `copy_entry`, ...) replaces itself by what
it does only when its turn comes, so that it reads the tree when the code does. A
call of the operating system succeeds if the tree allows it, and may also fail by
itself. Rollback pops inverses; one that fails may have been half applied.
`StepsUndone` is what the journal is for: `UndoRestores` between any two calls,
`SilenceMeansRestored` at the end, and `SameGuardsSameFate` of the guards' cache.

Not in it: parsing and validation of the JSON, preflight, templates, confinement
of paths (all of them refuse before anything is touched, except confinement behind
symbolic links), the effects of commands. Symbolic links are followed where `inreplace` reads; a link among
the directories of a path, or as the path a step begins with, counts as no directory.

### 2.6 Downloads

Names and inodes are apart, because a client goes on writing to the file it
opened. A body is a sequence of chunks tagged with the version they come from, so
a mixture of two versions is a value of the model; the checksum is equality with
the whole of the version asked for. Servers may change version between requests,
deliver short, deliver wrong, ignore `Range` or refuse it. The fetch resumes,
retries, changes to the next origin, verifies, publishes by rename and re-points
the alias in the order of the code. Leftovers of earlier fetches, of one version
or mixed, are among the initial states. `cleanup` lists names first and removes
them later. Each fetch notes what it found (`start`), whether anything went wrong on
its way (`healthy`) and the bytes its client uses at the end (`used`), which is what the properties
compare.

### 2.7 CatalogCache

The cached file has a body (absent, a version, corrupt) and a modification time.
A load goes through `cache_usable`, `read_verified_cache`, `download_envelope`
(conditional on the local mtime, then the default host), the 304 path with its
touch and re-read, the retry after a bad body, `write_atomic` and
`fallback_to_cache`. The signature is the predicate `Good`. `server` has a mirror
that may lag behind the default host.

### 2.8 CaskTxn

Each token has its lock, so at most one command works on it, and commands on
different tokens interleave freely; `tx[k]` is the command that holds `k`'s lock or
held it last. A path holds nothing, a file of the user, or what a version of a cask
deployed, whole or half; paths are in directories that may not exist. An install
stages and extracts in a directory of its own, moves the targets, version
directories and receipts of *all* installed versions into a backup directory,
journaling each move after it is made, deploys what the plan says, journaling each
deployment before it is made, writes the receipt, and commits by renaming the
staged tree (which carries the record). Rollback removes the receipt, replays the
journal from its end and collects what it could not undo. Operations on a private
directory that nobody else reads are one step with the next. Uninstall has no
journal and stops at the first failure. After the targets it runs, version by version, the
removal directives of the record, those of `zap` too if asked to: `delete`, `trash` and `launchctl` remove
what they name, `rmdir` an empty directory, and each is an action of its own, which may
fail half-way. What a directive may name is anything below the home, the prefix or the
application directory, whoever put it there (`confined_target_physical`), so `Directives` names any
path or directory of the model, another cask's or the user's file included. A plan is a sequence of kinds and targets;
which kinds are refused, on which platform, and which cannot be replaced
(`Plannable`, `Reversible`) decide as in the code whether a command starts.

Assumed: no two casks name one path (`CaskAssumption`), the app directory is the
same in every command, and one command names one token (with several, `install`
runs one such transaction after another under all their locks). Left out: archive
formats, mounting of images, the confinement of paths (it refuses the Caskroom, the roots themselves and
what is behind a symbolic link, before anything is touched), how a directive is written, and what `quit` and
`signal` do, which is to print. What the `pkgutil` and `launchctl` commands do themselves is external: they succeed or
fail. Kegs and other parts of the prefix that a directive may name as well are not in this module.

`Accepted` decides for each cask whether `install` begins anything, and `Reinstall` is
`reinstall` and `upgrade`: the same transaction, for versions that are there.

### 2.9 Linker

The prefix is a function from paths to nodes: nothing, a real directory, a file of the
user, a symlink to a path of a keg or to something outside. A keg is a tree. `Strategy`
is the table of `link.rs` that says of each path whether it is linked, made a real
directory or skipped; `Classified` is the planner's walk, which reads the prefix as it
is, and the planned operations are applied one after the other to a `Disk`, so that a
failing call leaves exactly the operations before it. A link to a directory of another
keg is expanded (its children linked one by one) where the code plans that. A keg may ship
symlinks that lead nowhere (`"broken"`), which are linked like files. A command is one step, because it holds the locks of the formulae it
touches: the interleaving of single links is in `InstallTxn` and `RemovalTxn`.

A call of `link` or `unlink` is modelled by the set of its answers: the disk it leaves, how it
ended, and, when an expansion fails half-way, the keg of another formula that loses its links (`hurt`).
`torn` collects the kegs that were being linked or unlinked when a call failed, and these; a later
`link` or `unlink` of such a keg that succeeds takes it out again. `RecordsTrue` claims nothing of a
torn keg and everything of the others, also of those whose directories a torn one shares; that the two
records of a linked keg name the same one is part of it.

`RefusalChangesNothing` says what a `link` that refuses may leave different: the records, the aliases and
`Backup` nothing, and in the prefix only places where a linked keg ships something. There directories go and
come back with the siblings that were unlinked to make room (a directory linked whole may be expanded, an
expanded one linked again), but no file of the user and nothing any keg had in reach is lost.
It is claimed while no keg is torn: a sibling that was linked in part comes back in full.

### 2.10 Services and ServiceConfig

A verb is a sequence of calls; each call ends well, fails without its effect or fails
with it, and `After` is the `?` between two calls. A timed unit is two files, written one after the other; a
file that could not be written may be there in part, and ends the command as `unwritten`. So each command's ends are computed
as a set, and a command is one step to one of them: nothing else of `zapbrew` works on
services at the same time in the model (the code takes no lock there). In between,
services exit by themselves, the user logs in, formulae come, go and get other
schedules. `ServiceConfig` reads the catalog's object and writes both forms:
`CalendarsAgree` evaluates them at instants.

### 2.11 Taps

Locks, clone, rollback, the check of dependents, removal of the tap and of a directory
that became empty, and `update`'s pull, for two processes, each of which may be killed.
A git command has a beginning and an end, so that others act in between; a clone that
fails may leave a part.

### 2.12 CleanupPlan

One look at a formula's kegs, at the cache and at the prefix yields `plan`; then its
candidates are removed one by one, in the order of the code, any removal may fail, and
an install of a formula whose lock `cleanup` does not hold may make directories and
links in between.

### 2.13 Dependencies

The loop of `expand` with its explicit path: enter a root, skip an edge, follow it,
leave a formula, stop at a cycle. `Follows` is the filter with the conditions on host,
role and tags. The tree of `deps --tree` and `uses` are functions on the same catalog.

### 2.14 Versions, CatalogModel, Relocation, Archives

Pure functions, checked against what they must achieve rather than against themselves:
an order against the laws of orders; a selected bottle against all that would run; a
rewritten ELF image against what a loader sees in memory (every segment mappable, the
interpreter and runpath as wanted, every other byte of memory unchanged); an unpacked
archive against the tree its entries describe. A version is its tokens, a file a
sequence of cells, an archive a sequence of entries; the texts and bytes from which
the code obtains them are left out.

## 3. Runs

| Run | Question | Result |
|---|---|---|
| `install` | an install under two failing calls or kills, then a second one over whatever it or its killer left; or one among neighbours that link and unlink; from every starting prefix: is it atomic on the rack, does every keg survive, is it complete when committed, are disk and view back after a plain error, does it end? | yes |
| `removal` | removing any kegs of two formulae among neighbours, with a fault or a kill: no keg lost before the commit, clean failure with links back, complete success, atomic over all formulae, an end | yes |
| `linker` | any sequence of `link`, `unlink`, `link --overwrite` of three formulae in shared directories, one call failing: do the records and the prefix agree, are the user's files kept, does a refusal change nothing? | yes, but for the cases the properties name |
| `locks` | two processes of eight kinds of command, kills, `cleanup`: do lock files act as reader-writer locks where nobody deletes them, does somebody proceed, does every command end? | yes |
| `locks_cleanup` | with `cleanup` deleting lock files, do formula locks stay exclusive? | no: finding |
| `fleet` | any two of seventeen commands from any starting Cellar: scans stay current under the locks; removals keep what is needed and what was asked for; dependencies first; untap strands nothing | yes |
| `fleet_conflicts` | one request for two conflicting formulae: is the conflict refused? | no: finding |
| `network` | one fetch over every cache entry an earlier one can have left, one failing call or a kill, servers that change, one cleanup: is what is used and published what was verified, does a healthy fetch succeed? Two loads of the catalog with servers that publish, lag, lie or are away, a pruning cleanup: is a verified copy kept, does it serve offline, is a forced load current? | yes, but for the one case named in `HealthySucceeds` |
| `downloads_shared` | two processes fetch the same artifact: is what is used verified? | no: finding |
| `casks` | two commands on two casks that share a directory, two failing operations or kills: is nothing lost before the commit, does a failed install name all it did not put back, is a success complete, is everything else left alone? | yes, but for the two cases named in `OthersKept` |
| `tools` | each of the parts beside the transactions from every state of its instance: failed `run`s and restarts of services, taps under concurrent commands and kills, what cleanup takes, the expansion's order and the three queries, post-install steps undone, the order of versions, schedules of both managers, relocated images, catalog entries, archives | yes, within what the properties name |
| `relocation_links` | do the links of a poured keg lead to what the bottle named? | no: finding |

The findings, with the quoted lines, are in `PROJECT.json`.

### 3.1 Bounds, and why they are enough

- Failing calls: one in `removal`, `linker`, `network`, and the parts of `tools` but taps and
  services, which have two; two in `install` (alone) and `casks`. A fault starts a
  rollback and a second one can hit it; in the steps the rollback is started by a
  command or by a step that cannot be done, and of a service's calls the second
  failure is in `rollback_transient`. A third adds nothing to a property of one
  transaction: rollback goes on after a failing step and each step's outcome depends
  only on the disk and the journal. The theorems of section 4 hold for any number.
- Installs: two versions (the one poured and the one linked, which may be the same
  one) and two destinations, one both ship and one only the new version does. Owners of a
  destination are: this formula's versions, somebody else, a dangling link, nobody.
  `Bounded` in `MCInstallTxn` names the combinations: two faults without neighbours,
  of which the second may fall into a second run; one fault, one run and an existing
  skeleton with them. What a run leaves is again a disk of the same shape.
- Removal: two formulae, one with two kegs, is the smallest case with a failure
  in the second formula and a keg that stays.
- Linker: two versions of `app` (one that shares a directory with `lib`, one that
  ships a framework), a keg-only sibling with the same framework, at most two kegs at
  once; prefixes with a directory of the user and with a foreign link. That is a directory
  linked whole, one expanded, one refused, a conflict, and a sibling that makes room.
  The run has no aliases: no property of it tells them apart.
- Steps: lists of two of twenty-one steps, a third that moves, removes or links, and a
  command; and pairs of guarded steps; over three trees (`MCInstallSteps`). Names `a` and `b`, paths of two names that moves and copies make longer. Two steps that touch one
  path, and a third that touches what both left, is where the order of inverses matters.
- Locks: two formulae, one cask, one tap, six inodes, recycled when nobody refers
  to them; two processes where liveness is checked, three in `locks_cleanup`.
- Fleet: `lib`, `app` (needs `lib` from its second version on) and `alt`
  (conflicts with `app`), two versions: a dependency, a conflict, an old and a
  current keg, a request and a dependency-only receipt, a pin.
- Downloads: two versions of two chunks: the smallest file with a proper prefix,
  and the smallest mixture. `MAX_ATTEMPTS` is 2 instead of 5: first and last attempt.
- Taps: two taps of one user, so that their common directory becomes empty or not, and
  a name that is refused; two processes, two faults or kills.
- Services: one service, both platforms, every schedule that a timer has or has not.
- Cleanup: two versions of one formula and of its download, ages on either side of the
  limit, two paths below three directories. Cellar, cache and prefix do not meet in the
  code, so each is varied with the others bare.
- Dependencies: three formulae with every cycle; the first has up to two edges, one to build with, to
  test with or plain, or from macOS and two of these (`{build, test}`, `{recommended, test}`), and a plain one beside
  it, to the same formula or another; the others have one, plain or to test with. Then edges by release of macOS,
  optional and recommended ones, and one that leads nowhere.
- Functions: versions of up to three tokens over seven, compared with twenty others;
  images with one or two segments, with and without .bss, padding, sections (one of them outside the file), under a
  short and a long prefix; bottle lists of up to three spellings out of ten on every
  host, its release given by name or by number; payloads of two entries with aliases and old names that collide; archives of up
  to three entries in every order.
- Casks: one cask with a version to be replaced by another (a target that stays,
  one that goes, one that is new, in two directories) and a version that installs a
  pkg; a neighbour with one target in one of these directories, and two versions
  that are refused. Every subset of the versions may be installed at first, every
  free path may hold a file of the user. The pkg's directives remove one of the other's targets, the neighbour's
  and an empty directory, and a `zap` the shared directory with all that is in it. Two commands: one that fails or is killed
  and one over what it left, or one on each cask at the same time.
- Catalog: two versions, two hosts, a clock of two ticks with a time-to-live of
  one, two loads by two processes that are interchangeable (symmetry), and one kind of trouble beside network errors in one behaviour.

The type invariants of `InstallTxn` and `CatalogCache` are proved (section 4); the
others are stated as documentation of the variables.

### 3.2 Fairness

`InstallTxn` and `RemovalTxn` assume weak fairness of the transaction's own
steps: it is one thread that calls the file system and never waits. `LockFiles`
assumes it of each process's next call: `flock` is non-blocking, so no call waits
for another process. No fairness is assumed of starting a command, of faults,
kills or neighbours. A kill ends a command, which the liveness properties count
as an end. `MCInstallTxn` restricts `Next` by `Bounded`; fairness is stated of the
unrestricted `Apply \/ RollBack`, which `Bounded` never disables altogether. The other
modules state safety only.

Deadlock is not checked where the modelled program ends (a transaction, a fetch, a
load, a function's input); `Fleet` and `LockFiles` say there what happens after the end, and are
checked for deadlock.

## 4. Proofs

TLAPS proves, for every value of the constants that satisfies the named
assumptions of the module (`InstallAssumption`, `RemovalAssumption`, `CatalogAssumption`, `VersionsAssumption`,
`DepAssumption`, `TapsAssumption`, `StepsAssumption`; `CaskAssumption` and `FileAssumption` of `CaskTxn`; `NoInodeAssumption`, `FilesAssumption`,
`ListingAssumption` and `CommandsAssumption` of `LockFiles`). The assumptions say what shape a
constant has, and TLC evaluates them on the instances.

| Module | Theorem | Statement |
|---|---|---|
| `InstallTxnProofs` | `Typed` | `Spec => []TypeOK` |
| | `KegSafe` | `Spec => []KegSurvives` |
| | `Atomic` | `Spec => AtomicOnRack`: `InstallTxn` implements `RackUpdate` |
| | `Complete` | `Spec => []CommittedComplete` |
| | `Clean` | `Spec => []CleanFailure` |
| `RemovalTxnProofs` | `Invariant` | `Spec => []RemovalInv` |
| | `TypeCorrect` | `Spec => []TypeOK` |
| | `Whole` | `Spec => []KegsWhole` |
| | `Complete` | `Spec => []RemovedCompletely` |
| | `Clean` | `Spec => []CleanFailure` |
| | `Atomic` | `Spec => AtomicInBulk`: `RemovalTxn` implements `BulkRemoval` |
| `NetworkProofs` | `Typed` | `Spec => []TypeOK` |
| | `Honest` | `Spec => CacheHonest` |
| | `Kept` | `Spec => []KeepsVerified` |
| | `Offline` | `Spec => []WorksOffline` |
| | `Current` | `Spec => []ForceIsCurrent` |
| | `Bounded` | `Spec => []AsksTwice` |
| | `FetchTyped` | `FetchSpec => []FetchTypeOK` |
| | `OnlyVerified` | `FetchSpec /\ []OneAtATime => []UsedVerified` |
| | `FinalStays` | `FetchSpec => []FinalKept`, for one client |
| | `Healthy` | `FetchSpec => []HealthySucceeds`, for one client |
| `ToolsProofs` | `OrderTotal` | `\A p, q \in PkgVersion : Trichotomy(p, q)` |
| | `OrderTransitive` | `\A p, q, r \in PkgVersion : Transitive(p, q, r)` |
| | `OrderSound` | `DepSpec => []DependenciesPrecede` |
| | `StepsAreUndone` | `Spec => []StepsUndone` |
| `PrefixProofs` | `Consistent` | `Spec => []LockInv` |
| | `KeptExclusive` | `Spec => []ExclusiveOn(Kept)` |
| | `Proceeds` | `Spec => []SomeoneProceeds` |
| | `Implements` | `Spec => ImplementsRW`: on the names nobody deletes, `LockFiles` implements `ReadersWriters` |
| | `RecordsAgree` | `LinkSpec => []RecordsTrue` |
| | `UserFilesSafe` | `LinkSpec => []UserFilesKept` |
| | `RefusalsHarmless` | `LinkSpec => RefusalChangesNothing` |
| `CommandsProofs` | `Invariant` | `Spec => []Inv` |
| | `TypeCorrect` | `Spec => []TypeOK` |
| | `DecidesOnPresent` | `Spec => []ScanCurrent` |
| | `PoursInOrder` | `Spec => DependenciesFirst` |
| | `RemovesUnwanted` | `Spec => RemovalKeepsWanted` |
| | `UntapsUnused` | `Spec => UntapSafe` |
| | `TapsSafe` | `TapsSpec => []TapsInv` |
| | `NoSilentPart` | `TapsSpec => []PartialTold` |
| | `SuccessDone` | `TapsSpec => SuccessIsDone` |
| | `TapsKeep` | `TapsSpec => TapsKept`: both |
| | `ServicesTyped` | `ServicesSpec => []ServicesInv` |
| | `ServicesSafe` | `ServicesSpec => ServicesKept` |
| | `CleanupPlanned` | `CleanupSpec => []CleanInv` |
| | `CleanupKeeps` | `CleanupSpec => []CleanupSound` |
| `CaskTxnProofs` | `Invariant` | `Spec => []CaskInv` |
| | `TypeCorrect` | `Spec => []TypeOK` |
| | `Honest` | `Spec => []HonestFailure` |
| | `Exact` | `Spec => []CommittedExactly` |
| | `Kept` | `Spec => []NothingLost` |
| | `Others` | `Spec => OthersKept` |

**InstallTxn.** `KegSurvives` is not inductive: whether a keg that was there
survives a rollback step depends on what the journal says of the backup and of the
promotion. The inductive invariant `RackInv` adds, to the types and to
`KegSurvives` itself:

- `ControlInv`: which journal fields can be set at which label (nothing is
  promoted before the rename, committed only after the steps, and so on);
- `OthersInv`: versions other than the one poured never change;
- `NewKegInv`: where the kegs of the poured version are, label by label: in place,
  in the backup, or replaced; in particular rollback finds at the final path
  either the old keg, nothing, or the new keg with `promoted` set.

`OldInv` says of the replaced version where the transaction may still name it.
`LogicalRack` counts the replaced keg as installed while it is in the backup and
the new one only from the commit on; `LogicalWhileRunning` shows from `RackInv`
that, so seen, a running transaction has changed nothing, and with it every step
is a step of `RackUpdate` or changes nothing it sees. Each proof has one step per
action.

The two outcomes, `CommittedComplete` and `CleanFailure`, relate the prefix, the stage, the
skeleton and the steps to the journal. `InstallInv` adds to `RackInv`:

- `FoundInv` and `ScratchInv`: what the transaction makes (rack directory, stage, skeleton, steps) is in the
  journal from before the call that makes it until it is gone again, or something is left over and
  will be reported. With an empty `leftovers` at the end of rollback, nothing is left;
- `ShippedInv`: a link into a keg is where the keg ships a file, so that `unlink`, which walks the
  keg's files and not the prefix, meets all of them;
- `LinksInv`: from the commit on the links and records of the new keg are complete; after
  rollback's unlink they are gone or left over;
- `FirstInv`, `UnlinkView` and `UndoneView`, about a first run that is alone, for the second
  conjunct of `CleanFailure`: the places the old keg's links are freed from are only taken by
  the new keg, rollback frees them again, and so the relink meets no conflict.

Their hypothesis (alone, first run, unlink complete) is the one `CleanFailure` names: an unlink that
fails half-way is not in the journal, which is one of the deviations of section 5.

**RemovalTxn.** The loops are a sequence of calls still to make, and the invariant says what
that sequence knows. In `apply` a call is still to come exactly where its effect is missing
(`PlanInv`, `UnlinkInv`): a target in its rack is still to be moved, a symlink to a target still to be
removed, a link into one still to be unlinked. At the commit the sequence is empty, which gives
`RemovedCompletely`. In `rollback`, whatever differs from the disk as it was is still to be put back, or
something is left over (`PlaceInv`, `RackInv`, `RecordInv`, `RelinkInv`); at its end, without leftovers, all is back, which
is `CleanFailure`. The order of calls matters twice (`Ordered`): a keg is unlinked while it is in its
rack, and relinked after it is back there and before the three symlinks are restored. That no
link dangles, whoever links meanwhile (`LinkInv`), is what makes the unlink and the relink meet
all of a keg's links. `Was` and `Was` without the targets are the two racks that `BulkRemoval` may see.

**Loops.** The sequences of calls (the plan of a removal, its reverse in rollback) and the lists of
lock files in path order are flattened sequences of sequences. The community modules define `FlattenSeq` as a recursive
function; `FlatExists` shows, with the well-foundedness of the naturals in place of an induction
rule, that this function exists, and the lemmas after it where each part lies in the whole and what
a filter keeps. `Ordered` and what is still to come of every kind of call follow from them
(`WholePlan` for a removal, `UndoFacts` for its rollback). `RemovalAssumption` says that no formula is listed twice in `Order` and no
version twice in a rack, as in the code's sets and in a directory; `InstallAssumption` that the names of versions
are none of the words the model uses for other contents of a place.

**CatalogCache.** All of its properties are proved, for any number of processes,
versions, loads and ticks. The processes share the file and nothing else, so the
argument is in two layers. `LoadInv` says what a load knows by itself: what it is
about to store and what it returns has been verified, how often it has asked
(`Asked`, by label, retry and host), and that a forced load never asks
conditionally and holds nothing older than its server's version when it began.
It depends on the servers only, whose versions grow (`ServerInv`), so a step of one
process needs a fact about that process's new record and nothing else
(`StepFits`). The second layer relates the file to every load: as long as files
can be read and nobody prunes, a good copy stays good *and no load is at a label
that removes it* (`KeptInv`); while the network fails without lying, no load is
about to give up (`OfflineInv`). Both are needed together: a load removes the file
by name, so what one process believes of it is only safe if no other has come to
believe the opposite.

**Downloads.** `FetchTyped` holds for any clients at once. What a fetch knows of the names after it has verified
(`SharedInv`: what it is about to use is what it asked for, or a cleanup removed it, and nobody has that inode open) is inductive only
while no other fetch works on the entry, so `OnlyVerified` has `OneAtATime` as its hypothesis, which every behaviour of
one client satisfies; that `fetch` and `install` take no lock that would ensure it is the finding of `downloads_shared`.
`FinalKept` and `HealthySucceeds` are proved for one client, for any number of fetches one after the other, versions,
chunks, attempts and kills. `HealthyInv` says at each label what a fetch without trouble has in its
`.incomplete`: a beginning of the version it wants, a stuck remainder of another, or nothing, and that what is
stuck is discarded before the attempts end. The exception in `HealthySucceeds` is where that fails. `FetchAssumption`
says that bodies have chunks, that a fetch has at least two attempts (the code has five) and at most two origins.

**Versions.** The code compares two token lists up to the longer one, a short one being
padded, and skips zeros. The proof compares infinite padded sequences instead:
`Canonical(ts, i)` is `End` past the tokens, so the bound of the comparison does not
matter (`FirstPlace`: two different sequences differ at a first place, the least of the places where they differ), and the order is lexicographic over
a total order of tokens (`TokenOrder`). Revisions and HEAD are a case distinction on top.

**Dependencies.** `DependenciesPrecede` alone is not inductive: a formula enters the order
when its last edge is popped, and nobody looks at its edges again. `DepInv` says of each
edge of a formula on the path that counts where it leads: to a complete formula, to an edge
still to be followed, or one place up the path (`PathInv`); and that what is complete and not
a root is in the order (`OrderInv`). At the moment of leaving, the frame has no edges left and
is on top, so only the first case remains.

**LockFiles.** The code takes a lock on a name, the kernel gives it on an inode. `LockInv` says
when the two are the same. An inode has at most one name, and no process has it open or locked
under another (`Named`); what is locked or open under a kept name is that name's inode, in the
mode the command asks for (`KeptGuards`); two locks on one inode are compatible (`Exclusion`). So two
guards of a kept name are two locks on one inode. The part that could fail is the removal of lock
files by `cleanup`, and `Placed` says what it may remove: files of the top directories only, and in its
sweep while it holds at most that one; `NotKept` that none of these is a kept name. Deleting
a name breaks `KeptGuards` for it, which is what `locks_cleanup` shows. For the refinement,
`LockSeen` and `DropSeen` show that the step of one process changes one entry of `HeldNames`,
and in the way an acquisition or a release of `ReadersWriters` does.

`SomeoneProceeds` needs the order as well as the locks. `OrderInv` adds that every command asks for its
files in one order (the tap's first, then formulae, then casks, each by name), that it holds exactly
those it is past (`Course`, `Reached`), so whoever is refused a lock was refused by somebody who has
reached that file. That is what `Proceeding` says, as long as nobody has
succeeded or been killed: each refused command has one still running that has reached the file it wanted, or is past it;
when that one is refused in its turn, it is by somebody further along in the order. `reinstall` is the one command that does not keep to the order (it takes its casks' locks first), and the
property is about the others. Assumed are that the
names of a formula's and a cask's lock file differ, as their suffixes do, and that somebody runs at all
(`FilesAssumption`, `ProcsAssumption`).

**InstallSteps.** The journal is a sequence and what it makes of a tree a function computed along it, so the
argument is not about that function but about a list of trees (`Retraces`): one for each inverse, the last the tree
as it is, the first, without the journal, the tree the steps found, and each inverse makes of its tree the one before. `TraceUndone`
shows that `Undone` follows such a list. So each call owes one of three things: an inverse noted with it that
takes it back (`mkdir`, a backup); a change below a path that the last inverse clears (what is put where a
replaced file was), so that the list changes at its end only; or an inverse noted before it that does nothing yet (`MoveBack`, `RemovalOf`) and takes it back once it
has happened. That each does is a matter of the work before it, which is why `StepsInv` says of every item of
`todo` what it relies on (`FitAt`): that by its turn the path will be *covered* by the last inverse or *away* (`Will`),
through something an earlier item brings (`Brings`) and those between leave alone (`Leaves`). A helper replaces itself by
items that keep its promise; each of the executors has a lemma of its own. The journal root is in the way twice: it comes into
being in the middle of the steps, and then every tree of the list gets it (no inverse noted before is about it, `EarlyInverse`); and its
numbers must be fresh, or a backup would meet an older one (`InPlaces`). In rollback the list is walked backwards, as long as nothing
fails; what fails is reported, or was nothing. `StepsAssumption` says that the trees are finite trees without a journal root,
and that the steps name paths below the prefix: `validate_relative_path` refuses the empty path, and the root's name is made up when
it is created. A step on `.` of the prefix itself is not covered.

**Taps.** A `tap` or `untap` past its locks holds the locks of all its taps (`Held`), and only the
holder of a tap's lock changes its directory, except `update`, which only pulls. So a step of one
process leaves what the invariant says of another as it was (`OtherTapsKeep`, `TapStepKeeps`), and each
action needs an argument about its own process only. `Behind` says that the taps an `untap` has
done are gone, which gives `SuccessIsDone` at its last step; `Told` that a partial tap was reported
or is the one its lock's holder is working on, which a failed rollback or removal has to discharge by
reporting it. A kill is not reported: what it leaves counts as told to whoever killed the process.

**Services.** A command is a tree of calls, each with its outcomes, and its ends are the leaves. The lemmas follow the
tree from the calls of a manager up: what every end of `bootstrap`, `enable`, `start` keeps of the files, the
enabled units and the jobs it found (`Adds`, `Keeps`), then of the commands. `TakenBack` is what
`rollback_transient` owes a failed `run`, in each of the places the run may have stopped; a transient file that could
not be written, before there is anything to take back, is the one thing it may leave. That a service
restarts as it was registered needs a fact about reachable states: on systemd nobody has a plist, on launchd nothing is
enabled (`HostFits`, which `ServicesTyped` proves).

**Cleanup.** In the prefix, a run that nobody disturbs and in which nothing fails finds each directory empty when its turn comes.
`PrefixInv` says why: every directory below which there is nothing but broken links is planned from the start
(`Foreseen`), nothing else is, and a directory's turn comes after those below it. A link made meanwhile, or a
failing call, ends this claim (`Calm`) and not the others. In the Cellar and in the cache, `StoreInv` follows the plan:
it is made of what is there, spares what `WorthKept` names, and takes both files of a download or neither; what a
failing removal leaves of a pair is named in the report. `CleanupAssumption` says that paths are sequences of names, that no
root lies below a directory that is removed, and that no two entries of the cache have one name.

**CaskTxn.** None of the four properties is inductive, since what rollback will find depends on the
journal and the backup. `CaskInv` says it of one token at a time, as a statement about values (the command, the files, the
version directories, the receipts), so that a step of one token's command says nothing new of another's
(`SameFits`): other tokens see a step only through the removal of a directory, after which files are
missing and the command is marked `robbed` (`LikeFits`), be it a rollback or a removal directive that takes them. Of the token whose command takes the step:

- `FileOK`, `RoomsOK`, `ReceiptOK`: what is not as the command found it is in the backup *and* has its entry in the
  journal, or is named in the report. This is `NothingLost` before the commit and, with an empty
  journal, `HonestFailure` after rollback. It holds of a torn copy too, which is named at once.
- `OrderOK`: the journal is in two parts, first what was backed up, each thing once, and then what was
  deployed. Rollback takes it from its end, so when it comes to an entry that puts something back, no
  entry is left that would remove it again, neither the file nor its directory.
- `DeployOK`: what the old records name is still to be backed up or gone, and what the new plan names is
  in place or still to be deployed, which gives `CommittedExactly` of an install at the rename; `RemoveOK` is
  the same of an uninstall.
- `NoClaim`: no target, journal entry or installed version is about a path where the user's file is, and of the new plan only
  an action still to come, which will find it and fail. With the step of a directive
  excepted, this is the half of `OthersKept` about the user's files.
- `Control`: which of the command's fields can be set at which label.

The proof has one lemma per action (`PutFits`, `UndoRestoreFits`, ...). Nothing is assumed of a plan but that it
is a sequence: one that names a path twice fails at the second, and is covered.

**Fleet.** Each property relates what a command read to what is there when it acts, so none is inductive
without the locks. The invariant has three parts for each process. `Own` is what its variables say of each other: the locks
cover whatever it may pour or remove (`Covers`), the scan is of what it locked, and what is left to do is part of a plan that
was not refused (`Planned`), each formula once and, for an install, none before one it needs (`Ordered`, from
`PourOrderFacts` and the lemmas about filters). `World` relates the scan to the Cellar: the racks it has not changed are as it
saw them (`Current`), what an install has poured is there (`Poured`), and no formula of a tap it is about to remove was
installed since (`Untapped`; `untap` reads the Cellar without rack locks). `Apart` says that two commands past
their locks do not clash. A step changes only racks its process locked, and installs only what is of a tap it locked
(`Effect`, one lemma per action), so `Apart` keeps every other process's `World` (`OthersKeep`). From this state
`DependenciesFirst` and `UntapSafe` follow without looking at the step: a dependency is poured, was there, or would have come first.
`RemovalKeepsWanted` needs what `autoremove`'s rounds compute: `RoundsExist` shows that the recursive function exists,
`RemovableFacts` that every round takes only unrequested formulae whose dependents it takes too. Assumed are a
catalog without cycles, listed in an order that `expand` may produce, transitive lists of dependencies, and requests
that name no formula twice (`OrderAssumption`, `CommandsAssumption`); cycles are `Dependencies`' subject. `UntapSafe` speaks of a process's own taps:
another, forced `untap` may well remove a tap in use at the same moment, which a proof for all instances showed.

**Linker.** A plan is made on the disk as it is before the first write, and carried out on a disk that its own
operations change. The first layer is about files of the user. `FineDisk` says of a disk that what is below something is
below a real directory, and that each file of the user is in place or in `Backup`; `Pending`, the invariant of the loop
over the operations, that every destination still to come, and all below it, is as the plan found it, because an
operation touches its own destination, what is below and the directories above, and the walk visits parents first. So `backup` moves what
the plan saw and nothing else, and `UserFilesKept` follows.

The second layer is `Sound(d, K, P)`: on disk `d` the records name kegs of `P`, each under its own formula, every link is
where its keg ships something, and, kegs of `K` excepted, each link and each made directory is of a linked keg and each
linked keg has all it ships in reach. `Agreed` says this of the disk with the torn kegs for `K` and the Cellar for `P`, and it is inductive. To link
`k` means to carry out the plan with `k` in `K` and to take it out at the end: `PlanDoesCover` says that every file of the keg
is planned, is linked already or lies under a linked directory, and `PlacedBy` that after
each operation what was planned so far is linked (`PlacedFound`), while what other kegs have linked stays,
is expanded file by file or goes to `Backup` (`StillFound`). To unlink `k` means to take its links away, which makes the
directories it alone accounted for removable: `PrunedSound` shows that the pruning takes all of those, since a directory that stays has something in
it that belongs to somebody else, whose keg ships the directory as well. A failing call leaves `k` in `K`, and with it the keg that was being expanded.
For the siblings, `InTurnExists` shows that the recursive function over their list exists, and `Passed` adds them to `K` or takes them out one by one;
that no two of them are of one formula (`Separate`) comes from the records. The proof brought to light what the runs had not: a
keg's own symlinks that lead nowhere are linked and never unlinked (5.1), so `Sound` excepts them, and the keg whose directory was being
expanded when a call failed is hurt as well as the one being linked.

The third layer compares two disks. `OnlyMoved(d, e, S)` says that between `d` and `e` only the kegs `S` were moved: files of the
user and `Backup` are the same, whatever else differs is where a keg of `S` ships something, every other keg has in reach what it
had, and only records of formulae of `S` differ. It is reflexive, transitive and monotone in `S` (`KeptTwice`, `KeptMore`), so `LinkKept` and
`UnlinkKept`, for one keg each, carry over to lists of siblings. Its limit is `--overwrite`, which moves files to
`Backup`; a keg linked again is linked without it, and then a plan that is carried out consists of `GentleOps` only.
`Restored(e, S)` says that the kegs `S` are in reach and on record once more, which `RestoredStays` keeps while the next one is
linked. Whoever refuses either wrote nothing or went through both (`Undone`), and since both records of an
untorn keg name it (`RecordsPaired`), they are what they were: `RefusalsHarmless`. An earlier form of the property, which named the
nodes that may differ one by one, held on the runs' trees only: in general a sibling's return may expand a third keg's
directory or find one it need not make real any more.
`LinkerAssumption` says that the paths are listed parents first and once, that a keg is a tree and of one formula, and that
the user's nodes are files, directories and foreign links; `UserTreesAssumption` that they form a tree with the directories every prefix has.

Model-checked only: liveness (`Terminates`), which is out of the prover's reach; `NoPourIntoConflict` of `Fleet`, which the code violates; and the functions other than the order of versions and of the expansion
(`ManagersAgree`, `ImagesLoad`, `CatalogRead`, `ArchivesUnpack`, the parts of `VersionsOrdered` about hashes and releases and of
`ExpansionSound` about trees and users). What the recursive functions of these modules compute for every input would need
induction over data.

## 5. Known deviations

What the models showed of the code besides the findings, with the properties
stated so that they exclude exactly these cases:

- After a failed first install `opt/<name>` points to a keg that is gone: rollback
  calls `unlink`, which keeps `opt` (`CleanFailure` promises the links, not `opt`).
- An unlink that fails half-way is not in the journal; the links it had removed
  stay removed (`CleanFailure` is about completed unlinks).
- Rollback's relink returns conflicts, which are dropped: with a neighbour at work a
  link may not come back and nothing says so.
- `uninstall`, `autoremove` and `upgrade` enumerate before they lock and decide again from a
  scan after locking, for what they enumerated: a formula installed in between is
  not considered, and may lose a dependency.
- `install` of a formula that is already there as a dependency does not record the
  request, so `autoremove` may delete it later.
- `install app lib`, both named, pours in the order of the arguments, `app` first.
- A full-length wrong `.incomplete` is resumed at its end, answered 416 and refused
  for ever, where a single origin serves the artifact.
- The bottle is not verified again when it is poured; between a fetch and its pour
  nothing protects the file.
- The catalog is asked for with the local modification time: one published between
  the server's answer and the local write is taken for known until the next
  publication. A corrupt cached copy is removed by name, which may hit a good one
  another process has just put there.
- `write_atomic` of the catalog leaves `.incomplete.<pid>.<n>` behind when killed,
  which `cleanup`'s `.incomplete` suffix does not match.
- The step journal's root is removed at the end of a rollback even if an inverse
  failed, and with it the backup that inverse should have put back: the leftovers
  name it, but it is gone. In the same way the inverse of a created directory
  deletes what a failed inverse of a move has left inside it.
- `inreplace` writes a new file with default permissions.
- A read-only directory cannot be copied: the copy takes its mode before its
  children.
- `postinstall` takes no lock.
- A forced fetch without a checksum (`:no_check`) resumes whatever `.incomplete` an
  earlier fetch left, and so may publish a mixture of two versions, although
  `download.rs:38` says it skips the reuse of incomplete files.
- A cask install journals the directory it creates for a target as one removal; its
  rollback takes along what another cask has deployed there meanwhile.
- A removal directive of a cask (`delete`, `trash`, `rmdir`, the plist of `launchctl`) removes what it names anywhere
  below the home, the prefix or the application directory, without asking whose it is: a file of the user, or what
  another cask has deployed there, also while that cask is being installed under its own lock.
- A first cask install that is killed leaves targets which no record names: the next
  install of the same cask finds them in its way and refuses.
- A cask's version directory whose removal failed half-way may have lost its record;
  no command then accepts the token, and nothing removes the directory, although
  records are meant to allow an uninstall at any time. Directives that were run
  before such a failure are run again by the next uninstall.
- The receipt of a version survives an uninstall that fails between the removal of
  the version directory and that of its receipts, and nothing looks at it again.

### 5.1 The linker

- A directory of the prefix that another keg has linked whole is planned to be expanded, but
  what the second keg ships in it is refused by the preflight, which finds a link among
  the components of its path (`LinkConflict`): such directories are never merged, although
  `DstState` calls them mergeable (`link.rs:64`). Expansion happens only where the second keg has
  nothing to link inside. `DirectoriesMerge` states the documentation; the code violates it, so
  no run checks it.
- `link` links `Frameworks` (`LINK_DIRS`), `unlink` does not walk it (`UNLINK_DIRS`,
  `link.rs:186`): those links stay.
- A second `--overwrite` of a destination replaces what the first put into `Backup`.
- `unlink` removes a link only if it resolves into the keg. A link to a symlink of the keg that
  leads nowhere never does: it stays after `unlink` and `uninstall`, and so do the directories above
  it. `NothingLeftBehind` leaves these out by name.
- A sibling that is linked again after a refusal is linked with force, a keg-only one
  included, and an alias that could not be written is not restored.
- A record whose place is taken by a real directory is refused after the links were made;
  a call that fails during an expansion leaves the other keg's files unlinked.

### 5.2 Services

- `cleanup` judges each file alone: it removes the `.service` of a timer that is active, and
  what was enabled stays enabled. `stop` and `kill` do not unregister; `uninstall` does not stop.
- On macOS, `start` after `run` or `kill` finds the job loaded and says it is started.
- A status query that fails in any way counts as "not active".
- A unit or plist that could not be written may remain in part, a `run`'s transient one too, which nobody takes back.
- `keep_alive: always` becomes `Restart=on-failure`.
- A schedule with both a day of the month and a weekday is "both" for systemd and "either" for
  launchd; `CalendarsAgree` leaves these out.

### 5.3 Taps

- Two `untap`s of one user's taps race for the empty user directory, and one of them fails after
  its removal. `untap a a` fails after removing. A tap whose files cannot be counted is reported as a failure
  although it is tapped.
- `update` may pull in a directory that `untap` is removing. A killed clone leaves a part which
  the next `tap` calls tapped.

### 5.4 Cleanup

- `--scrub` removes the bottle of an installed version when its formula is excluded from cleanup,
  although `.outline/sdd/task-6g-report.md:14` says it is kept (`InstalledBottleKept`), and a link that was
  broken at the scan and made good by an install before its removal is removed, against line 17 of the
  report (`LiveLinksKept`). Both are stated in `CleanupPlan`; the code violates them, so no run checks them.
- What replaced a broken link since the scan is removed with what is in it (`remove_entry`).
- A bump of `version_scheme` makes old every keg that is not linked or pinned, newer versions included.
- The bottle of a keg that the same run removes stays; one with a rebuild number is never
  scrubbed; with `--prune` an alias may be left dangling.
- A directory an install has just made for its link is empty, and may be removed before the link is.

### 5.5 Dependencies

- A `uses_from_macos` dependency for build and test is dropped from what `install --include-test`
  pours, while its own dependencies are poured.
- A formula that is needed, and named a second time by a `uses_from_macos` element tagged recommended and test, is
  dropped from what `install` pours without `--include-test`: the second edge is followed because it is
  recommended, marks the formula as one to test with, and the filter of what is poured takes out all of these
  (`dependency.rs:53-66`, `163-167`, `322`). `PourKeepsNeeded` leaves it out by name (`TestedAlso`).
- One formula with an edge to nowhere, or a bound that is no release, makes `uses` fail for every
  formula (`UsesFails`).
- A root that is a dependency of another root is not in the order; the caller pours roots after it.

### 5.6 Relocation and archives

- The headers of an image, when they are moved to a new segment, are not covered by it, although the
  doc of `append_into_last_load` says so (`HeadersCovered`, not run), and the segment is aligned to
  0x1000 whatever the image's pages. A runpath that fits is written in place, in a string table that symbol
  names may share. A prefix longer than the slot makes the generic pass refuse the whole file.
- Preflight accepts a file over a directory without an entry, a hard link to nothing, and a hard link to a symlink
  that does not lead to a file already unpacked inside, which `unpack_in` follows; extraction then fails half-way, in
  the stage (`BottleUnpacks` leaves the hard links out by name, `LinksLead`). A cask's tar whose entries begin with `./` is refused, as are
  links in a zip. An archive that names a path twice is not modelled.

### 5.7 Commands

- Killed between the record `linked` and the post-install steps, a formula counts as installed, and
  the next `install` does not run them.
- `reinstall` takes its locks in another order than `install`; without blocking that is a refusal.
- After a bump of `version_scheme` whether a formula is outdated depends on every keg still installed.
- SIGINT ends the process at an await and is the kill of the models.

## 6. What is not modelled, and why

`PROJECT.json` has a row per component. Bytes and texts (compression, Mach-O headers and code
signing, disk images, JWS, JSON, the scanner of versions) are left out: in a model they are a
predicate, a sequence of cells or tokens, or a call that may fail. The environment, receipts' other fields, the
shim, the command line and the commands that only print change nothing that others decide on.
External programs (git, systemctl, launchctl, hdiutil, the servers) are modelled from how the code
uses them.

## 7. Possible extensions

The modules of the first plan are all there. What would add most from here:

- Keg-only formulae and siblings in `Fleet`, and its pours as `Linker`'s links.
- `Services` call by call, with two processes: the code takes no lock there.
- The scanner of versions, and the deferral of maintenance commands over a whole request.
