----------------------------- MODULE CatalogCache -----------------------------
(***************************************************************************)
(* The cached copy of a signed catalog and the processes that load it      *)
(* (load_signed of zapbrew-api/src/transport.rs).  The file is read,       *)
(* touched, removed and replaced by name and without a lock, at any time   *)
(* by any process; a server publishes newer catalogs, may be unreachable   *)
(* or answer with a body that does not verify; clocks tick.                *)
(***************************************************************************)
EXTENDS Naturals, FiniteSets

CONSTANTS
    Procs,
    MaxVersion,  \* bound on the versions published
    MaxClock,    \* bound on the time
    Ttl,         \* HOMEBREW_API_AUTO_UPDATE_SECS
    Hosts,       \* the API domain, then the default one if that is another
    MaxLoads,    \* bound on the loads begun
    MaxKinds     \* bound on the kinds of trouble in one behaviour, beside network errors

ASSUME CatalogAssumption ==
    /\ MaxVersion \in Nat \ {0} /\ MaxClock \in Nat \ {0} /\ Ttl \in Nat
    /\ MaxLoads \in Nat /\ MaxKinds \in Nat /\ Hosts \in {1 .. 1, 1 .. 2}

VARIABLES
    cache,   \* [body, mtime] under the file's name
    server,  \* [version, modified] of each host
    clock,
    load,    \* what each process does
    loads,   \* how many were begun
    seed,    \* what the cache held at first
    seen     \* the kinds of trouble so far

vars == <<cache, server, clock, load, loads, seed, seen>>

Versions == 1 .. MaxVersion
Absent == 0
Corrupt == MaxVersion + 1
Good(body) == body \in Versions
Never == MaxClock + 1

Modes == {"normal", "no_auto_update", "force"}
Default == CHOOSE h \in Hosts : \A g \in Hosts : g <= h

Idle == [pc |-> "idle", mode |-> "normal", keep |-> Absent, retried |-> FALSE, host |-> 1,
         since |-> Never, body |-> Absent, payload |-> Absent, warned |-> FALSE, floor |-> 0,
         gets |-> 0]

Init ==
    /\ clock = 1
    /\ \E body \in {Absent, 1, Corrupt}, mtime \in 0 .. 1 :
          cache = [body |-> body, mtime |-> IF body = Absent THEN 0 ELSE mtime]
    /\ seed = cache.body
    /\ server = [h \in Hosts |-> [version |-> 1, modified |-> 0]]
    /\ load = [p \in Procs |-> Idle] /\ loads = 0
    /\ seen = {}

-----------------------------------------------------------------------------
Busy(p) == load[p].pc \notin {"idle", "ok", "failed", "killed"}
At(p, label) == load[p].pc = label
Becomes(p, now) == load' = [load EXCEPT ![p] = now]
To(p, label) == [load[p] EXCEPT !.pc = label]
Goto(p, label) == Becomes(p, To(p, label))

\* How a load ends; what it worked with is forgotten.
Over(p) == [Idle EXCEPT !.mode = load[p].mode, !.floor = load[p].floor]
Failed(p) == [Over(p) EXCEPT !.pc = "failed"]
Ok(p, body) == [Over(p) EXCEPT !.pc = "ok", !.payload = body]
Warned(p, body) == [Ok(p, body) EXCEPT !.warned = TRUE]

world == <<server, clock, loads, seed>>
Fine == UNCHANGED seen
Trouble(kind) == seen' = seen \cup {kind} /\ Cardinality(seen' \ {"network"}) <= MaxKinds

\* remove_file, whose error is ignored.
RemoveCache ==
    \/ cache' = [body |-> Absent, mtime |-> 0] /\ Fine
    \/ UNCHANGED cache /\ cache.body # Absent /\ Trouble("io")

\* read_verified_cache: there is no file, or one that can be read and verifies,
\* or not.
Reads(p, good, none, bad) ==
    /\ \/ Good(cache.body) /\ Becomes(p, good) /\ Fine
       \/ cache.body = Absent /\ Becomes(p, none) /\ Fine
       \/ cache.body = Corrupt /\ Becomes(p, bad) /\ Fine
       \/ cache.body # Absent /\ Becomes(p, bad) /\ Trouble("io")
    /\ UNCHANGED <<cache, world>>

Begin(p) ==
    /\ ~Busy(p) /\ loads < MaxLoads /\ loads' = loads + 1
    /\ \E mode \in Modes :
          load' = [load EXCEPT ![p] =
                     [Idle EXCEPT !.mode = mode, !.floor = server[1].version,
                                  !.pc = IF mode = "force" THEN "preserve" ELSE "usable"]]
    /\ UNCHANGED <<cache, server, clock, seed, seen>>

\* A forced load first keeps what it has.
Preserve(p) ==
    /\ At(p, "preserve")
    /\ Reads(p, [To(p, "get") EXCEPT !.keep = cache.body], To(p, "get"), To(p, "clear"))

\* cache_usable: young enough, or from the future, or no refresh wanted.
Usable(p) ==
    /\ At(p, "usable")
    /\ LET fresh == load[p].mode = "no_auto_update" \/ clock < cache.mtime + Ttl
       IN  Goto(p, IF cache.body # Absent /\ fresh THEN "trust" ELSE "get")
    /\ UNCHANGED <<cache, world, seen>>

Trust(p) ==
    /\ At(p, "trust")
    /\ Reads(p, Ok(p, cache.body), To(p, "get"), [To(p, "clear") EXCEPT !.retried = TRUE])

Clear(p) ==
    /\ At(p, "clear") /\ RemoveCache /\ Goto(p, "get") /\ UNCHANGED world

-----------------------------------------------------------------------------
(* One GET: download_envelope and try_get.                                 *)

\* Mutant: a forced load asks conditionally too.
GetConditional(p) ==
    /\ At(p, "get")
    /\ Becomes(p, [To(p, "answer") EXCEPT
         !.gets = @ + 1,
         !.since = IF load[p].host = 1 /\ cache.body # Absent THEN cache.mtime ELSE Never])
    /\ UNCHANGED <<cache, world, seen>>

\* If-Modified-Since is the local modification time; never to the second host,
\* never when forced.
Get(p) ==
    /\ At(p, "get")
    /\ LET conditional == load[p].host = 1 /\ load[p].mode # "force" /\ cache.body # Absent
       IN  Becomes(p, [To(p, "answer") EXCEPT
             !.gets = @ + 1, !.since = IF conditional THEN cache.mtime ELSE Never])
    /\ UNCHANGED <<cache, world, seen>>

\* The answer to the question that process p had asked has come.
Answered(p, label, body) ==
    [To(p, label) EXCEPT !.host = 1, !.since = Never, !.body = body]

\* Mutant: the error is the result.
OnErrorFails(p) ==
    IF load[p].host < Default THEN Becomes(p, [To(p, "get") EXCEPT !.host = Default])
    ELSE Becomes(p, Failed(p))

OnError(p) ==
    IF load[p].host < Default
    THEN Becomes(p, [To(p, "get") EXCEPT !.host = Default, !.since = Never])
    ELSE Becomes(p, Answered(p, "fallback", Absent))

Answer(p) ==
    LET host == server[load[p].host]
        notModified == load[p].since # Never /\ host.modified <= load[p].since
    IN  /\ At(p, "answer")
        /\ \/ notModified /\ Becomes(p, Answered(p, "touch", Absent)) /\ Fine
           \/ /\ ~notModified /\ Fine
              /\ Becomes(p, Answered(p, "verify", host.version))
           \/ Becomes(p, Answered(p, "verify", Corrupt)) /\ Trouble("body")
           \/ OnError(p) /\ Trouble("network")
        /\ UNCHANGED <<cache, world>>

-----------------------------------------------------------------------------
(* What becomes of the answer: fetch_and_store.                            *)

Touch(p) ==
    /\ At(p, "touch")
    /\ \/ cache.body # Absent /\ cache' = [cache EXCEPT !.mtime = clock]
          /\ Goto(p, "reread") /\ Fine
       \/ cache.body = Absent /\ Becomes(p, Failed(p)) /\ Fine /\ UNCHANGED cache
       \/ cache.body # Absent /\ Becomes(p, Failed(p)) /\ Trouble("io") /\ UNCHANGED cache
    /\ UNCHANGED world

Reread(p) ==
    /\ At(p, "reread")
    /\ Reads(p, Ok(p, cache.body), To(p, "drop"), To(p, "drop"))

\* A cache that did not verify after all is removed and asked for once more.
Drop(p) ==
    /\ At(p, "drop") /\ RemoveCache
    /\ Becomes(p, IF load[p].retried THEN Failed(p)
                  ELSE [To(p, "get") EXCEPT !.retried = TRUE, !.keep = Absent])
    /\ UNCHANGED world

\* Mutant: a bad body makes room for the next one at once.
VerifyDropsCache(p) ==
    /\ At(p, "verify")
    /\ Goto(p, IF Good(load[p].body) THEN "store" ELSE "drop")
    /\ UNCHANGED <<cache, world, seen>>

\* A bad body is asked for once more.
Verify(p) ==
    /\ At(p, "verify")
    /\ Becomes(p, IF Good(load[p].body) THEN To(p, "store")
                  ELSE IF load[p].retried THEN To(p, "judge")
                  ELSE [To(p, "get") EXCEPT !.retried = TRUE, !.body = Absent])
    /\ UNCHANGED <<cache, world, seen>>

\* write_atomic: a private file, renamed over the name.
Store(p) ==
    /\ At(p, "store")
    /\ \/ cache' = [body |-> load[p].body, mtime |-> clock]
          /\ Becomes(p, Ok(p, load[p].body)) /\ Fine
       \/ Becomes(p, Failed(p)) /\ Trouble("io") /\ UNCHANGED cache
    /\ UNCHANGED world

\* Two bad bodies: the load fails and only a verified cache is left.
Judge(p) ==
    /\ At(p, "judge")
    /\ Reads(p, Failed(p), To(p, "abandon"), To(p, "abandon"))

\* fallback_to_cache: what was kept, or what is there now.
Fallback(p) ==
    /\ At(p, "fallback")
    /\ \/ /\ load[p].keep # Absent /\ Becomes(p, Warned(p, load[p].keep))
          /\ UNCHANGED <<cache, world, seen>>
       \/ /\ load[p].keep = Absent
          /\ Reads(p, Warned(p, cache.body), To(p, "abandon"), To(p, "abandon"))

Abandon(p) ==
    /\ At(p, "abandon") /\ RemoveCache /\ Becomes(p, Failed(p)) /\ UNCHANGED world

Step(p) ==
    \/ Preserve(p) \/ Usable(p) \/ Trust(p) \/ Clear(p) \/ Get(p) \/ Answer(p) \/ Touch(p)
    \/ Reread(p) \/ Drop(p) \/ Verify(p) \/ Store(p) \/ Judge(p) \/ Fallback(p) \/ Abandon(p)

-----------------------------------------------------------------------------
Kill(p) == Busy(p) /\ Becomes(p, [Over(p) EXCEPT !.pc = "killed"]) /\ UNCHANGED <<cache, world, seen>>

Tick == clock < MaxClock /\ clock' = clock + 1 /\ UNCHANGED <<cache, server, load, loads, seed, seen>>

Publish ==
    /\ server[Default].version < MaxVersion
    /\ server' = [server EXCEPT ![Default] = [version |-> @.version + 1, modified |-> clock]]
    /\ UNCHANGED <<cache, clock, load, loads, seed, seen>>

\* A mirror catches up.
Sync ==
    /\ server[1].version < server[Default].version
    /\ server' = [server EXCEPT ![1] = [version |-> server[Default].version, modified |-> clock]]
    /\ UNCHANGED <<cache, clock, load, loads, seed, seen>>

\* `cleanup' removes cached files that are too old, or all of them.
Prune ==
    /\ cache.body # Absent /\ cache' = [body |-> Absent, mtime |-> 0] /\ Trouble("prune")
    /\ UNCHANGED <<world, load>>

Next ==
    \/ \E p \in Procs : Begin(p) \/ Step(p) \/ Kill(p)
    \/ Tick \/ Publish \/ Sync \/ Prune

Spec == Init /\ [][Next]_vars

-----------------------------------------------------------------------------
(* Properties                                                              *)

TypeOK ==
    /\ cache.body \in {Absent, Corrupt} \cup Versions /\ cache.mtime \in 0 .. Never
    /\ \A p \in Procs : /\ load[p].host \in Hosts /\ load[p].keep \in {Absent} \cup Versions
                        /\ At(p, "ok") => Good(load[p].payload)
    /\ seen \subseteq {"io", "body", "network", "prune"}

\* transport.rs, on top: "an unverified body never replaces a previously verified
\* envelope", whoever writes at the same time.
CacheHonest == [][cache'.body = Corrupt => cache.body = Corrupt]_vars

\* "Keep a still-verified on-disk envelope until a verified replacement is renamed
\* into place": a verified cache is never lost to a server or to another process,
\* whatever bodies arrive, as long as files can be read and nobody prunes.
KeepsVerified ==
    Good(seed) /\ seen \cap {"io", "prune"} = {} => Good(cache.body)

\* With such a cache and a network that fails but does not lie, every load
\* succeeds, beside any other.
WorksOffline ==
    Good(seed) /\ seen \subseteq {"network"} => \A p \in Procs : load[p].pc # "failed"

\* A forced load that does not warn brings a catalog at least as new as the one its
\* server had when it began.
ForceIsCurrent ==
    \A p \in Procs : At(p, "ok") /\ load[p].mode = "force" /\ ~load[p].warned =>
        load[p].payload >= load[p].floor

\* However often the answer is bad or missing, a load asks each host at most twice.
AsksTwice == \A p \in Procs : load[p].gets <= 2 * Default
=============================================================================
