---------------------------- MODULE NetworkProofs ----------------------------
(***************************************************************************)
(* Theorems about CatalogCache and Downloads, the two halves of MCNetwork. *)
(*                                                                         *)
(* CatalogCache comes first, for any processes, numbers of versions,       *)
(* clocks and kinds of trouble.                                            *)
(*                                                                         *)
(* What one load knows (LoadInv) depends only on the servers, whose        *)
(* versions only grow; what the cached file holds depends on every load's  *)
(* label.  The first is inductive by itself, the second given the first.   *)
(***************************************************************************)
EXTENDS CatalogCache, Downloads, TLAPS

Labels == {"idle", "ok", "failed", "killed", "preserve", "usable", "trust", "clear", "get",
           "answer", "touch", "reread", "drop", "verify", "store", "judge", "fallback", "abandon"}

Contents == {Absent, Corrupt} \cup Versions

LoadRecord ==
    [pc : Labels, mode : Modes, keep : {Absent} \cup Versions, retried : BOOLEAN, host : Hosts,
     since : 0 .. Never, body : Contents, payload : Contents, warned : BOOLEAN, floor : Nat,
     gets : Nat]

\* What is stored or returned has been verified.
Verified(l) ==
    /\ l.pc = "store" => Good(l.body)
    /\ l.pc = "ok" => Good(l.payload)

\* How many requests a load has made, by where it is.
Before(l) == IF l.retried = TRUE THEN Default ELSE 0
Asked(l) ==
    /\ l.pc = "get" => l.gets <= Before(l) + l.host - 1
    /\ l.pc = "answer" => l.gets <= Before(l) + l.host
    /\ l.pc \in {"idle", "ok", "failed", "killed", "preserve", "usable", "trust", "clear"} =>
          l.gets = 0
    /\ l.gets <= Before(l) + Default

\* A forced load asks without conditions, and what it got is no older than its server's
\* version at the start.
Forced(l) ==
    l.mode = "force" =>
        /\ l.pc \notin {"usable", "trust", "touch", "reread"} /\ l.since = Never
        /\ l.pc \in {"verify", "store"} => l.body >= l.floor
        /\ l.pc = "ok" /\ l.warned # TRUE => l.payload >= l.floor

LoadInv(l) == Verified(l) /\ Asked(l) /\ Forced(l) /\ l.floor <= server[1].version

TypeInv ==
    /\ cache \in [body : Contents, mtime : 0 .. Never]
    /\ server \in [Hosts -> [version : Versions, modified : Nat]]
    /\ clock \in 1 .. MaxClock
    /\ load \in [Procs -> LoadRecord]
    /\ loads \in Nat
    /\ seed \in Contents
    /\ seen \subseteq {"io", "body", "network", "prune"}

\* The default host publishes first.
ServerInv == server[1].version <= server[Default].version

Inv == TypeInv /\ ServerInv /\ \A p \in Procs : LoadInv(load[p])

-----------------------------------------------------------------------------
\* The API domain is the first host, the default the last of at most two.
LEMMA HostFacts ==
    /\ 1 \in Hosts /\ Default \in Hosts /\ Hosts \subseteq Nat
    /\ \A h \in Hosts : 1 <= h /\ h <= Default
    /\ \A h \in Hosts : h = 1 \/ h = Default
    /\ Default \in Nat
  <1>1. CASE Hosts = 1 .. 1
    <2>1. \A g \in Hosts : g = 1
      BY <1>1
    <2>2. 1 \in Hosts /\ \A g \in Hosts : g <= 1
      BY <1>1
    <2>3. Default \in Hosts
      BY <2>2 DEF Default
    <2> QED
      BY <1>1, <2>1, <2>2, <2>3
  <1>2. CASE Hosts = 1 .. 2
    <2>1. 2 \in Hosts /\ 1 \in Hosts /\ \A g \in Hosts : g \in Nat /\ 1 <= g /\ g <= 2
      BY <1>2
    <2>2. Default \in Hosts /\ \A g \in Hosts : g <= Default
      BY <2>1 DEF Default
    <2>3. Default = 2
      BY <2>1, <2>2
    <2> QED
      BY <1>2, <2>1, <2>2, <2>3
  <1> QED
    BY <1>1, <1>2, CatalogAssumption

\* Versions, the absent and the corrupt body are different numbers.
LEMMA BodyFacts ==
    /\ MaxVersion \in Nat /\ MaxClock \in Nat /\ Never \in Nat /\ 1 \in Versions /\ Corrupt \in Nat
    /\ Versions \subseteq Nat /\ Contents \subseteq Nat
    /\ Absent \notin Versions /\ Corrupt \notin Versions /\ Absent # Corrupt
    /\ Absent \in Contents /\ Corrupt \in Contents /\ Versions \subseteq Contents
    /\ \A v \in Versions : v <= Corrupt
  BY CatalogAssumption DEF Versions, Absent, Corrupt, Contents, Never

\* A step that gives process p a new record.
LEMMA OneLoad ==
    ASSUME TypeInv, NEW p \in Procs, NEW r, Becomes(p, r)
    PROVE  /\ load'[p] = r
           /\ \A q \in Procs : q # p => load'[q] = load[q]
           /\ r \in LoadRecord => load' \in [Procs -> LoadRecord]
  BY DEF Becomes, TypeInv

\* What a step of process p must make of its record.
Fits(l) == l \in LoadRecord /\ LoadInv(l)

CacheType == [body : Contents, mtime : 0 .. Never]
Kinds == {"io", "body", "network", "prune"}

\* Enough for a step of one process to keep Inv.
LEMMA StepFits ==
    ASSUME Inv, NEW p \in Procs, NEW r, Becomes(p, r), Fits(r), UNCHANGED world,
           cache' \in CacheType, seen' \subseteq Kinds
    PROVE  Inv'
  <1>1. TypeInv'
    BY OneLoad DEF Inv, TypeInv, Fits, world, CacheType, Kinds
  <1>2. ServerInv'
    BY DEF Inv, ServerInv, world
  <1>3. ASSUME NEW q \in Procs PROVE LoadInv(load[q])'
    <2>1. LoadInv(load'[q])
      BY OneLoad DEF Inv, Fits
    <2> QED
      BY <2>1 DEF LoadInv, Verified, Asked, Forced, world
  <1> QED
    BY <1>1, <1>2, <1>3 DEF Inv

\* Trouble is of a known kind.
LEMMA KindFacts ==
    ASSUME Inv
    PROVE  /\ Fine => seen' \subseteq Kinds
           /\ \A kind \in Kinds : Trouble(kind) => seen' \subseteq Kinds
  BY DEF Inv, TypeInv, Fine, Trouble, Kinds

LEMMA ReadsFits ==
    ASSUME Inv, NEW p \in Procs, NEW good, NEW none, NEW bad, Reads(p, good, none, bad),
           Good(cache.body) => Fits(good), Fits(none), Fits(bad)
    PROVE  Inv'
  <1>1. seen' \subseteq Kinds
    BY KindFacts DEF Reads, Kinds
  <1>2. cache' \in CacheType /\ UNCHANGED world
    BY DEF Reads, Inv, TypeInv, CacheType
  <1> QED
    BY <1>1, <1>2, StepFits DEF Reads

\* A record at whose label only a few fields matter.
LEMMA RestFits ==
    ASSUME NEW r \in LoadRecord, r.gets = 0, r.floor <= server[1].version,
           r.pc \in {"idle", "ok", "failed", "killed", "preserve", "usable", "trust", "clear"},
           r.pc = "ok" => Good(r.payload),
           r.mode = "force" => r.pc \notin {"usable", "trust"} /\ r.since = Never,
           r.mode = "force" /\ r.pc = "ok" /\ r.warned # TRUE => r.payload >= r.floor
    PROVE  Fits(r)
  <1>1. Before(r) \in Nat /\ Default \in Nat
    BY HostFacts DEF Before
  <1>2. Asked(r)
    BY <1>1 DEF Asked
  <1>3. Verified(r)
    BY DEF Verified
  <1>4. Forced(r)
    BY DEF Forced
  <1> QED
    BY <1>2, <1>3, <1>4 DEF Fits, LoadInv

\* The records a load ends with.
LEMMA EndFits ==
    ASSUME Inv, NEW p \in Procs
    PROVE  /\ Fits(Failed(p))
           /\ Fits([Over(p) EXCEPT !.pc = "killed"])
           /\ \A v \in Versions :
                 /\ Fits(Warned(p, v))
                 /\ (load[p].mode = "force" => v >= load[p].floor) => Fits(Ok(p, v))
  <1>1. load[p] \in LoadRecord /\ load[p].floor <= server[1].version
    BY DEF Inv, TypeInv, LoadInv
  <1>2. Idle \in LoadRecord
    BY HostFacts, BodyFacts DEF Idle, LoadRecord, Labels, Modes
  <1>3. Over(p) \in LoadRecord /\ Over(p).gets = 0 /\ Over(p).floor = load[p].floor
        /\ Over(p).since = Never /\ Over(p).mode = load[p].mode /\ Over(p).pc = "idle"
    BY <1>1, <1>2 DEF Over, LoadRecord, Idle
  <1>4. ASSUME NEW label \in {"failed", "killed"} PROVE Fits([Over(p) EXCEPT !.pc = label])
    <2>1. PICK r : r = [Over(p) EXCEPT !.pc = label]
      OBVIOUS
    <2>2. r \in LoadRecord
      BY <1>3, <2>1 DEF LoadRecord, Labels
    <2>3. r.pc = label /\ r.gets = 0 /\ r.floor = load[p].floor /\ r.since = Never
      BY <1>3, <2>1 DEF LoadRecord
    <2>4. Fits(r)
      BY <1>1, <2>2, <2>3, RestFits
    <2> QED
      BY <2>1, <2>4
  <1>5. ASSUME NEW v \in Versions PROVE Fits(Warned(p, v))
    <2>1. PICK r : r = Warned(p, v)
      OBVIOUS
    <2>2. r \in LoadRecord
      BY <1>3, <2>1, BodyFacts DEF LoadRecord, Labels, Warned, Ok
    <2>3. r.pc = "ok" /\ r.gets = 0 /\ r.floor = load[p].floor /\ r.since = Never
          /\ r.payload = v /\ r.warned = TRUE
      BY <1>3, <2>1 DEF LoadRecord, Warned, Ok
    <2>4. Fits(r)
      BY <1>1, <2>2, <2>3, RestFits DEF Good
    <2> QED
      BY <2>1, <2>4
  <1>6. ASSUME NEW v \in Versions, load[p].mode = "force" => v >= load[p].floor
        PROVE  Fits(Ok(p, v))
    <2>1. PICK r : r = Ok(p, v)
      OBVIOUS
    <2>2. r \in LoadRecord
      BY <1>3, <2>1, BodyFacts DEF LoadRecord, Labels, Ok
    <2>3. r.pc = "ok" /\ r.gets = 0 /\ r.floor = load[p].floor /\ r.since = Never
          /\ r.payload = v /\ r.mode = load[p].mode
      BY <1>3, <2>1 DEF LoadRecord, Ok
    <2>4. Fits(r)
      BY <1>1, <1>6, <2>2, <2>3, RestFits DEF Good
    <2> QED
      BY <2>1, <2>4
  <1> QED
    BY <1>4, <1>5, <1>6 DEF Failed

\* The records a load goes on with.
LEMMA MoveFits ==
    ASSUME Inv, NEW p \in Procs, NEW r \in LoadRecord,
           r.mode = load[p].mode, r.floor = load[p].floor, r.pc # "ok", Asked(r),
           r.pc = "store" => Good(r.body),
           r.mode = "force" =>
               /\ r.pc \notin {"usable", "trust", "touch", "reread"} /\ r.since = Never
               /\ r.pc \in {"verify", "store"} => r.body >= r.floor
    PROVE  Fits(r)
  <1>1. r.floor <= server[1].version
    BY DEF Inv, LoadInv
  <1>2. Verified(r)
    BY DEF Verified
  <1>3. Forced(r)
    BY DEF Forced
  <1> QED
    BY <1>1, <1>2, <1>3 DEF Fits, LoadInv

\* Going on to a label and nothing else.
LEMMA ToFits ==
    ASSUME Inv, NEW p \in Procs, NEW label \in Labels, label \notin {"ok", "verify"},
           label = "get" => load[p].gets <= Before(load[p]) + load[p].host - 1,
           label = "answer" => load[p].gets <= Before(load[p]) + load[p].host,
           label \in {"idle", "failed", "killed", "preserve", "usable", "trust", "clear"} =>
               load[p].gets = 0,
           label = "store" => Good(load[p].body) /\ load[p].pc = "verify",
           load[p].mode = "force" => label \notin {"usable", "trust", "touch", "reread"}
    PROVE  Fits(To(p, label))
  <1>1. load[p] \in LoadRecord /\ Asked(load[p]) /\ Forced(load[p])
    BY DEF Inv, TypeInv, LoadInv
  <1>2. PICK r : r = To(p, label)
    OBVIOUS
  <1>3. r \in LoadRecord
    BY <1>1, <1>2 DEF LoadRecord, To
  <1>4. /\ r.pc = label /\ r.gets = load[p].gets /\ r.retried = load[p].retried
        /\ r.host = load[p].host /\ r.mode = load[p].mode /\ r.floor = load[p].floor
        /\ r.since = load[p].since /\ r.body = load[p].body
    BY <1>1, <1>2 DEF LoadRecord, To
  <1>5. Before(r) = Before(load[p])
    BY <1>4 DEF Before
  <1>6. Asked(r)
    BY <1>1, <1>4, <1>5 DEF Asked
  <1>7. Fits(r)
    BY <1>1, <1>3, <1>4, <1>6, MoveFits DEF Forced
  <1> QED
    BY <1>2, <1>7

\* Numbers of requests at a place of the code.
LEMMA AskedFacts ==
    ASSUME Inv, NEW p \in Procs
    PROVE  /\ load[p] \in LoadRecord /\ LoadInv(load[p])
           /\ load[p].gets \in Nat /\ load[p].host \in Hosts /\ load[p].host \in Nat
           /\ 1 <= load[p].host /\ load[p].host <= Default
           /\ Before(load[p]) \in {0, Default} /\ Before(load[p]) \in Nat
           /\ load[p].gets <= Before(load[p]) + Default
  <1>1. load[p] \in LoadRecord /\ LoadInv(load[p])
    BY DEF Inv, TypeInv
  <1>2. load[p].gets \in Nat /\ load[p].host \in Hosts
    BY <1>1 DEF LoadRecord
  <1>3. load[p].gets <= Before(load[p]) + Default
    BY <1>1 DEF LoadInv, Asked
  <1> QED
    BY <1>1, <1>2, <1>3, HostFacts DEF Before

\* What a forced load cannot be at.
LEMMA ForcedFacts ==
    ASSUME Inv, NEW p \in Procs, load[p].mode = "force"
    PROVE  /\ load[p].pc \notin {"usable", "trust", "touch", "reread"} /\ load[p].since = Never
           /\ load[p].pc \in {"verify", "store"} => load[p].body >= load[p].floor
  <1>1. Forced(load[p])
    BY DEF Inv, LoadInv
  <1> QED
    BY <1>1 DEF Forced

-----------------------------------------------------------------------------
(* One lemma per step of a load.                                           *)

\* Most steps leave the file alone.
LEMMA CacheTyped ==
    ASSUME Inv
    PROVE  /\ cache \in CacheType /\ cache.body \in Contents
           /\ RemoveCache => cache' \in CacheType /\ seen' \subseteq Kinds
  <1>1. cache \in CacheType /\ cache.body \in Contents
    BY DEF Inv, TypeInv, CacheType
  <1>2. [body |-> Absent, mtime |-> 0] \in CacheType
    BY BodyFacts DEF CacheType
  <1> QED
    BY <1>1, <1>2, KindFacts DEF RemoveCache, Kinds

LEMMA PreserveInv == ASSUME Inv, NEW p \in Procs, Preserve(p) PROVE Inv'
  <1> DEFINE kept == [To(p, "get") EXCEPT !.keep = cache.body]
  <1>1. load[p].gets = 0 /\ load[p].gets <= Before(load[p]) + load[p].host - 1
    BY AskedFacts DEF Preserve, At, LoadInv, Asked
  <1>2. Fits(To(p, "get")) /\ Fits(To(p, "clear"))
    BY <1>1, ToFits DEF Preserve, At, Labels
  <1>3. ASSUME Good(cache.body) PROVE Fits(kept)
    <2>1. PICK r : r = kept
      OBVIOUS
    <2>2. r \in LoadRecord
      BY <1>2, <1>3, <2>1 DEF Fits, LoadRecord, Good
    <2>3. /\ r.pc = "get" /\ r.gets = load[p].gets /\ r.retried = load[p].retried
          /\ r.host = load[p].host /\ r.mode = load[p].mode /\ r.floor = load[p].floor
          /\ r.since = load[p].since
      BY AskedFacts, <2>1 DEF LoadRecord, To
    <2>4. Asked(r)
      BY AskedFacts, <1>1, <2>3, HostFacts DEF Asked, Before
    <2>5. Fits(r)
      BY AskedFacts, <2>2, <2>3, <2>4, MoveFits DEF LoadInv, Forced
    <2> QED
      BY <2>1, <2>5
  <1> QED
    BY <1>2, <1>3, ReadsFits DEF Preserve

LEMMA UsableInv == ASSUME Inv, NEW p \in Procs, Usable(p) PROVE Inv'
  <1>1. load[p].gets = 0 /\ load[p].gets <= Before(load[p]) + load[p].host - 1
        /\ load[p].mode # "force"
    <2>1. load[p].gets = 0
      BY AskedFacts DEF Usable, At, LoadInv, Asked
    <2> QED
      BY AskedFacts, ForcedFacts, <2>1 DEF Usable, At
  <1>2. Fits(To(p, "trust")) /\ Fits(To(p, "get"))
    BY <1>1, ToFits DEF Labels
  <1>3. \E r : Becomes(p, r) /\ Fits(r)
    BY <1>2 DEF Usable, Goto
  <1>4. cache' \in CacheType /\ seen' \subseteq Kinds /\ UNCHANGED world
    BY CacheTyped DEF Usable, Inv, TypeInv, Kinds
  <1> QED
    BY <1>3, <1>4, StepFits

LEMMA TrustInv == ASSUME Inv, NEW p \in Procs, Trust(p) PROVE Inv'
  <1> DEFINE cleared == [To(p, "clear") EXCEPT !.retried = TRUE]
  <1>1. load[p].gets = 0 /\ load[p].gets <= Before(load[p]) + load[p].host - 1
        /\ load[p].mode # "force"
    <2>1. load[p].gets = 0
      BY AskedFacts DEF Trust, At, LoadInv, Asked
    <2> QED
      BY AskedFacts, ForcedFacts, <2>1 DEF Trust, At
  <1>2. Fits(To(p, "get")) /\ Fits(To(p, "clear"))
    BY <1>1, ToFits DEF Labels
  <1>3. Fits(cleared)
    <2>1. PICK r : r = cleared
      OBVIOUS
    <2>2. r \in LoadRecord
      BY <1>2, <2>1 DEF Fits, LoadRecord
    <2>3. /\ r.pc = "clear" /\ r.gets = 0 /\ r.mode = load[p].mode /\ r.floor = load[p].floor
      BY AskedFacts, <1>1, <2>1 DEF LoadRecord, To
    <2>4. Fits(r)
      BY AskedFacts, <1>1, <2>2, <2>3, RestFits DEF LoadInv
    <2> QED
      BY <2>1, <2>4
  <1>4. Good(cache.body) => Fits(Ok(p, cache.body))
    BY <1>1, EndFits DEF Good
  <1> QED
    BY <1>2, <1>3, <1>4, ReadsFits DEF Trust

LEMMA ClearInv == ASSUME Inv, NEW p \in Procs, Clear(p) PROVE Inv'
  <1>1. load[p].gets <= Before(load[p]) + load[p].host - 1
    BY AskedFacts DEF Clear, At, LoadInv, Asked
  <1>2. Fits(To(p, "get"))
    BY <1>1, ToFits DEF Labels
  <1> QED
    BY <1>2, CacheTyped, StepFits DEF Clear, Goto

LEMMA GetInv == ASSUME Inv, NEW p \in Procs, Get(p) PROVE Inv'
  <1>1. PICK r : /\ Becomes(p, r)
                 /\ \E t \in {cache.mtime, Never} :
                       /\ r = [To(p, "answer") EXCEPT !.gets = @ + 1, !.since = t]
                       /\ load[p].mode = "force" => t = Never
    BY DEF Get
  <1>2. PICK t \in {cache.mtime, Never} :
            /\ r = [To(p, "answer") EXCEPT !.gets = @ + 1, !.since = t]
            /\ load[p].mode = "force" => t = Never
    BY <1>1
  <1>3. t \in 0 .. Never
    BY BodyFacts DEF Inv, TypeInv
  <1>4. r \in LoadRecord
    <2>1. load[p] \in LoadRecord /\ load[p].gets + 1 \in Nat
      BY AskedFacts
    <2>2. r = [load[p] EXCEPT !.pc = "answer", !.gets = load[p].gets + 1, !.since = t]
      BY <1>2, <2>1 DEF To, LoadRecord
    <2> QED
      BY <1>3, <2>1, <2>2 DEF LoadRecord, Labels
  <1>5. /\ r.pc = "answer" /\ r.gets = load[p].gets + 1 /\ r.retried = load[p].retried
        /\ r.host = load[p].host /\ r.mode = load[p].mode /\ r.floor = load[p].floor
        /\ r.since = t
    BY AskedFacts, <1>2 DEF LoadRecord, To
  <1>6. load[p].gets <= Before(load[p]) + load[p].host - 1
    BY AskedFacts DEF Get, At, LoadInv, Asked
  <1>7. Before(r) = Before(load[p])
    BY <1>5 DEF Before
  <1>8. Asked(r)
    BY AskedFacts, HostFacts, <1>5, <1>6, <1>7 DEF Asked
  <1>9. Fits(r)
    BY <1>2, <1>4, <1>5, <1>8, MoveFits
  <1>10. cache' \in CacheType /\ seen' \subseteq Kinds /\ UNCHANGED world
    BY CacheTyped DEF Get, Inv, TypeInv, Kinds
  <1> QED
    BY <1>1, <1>9, <1>10, StepFits

\* The versions a forced load may be answered with.
LEMMA FloorFacts ==
    ASSUME Inv, NEW p \in Procs
    PROVE  /\ load[p].floor \in Nat /\ load[p].floor <= Corrupt
           /\ \A h \in Hosts : /\ server[h].version \in Versions
                              /\ load[p].floor <= server[h].version
  <1>1. load[p].floor <= server[1].version /\ server[1].version <= server[Default].version
    BY AskedFacts DEF LoadInv, Inv, ServerInv
  <1>2. \A h \in Hosts : server[h].version \in Versions
    BY DEF Inv, TypeInv
  <1>3. load[p].floor \in Nat
    BY AskedFacts DEF LoadRecord
  <1>4. ASSUME NEW h \in Hosts PROVE load[p].floor <= server[h].version
    <2>1. server[1].version \in Nat /\ server[Default].version \in Nat
      BY <1>2, HostFacts, BodyFacts
    <2>2. load[p].floor <= server[Default].version
      BY <1>1, <1>3, <2>1
    <2>3. h = 1 \/ h = Default
      BY HostFacts
    <2> QED
      BY <1>1, <2>2, <2>3
  <1>5. load[p].floor <= Corrupt
    <2>1. server[1].version \in Nat /\ server[1].version <= Corrupt /\ Corrupt \in Nat
      BY <1>2, HostFacts, BodyFacts
    <2> QED
      BY <1>1, <1>3, <2>1
  <1> QED
    BY <1>2, <1>3, <1>4, <1>5

LEMMA AnsweredFits ==
    ASSUME Inv, NEW p \in Procs, NEW label \in {"touch", "verify", "fallback"},
           NEW body \in Contents, load[p].pc = "answer",
           label = "touch" => load[p].mode # "force",
           label = "verify" => body >= load[p].floor
    PROVE  Fits(Answered(p, label, body))
  <1>1. PICK r : r = Answered(p, label, body)
    OBVIOUS
  <1>2. r \in LoadRecord
    <2>1. load[p] \in LoadRecord /\ 1 \in Hosts /\ Never \in 0 .. Never
      BY AskedFacts, HostFacts, BodyFacts
    <2> QED
      BY <1>1, <2>1 DEF Answered, To, LoadRecord, Labels
  <1>3. /\ r.pc = label /\ r.gets = load[p].gets /\ r.retried = load[p].retried
        /\ r.host = 1 /\ r.mode = load[p].mode /\ r.floor = load[p].floor
        /\ r.since = Never /\ r.body = body
    BY AskedFacts, <1>1 DEF Answered, To, LoadRecord
  <1>4. Asked(r)
    BY AskedFacts, <1>3 DEF Asked, Before
  <1>5. Fits(r)
    BY <1>2, <1>3, <1>4, MoveFits
  <1> QED
    BY <1>1, <1>5

LEMMA OnErrorFits ==
    ASSUME Inv, NEW p \in Procs, OnError(p), load[p].pc = "answer"
    PROVE  \E r : Becomes(p, r) /\ Fits(r)
  <1>1. CASE load[p].host < Default
    <2>1. PICK r : r = [To(p, "get") EXCEPT !.host = Default, !.since = Never]
      OBVIOUS
    <2>2. r \in LoadRecord
      <3>1. load[p] \in LoadRecord /\ Default \in Hosts /\ Never \in 0 .. Never
        BY AskedFacts, HostFacts, BodyFacts
      <3> QED
        BY <2>1, <3>1 DEF To, LoadRecord, Labels
    <2>3. /\ r.pc = "get" /\ r.gets = load[p].gets /\ r.retried = load[p].retried
          /\ r.host = Default /\ r.mode = load[p].mode /\ r.floor = load[p].floor
          /\ r.since = Never
      BY AskedFacts, <2>1 DEF To, LoadRecord
    <2>4. load[p].gets <= Before(load[p]) + load[p].host
      BY AskedFacts DEF LoadInv, Asked
    <2>5. Before(r) = Before(load[p])
      BY <2>3 DEF Before
    <2>6. Asked(r)
      BY AskedFacts, HostFacts, <1>1, <2>3, <2>4, <2>5 DEF Asked
    <2>7. Fits(r)
      BY <2>2, <2>3, <2>6, MoveFits
    <2> QED
      BY <1>1, <2>1, <2>7 DEF OnError
  <1>2. CASE ~(load[p].host < Default)
    BY <1>2, AnsweredFits, BodyFacts DEF OnError
  <1> QED
    BY <1>1, <1>2

LEMMA AnswerInv == ASSUME Inv, NEW p \in Procs, Answer(p) PROVE Inv'
  <1> DEFINE version == server[load[p].host].version
  <1>1. load[p].pc = "answer" /\ version \in Versions /\ version >= load[p].floor
        /\ Corrupt >= load[p].floor
    BY AskedFacts, FloorFacts, BodyFacts DEF Answer, At
  <1>2. Fits(Answered(p, "verify", version)) /\ Fits(Answered(p, "verify", Corrupt))
    BY <1>1, AnsweredFits, BodyFacts
  <1>3. load[p].since # Never => Fits(Answered(p, "touch", Absent))
    BY <1>1, AnsweredFits, BodyFacts, ForcedFacts
  <1>4. \E r : Becomes(p, r) /\ Fits(r)
    BY <1>1, <1>2, <1>3, OnErrorFits DEF Answer
  <1>5. seen' \subseteq Kinds
    BY KindFacts DEF Answer, Kinds
  <1>6. cache' \in CacheType /\ UNCHANGED world
    BY CacheTyped DEF Answer
  <1> QED
    BY <1>4, <1>5, <1>6, StepFits

LEMMA TouchInv == ASSUME Inv, NEW p \in Procs, Touch(p) PROVE Inv'
  <1>1. Fits(Failed(p))
    BY EndFits
  <1>2. Fits(To(p, "reread"))
    BY ToFits, ForcedFacts DEF Touch, At, Labels
  <1>3. \E r : Becomes(p, r) /\ Fits(r)
    BY <1>1, <1>2 DEF Touch, Goto
  <1>4. cache' \in CacheType /\ UNCHANGED world
    BY CacheTyped, BodyFacts DEF Touch, CacheType, Inv, TypeInv, Never
  <1>5. seen' \subseteq Kinds
    BY KindFacts DEF Touch, Kinds
  <1> QED
    BY <1>3, <1>4, <1>5, StepFits

LEMMA RereadInv == ASSUME Inv, NEW p \in Procs, Reread(p) PROVE Inv'
  <1>1. load[p].mode # "force"
    BY ForcedFacts DEF Reread, At
  <1>2. Good(cache.body) => Fits(Ok(p, cache.body))
    BY <1>1, EndFits DEF Good
  <1>3. Fits(To(p, "drop"))
    BY ToFits DEF Labels
  <1> QED
    BY <1>2, <1>3, ReadsFits DEF Reread

\* Asking once more after a body that does not verify.
LEMMA AgainFits ==
    ASSUME Inv, NEW p \in Procs, load[p].retried # TRUE,
           NEW r \in {[To(p, "get") EXCEPT !.retried = TRUE, !.keep = Absent],
                      [To(p, "get") EXCEPT !.retried = TRUE, !.body = Absent]}
    PROVE  Fits(r)
  <1>1. r \in LoadRecord
    BY AskedFacts, BodyFacts DEF To, LoadRecord, Labels
  <1>2. /\ r.pc = "get" /\ r.gets = load[p].gets /\ r.retried = TRUE
        /\ r.host = load[p].host /\ r.mode = load[p].mode /\ r.floor = load[p].floor
        /\ r.since = load[p].since
    BY AskedFacts DEF To, LoadRecord
  <1>3. load[p].gets <= Default
    <2>1. Before(load[p]) = 0
      BY DEF Before
    <2> QED
      BY AskedFacts, HostFacts, <2>1
  <1>4. Asked(r)
    <2>1. Before(r) = Default
      BY <1>2 DEF Before
    <2> QED
      BY AskedFacts, HostFacts, <1>2, <1>3, <2>1 DEF Asked
  <1> QED
    BY <1>1, <1>2, <1>4, MoveFits, ForcedFacts

LEMMA DropInv == ASSUME Inv, NEW p \in Procs, Drop(p) PROVE Inv'
  <1>1. \E r : Becomes(p, r) /\ Fits(r)
    BY EndFits, AgainFits DEF Drop
  <1>2. UNCHANGED world
    BY DEF Drop
  <1> QED
    BY <1>1, <1>2, CacheTyped, StepFits DEF Drop

LEMMA VerifyInv == ASSUME Inv, NEW p \in Procs, Verify(p) PROVE Inv'
  <1>1. Good(load[p].body) => Fits(To(p, "store"))
    <2>1. PICK r : r = To(p, "store")
      OBVIOUS
    <2> QED
      BY ToFits DEF Verify, At, Labels
  <1>2. Fits(To(p, "judge"))
    BY ToFits DEF Labels
  <1>3. \E r : Becomes(p, r) /\ Fits(r)
    BY <1>1, <1>2, AgainFits DEF Verify
  <1>4. cache' \in CacheType /\ seen' \subseteq Kinds /\ UNCHANGED world
    BY CacheTyped DEF Verify, Inv, TypeInv, Kinds
  <1> QED
    BY <1>3, <1>4, StepFits

LEMMA StoreInv == ASSUME Inv, NEW p \in Procs, Store(p) PROVE Inv'
  <1>1. Good(load[p].body) /\ (load[p].mode = "force" => load[p].body >= load[p].floor)
    BY AskedFacts, ForcedFacts DEF Store, At, LoadInv, Verified
  <1>2. Fits(Failed(p)) /\ Fits(Ok(p, load[p].body))
    BY <1>1, EndFits DEF Good
  <1>3. \E r : Becomes(p, r) /\ Fits(r)
    BY <1>2 DEF Store
  <1>4. cache' \in CacheType /\ UNCHANGED world
    <2>1. load[p].body \in Contents /\ clock \in 0 .. Never
      BY AskedFacts, BodyFacts DEF LoadRecord, Inv, TypeInv, Never
    <2>2. [body |-> load[p].body, mtime |-> clock] \in CacheType
      BY <2>1 DEF CacheType
    <2> QED
      BY <2>2, CacheTyped DEF Store
  <1>5. seen' \subseteq Kinds
    BY KindFacts DEF Store, Kinds
  <1> QED
    BY <1>3, <1>4, <1>5, StepFits

LEMMA JudgeInv == ASSUME Inv, NEW p \in Procs, Judge(p) PROVE Inv'
  <1>1. Fits(Failed(p)) /\ Fits(To(p, "abandon"))
    BY EndFits, ToFits DEF Labels
  <1> QED
    BY <1>1, ReadsFits DEF Judge

LEMMA FallbackInv == ASSUME Inv, NEW p \in Procs, Fallback(p) PROVE Inv'
  <1>1. Fits(To(p, "abandon")) /\ (Good(cache.body) => Fits(Warned(p, cache.body)))
    BY EndFits, ToFits DEF Labels, Good
  <1>2. CASE load[p].keep = Absent
    BY <1>1, <1>2, ReadsFits DEF Fallback
  <1>3. CASE load[p].keep # Absent
    <2>1. load[p].keep \in Versions
      BY <1>3, AskedFacts DEF LoadRecord
    <2>2. cache' \in CacheType /\ seen' \subseteq Kinds /\ UNCHANGED world
      BY <1>3, CacheTyped DEF Fallback, Inv, TypeInv, Kinds
    <2> QED
      BY <1>3, <2>1, <2>2, EndFits, StepFits DEF Fallback
  <1> QED
    BY <1>2, <1>3

LEMMA AbandonInv == ASSUME Inv, NEW p \in Procs, Abandon(p) PROVE Inv'
  BY EndFits, CacheTyped, StepFits DEF Abandon

-----------------------------------------------------------------------------
(* The invariant.                                                          *)

LEMMA BeginInv == ASSUME Inv, NEW p \in Procs, Begin(p) PROVE Inv'
  <1>1. PICK mode \in Modes :
            Becomes(p, [Idle EXCEPT !.mode = mode, !.floor = server[1].version,
                                    !.pc = IF mode = "force" THEN "preserve" ELSE "usable"])
    BY DEF Begin, Becomes
  <1>2. PICK r : r = [Idle EXCEPT !.mode = mode, !.floor = server[1].version,
                                  !.pc = IF mode = "force" THEN "preserve" ELSE "usable"]
    OBVIOUS
  <1>3. server[1].version \in Nat
    BY HostFacts, BodyFacts DEF Inv, TypeInv
  <1>4. Idle \in LoadRecord
    BY HostFacts, BodyFacts DEF Idle, LoadRecord, Labels, Modes
  <1>5. r \in LoadRecord
    BY <1>2, <1>3, <1>4 DEF LoadRecord, Labels
  <1>6. /\ r.gets = 0 /\ r.floor = server[1].version /\ r.mode = mode /\ r.since = Never
        /\ r.pc = IF mode = "force" THEN "preserve" ELSE "usable"
    BY <1>2 DEF Idle
  <1>7. Fits(r)
    <2>1. r.floor <= server[1].version
      BY <1>3, <1>6
    <2>2. r.pc \in {"preserve", "usable"} /\ (r.mode = "force" => r.pc = "preserve")
      BY <1>6
    <2> QED
      BY <1>5, <1>6, <2>1, <2>2, RestFits
  <1>8. load' \in [Procs -> LoadRecord]
    BY <1>1, <1>2, <1>5, OneLoad DEF Inv
  <1>9. TypeInv'
    BY <1>8 DEF Inv, TypeInv, Begin
  <1>10. ASSUME NEW q \in Procs PROVE LoadInv(load[q])'
    <2>1. LoadInv(load'[q])
      BY <1>1, <1>2, <1>7, OneLoad DEF Inv, Fits
    <2> QED
      BY <2>1 DEF LoadInv, Verified, Asked, Forced, Begin
  <1> QED
    BY <1>9, <1>10 DEF Inv, ServerInv, Begin

LEMMA KillInv == ASSUME Inv, NEW p \in Procs, Kill(p) PROVE Inv'
  <1>1. cache' \in CacheType /\ seen' \subseteq Kinds
    BY CacheTyped DEF Kill, Inv, TypeInv, Kinds
  <1> QED
    BY <1>1, EndFits, StepFits DEF Kill

\* Versions of the first host only grow.
LEMMA ServerStep ==
    ASSUME Inv, UNCHANGED load, TypeInv', ServerInv', server[1].version <= server'[1].version
    PROVE  Inv'
  <1>1. ASSUME NEW p \in Procs PROVE LoadInv(load[p])'
    <2>1. /\ load[p].floor \in Nat /\ load[p].floor <= server[1].version
          /\ server[1].version \in Nat /\ server'[1].version \in Nat
      BY AskedFacts, HostFacts, BodyFacts DEF LoadRecord, LoadInv, Inv, TypeInv
    <2>2. load[p].floor <= server'[1].version
      BY <2>1
    <2>3. LoadInv(load[p])
      BY DEF Inv
    <2> QED
      BY <2>2, <2>3 DEF LoadInv, Verified, Asked, Forced
  <1> QED
    BY <1>1 DEF Inv

LEMMA PublishInv == ASSUME Inv, Publish PROVE Inv'
  <1>1. server[Default].version \in Versions /\ server[Default].version \in Nat
        /\ server[1].version \in Nat
    BY HostFacts, BodyFacts DEF Inv, TypeInv
  <1>2. server[Default].version + 1 \in Versions
    BY <1>1, CatalogAssumption DEF Publish, Versions
  <1>3. clock \in Nat
    BY CatalogAssumption DEF Inv, TypeInv
  <1>4. TypeInv'
    BY <1>2, <1>3, HostFacts DEF Inv, TypeInv, Publish
  <1>5. /\ server'[Default].version = server[Default].version + 1
        /\ Default # 1 => server'[1].version = server[1].version
    BY HostFacts DEF Inv, TypeInv, Publish
  <1>6. ServerInv' /\ server[1].version <= server'[1].version
    BY <1>1, <1>5 DEF Inv, ServerInv
  <1> QED
    BY <1>4, <1>6, ServerStep DEF Publish

LEMMA SyncInv == ASSUME Inv, Sync PROVE Inv'
  <1>1. server[Default].version \in Versions /\ server[Default].version \in Nat
        /\ server[1].version \in Nat
    BY HostFacts, BodyFacts DEF Inv, TypeInv
  <1>2. clock \in Nat /\ Default # 1
    BY <1>1, CatalogAssumption DEF Inv, TypeInv, Sync
  <1>3. TypeInv'
    BY <1>1, <1>2, HostFacts DEF Inv, TypeInv, Sync
  <1>4. /\ server'[1].version = server[Default].version
        /\ server'[Default].version = server[Default].version
    BY <1>2, HostFacts DEF Inv, TypeInv, Sync
  <1>5. ServerInv' /\ server[1].version <= server'[1].version
    BY <1>1, <1>4 DEF Inv, ServerInv
  <1> QED
    BY <1>3, <1>5, ServerStep DEF Sync

LEMMA InitInv == Init => Inv
  <1> SUFFICES ASSUME Init PROVE Inv
    OBVIOUS
  <1>1. Idle \in LoadRecord /\ Idle.gets = 0 /\ Idle.floor = 0 /\ Idle.pc = "idle"
        /\ Idle.mode = "normal"
    BY HostFacts, BodyFacts DEF Idle, LoadRecord, Labels, Modes
  <1>2. cache \in CacheType /\ seed \in Contents
    BY BodyFacts DEF Init, CacheType, Never
  <1>3. server[1].version = 1 /\ server[Default].version = 1
    BY HostFacts DEF Init
  <1>4. Fits(Idle)
    <2>1. Idle.floor <= server[1].version
      BY <1>1, <1>3
    <2> QED
      BY <1>1, <2>1, RestFits
  <1>5. TypeInv
    BY <1>1, <1>2, BodyFacts, CatalogAssumption DEF Init, TypeInv, CacheType
  <1> QED
    BY <1>3, <1>4, <1>5 DEF Inv, ServerInv, Init, Fits

LEMMA StepInv == Inv /\ [Next]_vars => Inv'
  <1> SUFFICES ASSUME Inv, [Next]_vars PROVE Inv'
    OBVIOUS
  <1>1. ASSUME NEW p \in Procs, Step(p) PROVE Inv'
    BY <1>1, PreserveInv, UsableInv, TrustInv, ClearInv, GetInv, AnswerInv, TouchInv, RereadInv,
       DropInv, VerifyInv, StoreInv, JudgeInv, FallbackInv, AbandonInv DEF Step
  <1>2. CASE Tick
    <2>1. TypeInv'
      BY <1>2, CatalogAssumption DEF Inv, TypeInv, Tick
    <2> QED
      BY <1>2, <2>1 DEF Inv, ServerInv, LoadInv, Verified, Asked, Forced, Tick
  <1>3. CASE Prune
    <2>1. seen' \subseteq Kinds
      BY <1>3, KindFacts DEF Prune, Kinds
    <2>2. TypeInv'
      BY <1>3, <2>1, BodyFacts DEF Inv, TypeInv, Prune, world, Kinds
    <2> QED
      BY <1>3, <2>2 DEF Inv, ServerInv, LoadInv, Verified, Asked, Forced, Prune, world
  <1>4. CASE UNCHANGED vars
    BY <1>4 DEF vars, Inv, TypeInv, ServerInv, LoadInv, Verified, Asked, Forced
  <1> QED
    BY <1>1, <1>2, <1>3, <1>4, BeginInv, KillInv, PublishInv, SyncInv DEF Next

LEMMA Invariant == Spec => []Inv
  <1> QED
    BY InitInv, StepInv, PTL DEF Spec

-----------------------------------------------------------------------------
(* Theorems.                                                               *)

\* Types, and that a load that succeeds returns a verified catalog.
THEOREM Typed == Spec => []TypeOK
  <1>1. Inv => TypeOK
    <2> SUFFICES ASSUME Inv PROVE TypeOK
      OBVIOUS
    <2>1. ASSUME NEW p \in Procs
          PROVE  /\ load[p].host \in Hosts /\ load[p].keep \in {Absent} \cup Versions
                 /\ At(p, "ok") => Good(load[p].payload)
      BY AskedFacts DEF LoadRecord, LoadInv, Verified, At
    <2> QED
      BY <2>1 DEF TypeOK, Inv, TypeInv, Contents
  <1> QED
    BY <1>1, Invariant, PTL

\* A forced load that does not warn brings what its server had when it began: it never
\* asks conditionally, so it is never answered with what the cache holds.
THEOREM Current == Spec => []ForceIsCurrent
  <1>1. Inv => ForceIsCurrent
    <2> SUFFICES ASSUME Inv, NEW p \in Procs, At(p, "ok"), load[p].mode = "force",
                        ~load[p].warned
                 PROVE  load[p].payload >= load[p].floor
      BY DEF ForceIsCurrent
    <2>1. Forced(load[p])
      BY DEF Inv, LoadInv
    <2> QED
      BY <2>1 DEF Forced, At
  <1> QED
    BY <1>1, Invariant, PTL

\* No load asks more than twice per host, whatever the answers.
THEOREM Bounded == Spec => []AsksTwice
  <1>1. Inv => AsksTwice
    BY AskedFacts, HostFacts DEF AsksTwice
  <1> QED
    BY <1>1, Invariant, PTL

\* No step of anybody puts an unverified body where there was none.
THEOREM Honest == Spec => CacheHonest
  <1>1. Inv /\ [Next]_vars => [cache'.body = Corrupt => cache.body = Corrupt]_vars
    <2> SUFFICES ASSUME Inv, Next, cache'.body = Corrupt PROVE cache.body = Corrupt
      OBVIOUS
    <2>1. ASSUME NEW p \in Procs, Store(p) PROVE cache.body = Corrupt
      <3>1. load[p].body # Corrupt
        BY <2>1, AskedFacts, BodyFacts DEF Store, At, LoadInv, Verified, Good
      <3> QED
        BY <2>1, <3>1 DEF Store
    <2>2. ASSUME NEW p \in Procs, Touch(p) PROVE cache.body = Corrupt
      BY <2>2 DEF Touch, Inv, TypeInv
    <2>3. ASSUME RemoveCache PROVE cache.body = Corrupt
      BY <2>3, BodyFacts DEF RemoveCache
    <2>4. ASSUME NEW p \in Procs, Step(p), ~Store(p), ~Touch(p), ~RemoveCache PROVE UNCHANGED cache
      BY <2>4 DEF Step, Preserve, Usable, Trust, Clear, Get, Answer, Reread, Drop, Verify, Judge,
                  Fallback, Abandon, Reads
    <2>5. ASSUME NEW p \in Procs, Begin(p) \/ Kill(p) PROVE UNCHANGED cache
      BY <2>5 DEF Begin, Kill
    <2>6. Tick \/ Publish \/ Sync => UNCHANGED cache
      BY DEF Tick, Publish, Sync
    <2>7. ~Prune
      BY BodyFacts DEF Prune
    <2> QED
      BY <2>1, <2>2, <2>3, <2>4, <2>5, <2>6, <2>7 DEF Next
  <1> QED
    BY <1>1, Invariant, PTL DEF Spec, CacheHonest

-----------------------------------------------------------------------------
(* The verified copy that was there at first.                              *)

Losing == {"clear", "drop", "abandon"}
Losers == {"failed", "judge"}

\* While files can be read and nobody prunes, nobody is about to remove the copy.
Calm == Good(seed) /\ seen \cap {"io", "prune"} = {}
KeptInv == Calm => Good(cache.body) /\ \A p \in Procs : load[p].pc \notin Losing

\* While the network only fails, every answer verifies and nobody gives up.
Honesty == Good(seed) /\ seen \subseteq {"network"}
Well(l) == l.pc \notin Losers /\ (l.pc = "verify" => Good(l.body))
OfflineInv == Honesty => \A p \in Procs : Well(load[p])

\* What trouble there was is not forgotten.
LEMMA TroubleStays ==
    ASSUME Next
    PROVE  /\ seed' = seed /\ seen \subseteq seen'
           /\ Calm' => Calm
           /\ Honesty' => Honesty /\ Calm'
  <1>1. ASSUME NEW p \in Procs, Begin(p) \/ Step(p) \/ Kill(p)
        PROVE  seed' = seed /\ seen \subseteq seen'
    <2>1. CASE Begin(p) \/ Kill(p)
      BY <2>1 DEF Begin, Kill, world
    <2>2. CASE Step(p)
      BY <2>2 DEF Step, Preserve, Usable, Trust, Clear, Get, Answer, Touch, Reread, Drop, Verify,
                  Store, Judge, Fallback, Abandon, Reads, RemoveCache, Fine, Trouble, world
    <2> QED
      BY <1>1, <2>1, <2>2
  <1>2. ASSUME Tick \/ Publish \/ Sync \/ Prune PROVE seed' = seed /\ seen \subseteq seen'
    BY <1>2 DEF Tick, Publish, Sync, Prune, Trouble, world
  <1>3. seed' = seed /\ seen \subseteq seen'
    BY <1>1, <1>2 DEF Next
  <1> QED
    BY <1>3 DEF Calm, Honesty, Good

\* The labels of the records a load may go on with.
LEMMA LabelFacts ==
    ASSUME Inv, NEW p \in Procs
    PROVE  /\ \A label \in Labels :
                 /\ To(p, label).pc = label /\ To(p, label).body = load[p].body
                 /\ \A body : /\ Answered(p, label, body).pc = label
                              /\ Answered(p, label, body).body = body
           /\ \A keep : [To(p, "get") EXCEPT !.keep = keep].pc = "get"
           /\ [To(p, "clear") EXCEPT !.retried = TRUE].pc = "clear"
           /\ \A since, n : [To(p, "answer") EXCEPT !.gets = n, !.since = since].pc = "answer"
           /\ \A host : [To(p, "get") EXCEPT !.host = host, !.since = Never].pc = "get"
           /\ [To(p, "get") EXCEPT !.retried = TRUE, !.keep = Absent].pc = "get"
           /\ [To(p, "get") EXCEPT !.retried = TRUE, !.body = Absent].pc = "get"
           /\ Failed(p).pc = "failed" /\ [Over(p) EXCEPT !.pc = "killed"].pc = "killed"
           /\ \A body : Ok(p, body).pc = "ok" /\ Warned(p, body).pc = "ok"
  <1>1. load[p] \in LoadRecord
    BY AskedFacts
  <1>2. \A label \in Labels : To(p, label) \in LoadRecord /\ To(p, label).pc = label
                              /\ To(p, label).body = load[p].body
    BY <1>1 DEF To, LoadRecord
  <1>3. \A label \in Labels : \A body : /\ Answered(p, label, body).pc = label
                                        /\ Answered(p, label, body).body = body
    BY <1>1 DEF To, LoadRecord, Answered
  <1>4. /\ \A keep : [To(p, "get") EXCEPT !.keep = keep].pc = "get"
        /\ [To(p, "clear") EXCEPT !.retried = TRUE].pc = "clear"
        /\ \A since, n : [To(p, "answer") EXCEPT !.gets = n, !.since = since].pc = "answer"
        /\ \A host : [To(p, "get") EXCEPT !.host = host, !.since = Never].pc = "get"
        /\ [To(p, "get") EXCEPT !.retried = TRUE, !.keep = Absent].pc = "get"
        /\ [To(p, "get") EXCEPT !.retried = TRUE, !.body = Absent].pc = "get"
    BY <1>1 DEF To, LoadRecord
  <1>5. /\ Failed(p).pc = "failed" /\ [Over(p) EXCEPT !.pc = "killed"].pc = "killed"
        /\ \A body : Ok(p, body).pc = "ok" /\ Warned(p, body).pc = "ok"
    BY DEF Failed, Over, Ok, Warned, Idle
  <1> QED
    BY <1>2, <1>3, <1>4, <1>5

\* A verified copy that can be read is what is read.
LEMMA ReadsKept ==
    ASSUME Inv, NEW p \in Procs, NEW good, NEW none, NEW bad, Reads(p, good, none, bad),
           Good(cache.body), "io" \notin seen'
    PROVE  Becomes(p, good) /\ cache' = cache
  <1>1. cache.body # Absent /\ cache.body # Corrupt
    BY BodyFacts DEF Good
  <1>2. ~Trouble("io")
    BY DEF Trouble
  <1> QED
    BY <1>1, <1>2 DEF Reads

LEMMA KeptStep ==
    ASSUME Inv, Good(cache.body), seen' \cap {"io", "prune"} = {}, NEW p \in Procs, Step(p),
           load[p].pc \notin Losing
    PROVE  Good(cache'.body) /\ \E r : Becomes(p, r) /\ r.pc \notin Losing
  <1> DEFINE Keeps(r) == Becomes(p, r) /\ r.pc \notin Losing
  <1>0. /\ "io" \notin seen' /\ ~Trouble("io")
        /\ ~Clear(p) /\ ~Drop(p) /\ ~Abandon(p)
    BY DEF Trouble, Clear, Drop, Abandon, At, Losing
  <1>1. CASE Preserve(p)
    BY <1>0, <1>1, ReadsKept, LabelFacts DEF Preserve, Losing
  <1>2. CASE Usable(p)
    BY <1>2, LabelFacts DEF Usable, Goto, Losing, Labels
  <1>3. CASE Trust(p)
    BY <1>0, <1>3, ReadsKept, LabelFacts DEF Trust, Losing
  <1>4. CASE Get(p)
    <2>1. \A t : [To(p, "answer") EXCEPT !.gets = @ + 1, !.since = t].pc \notin Losing
      BY AskedFacts DEF To, LoadRecord, Losing
    <2> QED
      BY <1>4, <2>1 DEF Get
  <1>5. CASE Answer(p)
    <2>1. Answered(p, "touch", Absent).pc \notin Losing
          /\ \A body : Answered(p, "verify", body).pc \notin Losing
          /\ Answered(p, "fallback", Absent).pc \notin Losing
          /\ [To(p, "get") EXCEPT !.host = Default, !.since = Never].pc \notin Losing
      BY LabelFacts DEF Labels, Losing
    <2> QED
      BY <1>5, <2>1 DEF Answer, OnError
  <1>6. CASE Touch(p)
    <2>1. To(p, "reread").pc \notin Losing /\ Failed(p).pc \notin Losing
      BY LabelFacts DEF Losing, Labels
    <2>2. \A t : [cache EXCEPT !.mtime = t].body = cache.body
      BY DEF Inv, TypeInv
    <2> QED
      BY <1>0, <1>6, <2>1, <2>2 DEF Touch, Goto, Good
  <1>7. CASE Reread(p)
    BY <1>0, <1>7, ReadsKept, LabelFacts DEF Reread, Losing
  <1>8. CASE Verify(p)
    <2>1. /\ To(p, "store").pc \notin Losing /\ To(p, "judge").pc \notin Losing
          /\ [To(p, "get") EXCEPT !.retried = TRUE, !.body = Absent].pc \notin Losing
      BY LabelFacts DEF Losing, Labels
    <2> QED
      BY <1>8, <2>1 DEF Verify
  <1>9. CASE Store(p)
    <2>1. Good(load[p].body)
      BY <1>9, AskedFacts DEF Store, At, LoadInv, Verified
    <2> QED
      BY <1>0, <1>9, <2>1, LabelFacts DEF Store, Losing
  <1>10. CASE Judge(p)
    BY <1>0, <1>10, ReadsKept, LabelFacts DEF Judge, Losing
  <1>11. CASE Fallback(p)
    <2>1. Warned(p, load[p].keep).pc \notin Losing /\ Warned(p, cache.body).pc \notin Losing
      BY LabelFacts DEF Losing
    <2>2. CASE load[p].keep = Absent
      BY <1>0, <1>11, <2>1, <2>2, ReadsKept DEF Fallback
    <2>3. CASE load[p].keep # Absent
      BY <1>11, <2>1, <2>3 DEF Fallback
    <2> QED
      BY <2>2, <2>3
  <1> QED
    BY <1>0, <1>1, <1>2, <1>3, <1>4, <1>5, <1>6, <1>7, <1>8, <1>9, <1>10, <1>11 DEF Step

LEMMA BeginLabel ==
    ASSUME Inv, NEW p \in Procs, Begin(p)
    PROVE  \E r : Becomes(p, r) /\ r.pc \in {"preserve", "usable"}
  <1>1. PICK mode \in Modes :
            Becomes(p, [Idle EXCEPT !.mode = mode, !.floor = server[1].version,
                                    !.pc = IF mode = "force" THEN "preserve" ELSE "usable"])
    BY DEF Begin, Becomes
  <1>2. [Idle EXCEPT !.mode = mode, !.floor = server[1].version,
                     !.pc = IF mode = "force" THEN "preserve" ELSE "usable"].pc
           \in {"preserve", "usable"}
    BY DEF Idle
  <1> QED
    BY <1>1, <1>2

LEMMA KeptNext == Inv /\ KeptInv /\ [Next]_vars => KeptInv'
  <1> DEFINE Safe == Good(cache.body) /\ \A q \in Procs : load[q].pc \notin Losing
  <1> SUFFICES ASSUME Inv, KeptInv, [Next]_vars, Calm' PROVE Safe'
    BY DEF KeptInv
  <1>1. CASE UNCHANGED vars
    BY <1>1 DEF vars, KeptInv, Calm, Good, Losing
  <1>2. CASE Next
    <2>1. Safe /\ seen' \cap {"io", "prune"} = {}
      BY <1>2, TroubleStays DEF KeptInv, Calm
    <2>2. ASSUME NEW p \in Procs, NEW r, Becomes(p, r), r.pc \notin Losing, Good(cache'.body)
          PROVE  Safe'
      <3>1. \A q \in Procs : load'[q].pc \notin Losing
        BY <2>1, <2>2, OneLoad DEF Inv
      <3> QED
        BY <2>2, <3>1 DEF Good, Losing
    <2>3. ASSUME NEW p \in Procs, Begin(p) PROVE Safe'
      <3>1. PICK r : Becomes(p, r) /\ r.pc \notin Losing
        BY <2>3, BeginLabel DEF Losing
      <3> QED
        BY <2>1, <2>2, <2>3, <3>1 DEF Begin
    <2>4. ASSUME NEW p \in Procs, Kill(p) PROVE Safe'
      <3>1. [Over(p) EXCEPT !.pc = "killed"].pc \notin Losing
        BY LabelFacts DEF Losing
      <3> QED
        BY <2>1, <2>2, <2>4, <3>1 DEF Kill
    <2>5. ASSUME NEW p \in Procs, Step(p) PROVE Safe'
      <3>1. PICK r : Good(cache'.body) /\ Becomes(p, r) /\ r.pc \notin Losing
        BY <2>1, <2>5, KeptStep
      <3> QED
        BY <2>2, <3>1
    <2>6. ASSUME Tick \/ Publish \/ Sync PROVE Safe'
      BY <2>1, <2>6 DEF Tick, Publish, Sync, Good, Losing
    <2>7. ~Prune
      BY <2>1 DEF Prune, Trouble
    <2> QED
      BY <1>2, <2>3, <2>4, <2>5, <2>6, <2>7 DEF Next
  <1> QED
    BY <1>1, <1>2

LEMMA OfflineStep ==
    ASSUME Inv, Good(cache.body), seen' \subseteq {"network"}, NEW p \in Procs, Step(p),
           load[p].pc \notin Losing, Well(load[p])
    PROVE  \E r : Becomes(p, r) /\ Well(r)
  <1>0. /\ "io" \notin seen' /\ ~Trouble("io") /\ ~Trouble("body")
        /\ ~Clear(p) /\ ~Drop(p) /\ ~Abandon(p) /\ ~Judge(p)
    BY DEF Trouble, Clear, Drop, Abandon, Judge, At, Losing, Losers, Well
  <1>p. \A r : r.pc \in {"ok", "get", "trust", "answer", "touch", "reread", "store", "fallback"} =>
                   Well(r)
    BY DEF Losers, Well
  <1>1. CASE Preserve(p)
    <2>1. Well([To(p, "get") EXCEPT !.keep = cache.body])
      BY LabelFacts DEF Well, Losers
    <2> QED
      BY <1>0, <1>1, <2>1, ReadsKept DEF Preserve
  <1>2. CASE Usable(p)
    <2>1. Well(To(p, "trust")) /\ Well(To(p, "get"))
      BY <1>p, LabelFacts DEF Labels
    <2> QED
      BY <1>2, <2>1 DEF Usable, Goto
  <1>3. CASE Trust(p)
    BY <1>0, <1>3, <1>p, ReadsKept, LabelFacts DEF Trust
  <1>4. CASE Get(p)
    <2>1. \A t : Well([To(p, "answer") EXCEPT !.gets = @ + 1, !.since = t])
      <3>1. \A t : [To(p, "answer") EXCEPT !.gets = @ + 1, !.since = t].pc = "answer"
        BY AskedFacts DEF To, LoadRecord
      <3> QED
        BY <3>1 DEF Well, Losers
    <2> QED
      BY <1>4, <2>1 DEF Get
  <1>5. CASE Answer(p)
    <2>1. Well(Answered(p, "touch", Absent)) /\ Well(Answered(p, "fallback", Absent))
          /\ Well([To(p, "get") EXCEPT !.host = Default, !.since = Never])
      BY LabelFacts DEF Labels, Well, Losers
    <2>2. Good(server[load[p].host].version)
      BY AskedFacts, FloorFacts DEF Good
    <2>3. Well(Answered(p, "verify", server[load[p].host].version))
      BY <2>2, LabelFacts DEF Labels, Losers, Well
    <2> QED
      BY <1>0, <1>5, <2>1, <2>3 DEF Answer, OnError
  <1>6. CASE Touch(p)
    <2>1. Well(To(p, "reread"))
      BY <1>p, LabelFacts DEF Labels
    <2>2. cache.body # Absent
      BY BodyFacts DEF Good
    <2> QED
      BY <1>0, <1>6, <2>1, <2>2 DEF Touch, Goto
  <1>7. CASE Reread(p)
    BY <1>0, <1>7, <1>p, ReadsKept, LabelFacts DEF Reread
  <1>8. CASE Verify(p)
    <2>1. Well(To(p, "store"))
      BY <1>p, LabelFacts DEF Labels
    <2>2. Good(load[p].body)
      BY <1>8 DEF Verify, At, Well
    <2> QED
      BY <1>8, <2>1, <2>2 DEF Verify
  <1>9. CASE Store(p)
    BY <1>0, <1>9, <1>p, LabelFacts DEF Store
  <1>11. CASE Fallback(p)
    <2>1. Well(Warned(p, load[p].keep)) /\ Well(Warned(p, cache.body))
      BY <1>p, LabelFacts
    <2>2. CASE load[p].keep = Absent
      BY <1>0, <1>11, <2>1, <2>2, ReadsKept DEF Fallback
    <2>3. CASE load[p].keep # Absent
      BY <1>11, <2>1, <2>3 DEF Fallback
    <2> QED
      BY <2>2, <2>3
  <1> QED
    BY <1>0, <1>1, <1>2, <1>3, <1>4, <1>5, <1>6, <1>7, <1>8, <1>9, <1>11 DEF Step

LEMMA OfflineNext == Inv /\ KeptInv /\ OfflineInv /\ [Next]_vars => OfflineInv'
  <1> DEFINE AllWell == \A q \in Procs : Well(load[q])
  <1> SUFFICES ASSUME Inv, KeptInv, OfflineInv, [Next]_vars, Honesty' PROVE AllWell'
    BY DEF OfflineInv, Well, Good, Losers
  <1>1. CASE UNCHANGED vars
    BY <1>1 DEF vars, OfflineInv, Honesty, Well, Good, Losers
  <1>2. CASE Next
    <2>1. /\ AllWell /\ seen' \subseteq {"network"} /\ Good(cache.body)
          /\ \A q \in Procs : load[q].pc \notin Losing
      <3>1. Honesty /\ Calm /\ seen' \subseteq {"network"}
        BY <1>2, TroubleStays DEF Honesty
      <3> QED
        BY <3>1 DEF KeptInv, OfflineInv
    <2>2. ASSUME NEW p \in Procs, NEW r, Becomes(p, r), Well(r) PROVE AllWell'
      <3>1. \A q \in Procs : load'[q] = r \/ load'[q] = load[q]
        BY <2>2, OneLoad DEF Inv
      <3>2. \A q \in Procs : Well(load'[q])
        BY <2>1, <2>2, <3>1
      <3> QED
        BY <3>2 DEF Well, Good, Losers
    <2>3. ASSUME NEW p \in Procs, Begin(p) PROVE AllWell'
      <3>1. PICK r : Becomes(p, r) /\ r.pc \in {"preserve", "usable"}
        BY <2>3, BeginLabel
      <3>2. Well(r)
        BY <3>1 DEF Well, Losers
      <3> QED
        BY <2>2, <3>1, <3>2
    <2>4. ASSUME NEW p \in Procs, Kill(p) PROVE AllWell'
      <3>1. Well([Over(p) EXCEPT !.pc = "killed"])
        BY LabelFacts DEF Well, Losers
      <3> QED
        BY <2>2, <2>4, <3>1 DEF Kill
    <2>5. ASSUME NEW p \in Procs, Step(p) PROVE AllWell'
      <3>1. PICK r : Becomes(p, r) /\ Well(r)
        BY <2>1, <2>5, OfflineStep
      <3> QED
        BY <2>2, <3>1
    <2>6. ASSUME Tick \/ Publish \/ Sync \/ Prune PROVE AllWell'
      BY <2>1, <2>6 DEF Tick, Publish, Sync, Prune, Well, Good, Losers
    <2> QED
      BY <1>2, <2>3, <2>4, <2>5, <2>6 DEF Next
  <1> QED
    BY <1>1, <1>2

LEMMA KeptInvariant == Spec => [](KeptInv /\ OfflineInv)
  <1>1. Init => KeptInv /\ OfflineInv
    BY DEF Init, KeptInv, OfflineInv, Well, Calm, Good, Losing, Losers, Idle
  <1> QED
    BY <1>1, Invariant, KeptNext, OfflineNext, PTL DEF Spec

\* A verified cached copy survives whatever the servers answer and whatever other
\* processes do, kills included, as long as files can be read and nobody prunes.
THEOREM Kept == Spec => []KeepsVerified
  <1>1. KeptInv => KeepsVerified
    BY DEF KeptInv, KeepsVerified, Calm
  <1> QED
    BY <1>1, KeptInvariant, PTL

\* With such a copy and a network that fails without lying, no load fails.
THEOREM Offline == Spec => []WorksOffline
  <1>1. OfflineInv => WorksOffline
    BY DEF OfflineInv, WorksOffline, Honesty, Well, Losers
  <1> QED
    BY <1>1, KeptInvariant, PTL

-----------------------------------------------------------------------------
(***************************************************************************)
(* Theorems about Downloads, for any versions, chunks, attempts, inodes,   *)
(* faults and cleanups.                                                    *)
(*                                                                         *)
(* Types come first, for any clients at once.  SharedInv says what a fetch *)
(* knows of the names once it has verified: it is inductive as long as     *)
(* fetches do not overlap.  Given it, FinalKept is inductive for one       *)
(* client, and so is HealthyInv, which says at every label where the        *)
(* .incomplete of a fetch without trouble stands.                          *)
(***************************************************************************)

\* Before the next label: what an action makes of the job.
JobOK(j) == j \in Jobs /\ (j.pc = "origin" => j.origin < j.request.origins)
DiskOK ==
    /\ entry \in [Names -> Inodes \cup {NoInode}]
    /\ file \in [Inodes -> Seq(Chunks)]
    /\ alias \in {"none", "other", "ours"}

LEMMA WholeType ==
    ASSUME NEW b \in Releases \cup {Unchecked}
    PROVE  Whole(b) \in Seq(Chunks) /\ Len(Whole(b)) = Size /\ Whole(b) # <<>>
  <1>1. \A k \in 1 .. Size : <<b, k>> \in Chunks
    BY DEF Chunks
  <1> QED
    BY <1>1, FetchAssumption DEF Whole

LEMMA HoldsType == DiskOK => \A n \in Names : Holds(n) \in Seq(Chunks)
  BY DEF DiskOK, Holds, Exists

LEMMA RequestType ==
    ASSUME NEW r \in Requests \cup {NoRequest}
    PROVE  /\ r.want \in Releases \cup {Unchecked} /\ r.origins \in 1 .. 2
           /\ r.force \in BOOLEAN /\ r.kind \in {"bottle", "artifact"}
  <1>1. CASE r \in Requests
    <2>1. r \in [kind : {"bottle", "artifact"}, want : Releases \cup {Unchecked},
                 force : BOOLEAN, origins : 1 .. 2]
      BY <1>1, FetchAssumption
    <2> QED
      BY <2>1
  <1>2. CASE r = NoRequest
    BY <1>2 DEF NoRequest
  <1> QED
    BY <1>1, <1>2

LEMMA QuietType == ASSUME NEW j \in Jobs PROVE Quiet(j) \in Jobs
  <1>1. Size \in Nat /\ 1 \in 1 .. Size + 1
    BY FetchAssumption
  <1> QED
    BY <1>1 DEF Quiet, Jobs

LEMMA EnteringType ==
    ASSUME NEW j \in Jobs, NEW l \in FetchLabels \ {"origin"} PROVE JobOK(Entering(j, l))
  BY DEF Entering, Jobs, JobOK

LEMMA RetryType ==
    ASSUME NEW p \in Clients, job[p] \in Jobs PROVE JobOK(Retry(p))
  <1> DEFINE j == Quiet(job[p])
  <1>1. j \in Jobs
    BY QuietType
  <1> HIDE DEF j
  <1>2. j.request.origins \in 1 .. 2 /\ j.origin \in 1 .. 2 /\ j.attempt \in 0 .. MaxAttempts - 1
    BY <1>1, RequestType DEF Jobs, Origins
  <1>3. CASE j.attempt + 1 < MaxAttempts
    <2>1. Retry(p) = [j EXCEPT !.pc = "size", !.attempt = @ + 1]
      BY <1>3 DEF Retry, j
    <2>2. j.attempt + 1 \in 0 .. MaxAttempts - 1
      BY <1>2, <1>3, FetchAssumption
    <2> DEFINE a == j.attempt + 1
    <2>3. Retry(p) = [j EXCEPT !.pc = "size", !.attempt = a]
      BY <2>1
    <2> HIDE DEF a
    <2>4. a \in 0 .. MaxAttempts - 1
      BY <2>2 DEF a
    <2>5. Retry(p) \in Jobs
      BY <1>1, <2>3, <2>4 DEF Jobs, FetchLabels
    <2>6. Retry(p).pc = "size"
      BY <1>1, <2>3 DEF Jobs
    <2> QED
      BY <2>5, <2>6 DEF JobOK
  <1>4. CASE ~(j.attempt + 1 < MaxAttempts)
    <2>1. Retry(p) = Entering(j, IF j.origin < j.request.origins THEN "origin" ELSE "failed")
      BY <1>4 DEF Retry, j
    <2>2. CASE j.origin < j.request.origins
      <3>1. Retry(p) = [j EXCEPT !.pc = "origin"]
        BY <2>1, <2>2 DEF Entering
      <3> QED
        BY <1>1, <2>2, <3>1 DEF Jobs, JobOK, FetchLabels
    <2>3. CASE ~(j.origin < j.request.origins)
      BY <1>1, <2>1, <2>3, EnteringType DEF FetchLabels
    <2> QED
      BY <2>2, <2>3
  <1> QED
    BY <1>3, <1>4

LEMMA UnhealthyType ==
    ASSUME NEW j, JobOK(j) PROVE JobOK([j EXCEPT !.healthy = FALSE])
  BY DEF JobOK, Jobs

\* How one client's step leaves the jobs.
LEMMA JobsAfter ==
    ASSUME FetchTypeOK, NEW p \in Clients, NEW j, JobOK(j),
           FetchBecomes(p, j) \/ FaultBy(p, j)
    PROVE  /\ job' \in [Clients -> Jobs]
           /\ \A q \in Clients : job'[q].pc = "origin" => job'[q].origin < job'[q].request.origins
  <1>1. PICK k : FetchBecomes(p, k) /\ JobOK(k)
    BY UnhealthyType DEF FaultBy
  <1> QED
    BY <1>1 DEF FetchBecomes, JobOK, FetchTypeOK, Is, Request

LEMMA RebindType ==
    ASSUME FetchTypeOK, NEW n \in Names, NEW i \in Inodes \cup {NoInode}, Rebind(n, i)
    PROVE  entry' \in [Names -> Inodes \cup {NoInode}] /\ file' \in [Inodes -> Seq(Chunks)]
  <1>1. entry' \in [Names -> Inodes \cup {NoInode}]
    BY DEF Rebind, FetchTypeOK, Names
  <1>2. <<>> \in Seq(Chunks)
    OBVIOUS
  <1>3. \A j \in Inodes : file[j] \in Seq(Chunks)
    BY DEF FetchTypeOK
  <1> QED
    BY <1>1, <1>2, <1>3 DEF Rebind

\* What a step of one client has to leave for the types to hold.
JobsTyped ==
    /\ job' \in [Clients -> Jobs]
    /\ \A q \in Clients : job'[q].pc = "origin" => job'[q].origin < job'[q].request.origins

LEMMA Receiving ==
    ASSUME FetchTypeOK, NEW p \in Clients, Receive(p)
    PROVE  /\ file' \in [Inodes -> Seq(Chunks)]
           /\ \E j : FetchBecomes(p, j) /\ JobOK(j)
  <1> DEFINE i == job[p].fd
             chunk == <<job[p].body, job[p].next>>
             at == IF job[p].append THEN Len(file[i]) + 1 ELSE job[p].pos + 1
             hole == [k \in 1 .. at |-> <<Unchecked, 0>>]
             grown == file[i] \o hole
             long == IF at > Len(file[i]) THEN at ELSE Len(file[i])
  <1>1. job[p] \in Jobs /\ job[p].pc = "stream" /\ job[p].next <= Size
    BY DEF Receive, Is, FetchTypeOK
  <1>2. chunk \in Chunks /\ job[p].next \in 1 .. Size /\ job[p].pos \in Nat
    BY <1>1, FetchAssumption DEF Jobs, Chunks
  <1>3. /\ file' = [file EXCEPT ![i] = [k \in 1 .. long |-> IF k = at THEN chunk ELSE grown[k]]]
        /\ FetchBecomes(p, [job[p] EXCEPT !.next = @ + 1, !.pos = @ + 1])
    BY DEF Receive
  <1>4. file' \in [Inodes -> Seq(Chunks)]
    <2>1. CASE i \in Inodes
      <3>1. file[i] \in Seq(Chunks)
        BY <2>1 DEF FetchTypeOK
      <3>2. Len(file[i]) \in Nat /\ at \in Nat
        BY <1>2, <3>1
      <3> HIDE DEF at
      <3>3. hole \in Seq(Chunks) /\ Len(hole) = at
        BY <3>2 DEF Chunks
      <3> HIDE DEF hole
      <3>4. grown \in Seq(Chunks) /\ Len(grown) = Len(file[i]) + at
        BY <3>1, <3>3
      <3> HIDE DEF grown
      <3>5. long \in Nat /\ long <= Len(grown)
        BY <3>2, <3>4
      <3> HIDE DEF long, chunk
      <3>6. [k \in 1 .. long |-> IF k = at THEN chunk ELSE grown[k]] \in Seq(Chunks)
        BY <1>2, <3>4, <3>5
      <3> QED
        BY <1>3, <3>6 DEF FetchTypeOK
    <2>2. CASE i \notin Inodes
      BY <1>3, <2>2 DEF FetchTypeOK
    <2> QED
      BY <2>1, <2>2
  <1>5. [job[p] EXCEPT !.next = @ + 1, !.pos = @ + 1] \in Jobs
    <2> DEFINE n == job[p].next + 1  m == job[p].pos + 1
    <2>1. n \in 1 .. Size + 1 /\ m \in Nat
      BY <1>2, FetchAssumption
    <2> HIDE DEF n, m
    <2>2. [job[p] EXCEPT !.next = n, !.pos = m] \in Jobs
      BY <1>1, <2>1 DEF Jobs
    <2> QED
      BY <2>2 DEF n, m
  <1>6. [job[p] EXCEPT !.next = @ + 1, !.pos = @ + 1].pc = "stream"
    BY <1>1 DEF Jobs
  <1> QED
    BY <1>3, <1>4, <1>5, <1>6 DEF JobOK

LEMMA Opening ==
    ASSUME FetchTypeOK, NEW p \in Clients, Open(p)
    PROVE  /\ entry' \in [Names -> Inodes \cup {NoInode}] /\ file' \in [Inodes -> Seq(Chunks)]
           /\ \E j : (FetchBecomes(p, j) \/ FaultBy(p, j)) /\ JobOK(j)
  <1>0. job[p] \in Jobs
    BY DEF FetchTypeOK
  <1>1. CASE FaultBy(p, Retry(p)) /\ UNCHANGED <<entry, file>>
    BY <1>0, <1>1, RetryType DEF FetchTypeOK
  <1>2. CASE ~(FaultBy(p, Retry(p)) /\ UNCHANGED <<entry, file>>)
    <2>1. PICK i \in Inodes :
             /\ entry' = [entry EXCEPT !["incomplete"] = i]
             /\ file' = file \/ file' = [file EXCEPT ![i] = <<>>]
             /\ FetchBecomes(p, [job[p] EXCEPT !.pc = "stream", !.fd = i, !.pos = 0])
      <3> DEFINE i == IF Exists("incomplete") THEN entry["incomplete"]
                      ELSE CHOOSE k \in Unused : TRUE
      <3>1. i \in Inodes
        <4>1. Unused \subseteq Inodes
          BY DEF Unused
        <4>2. Exists("incomplete") => entry["incomplete"] \in Inodes
          BY DEF Exists, FetchTypeOK, Names
        <4> QED
          BY <1>2, <4>1, <4>2 DEF Open
      <3> QED
        BY <1>2, <3>1 DEF Open
    <2>2. <<>> \in Seq(Chunks)
      OBVIOUS
    <2>3. file' \in [Inodes -> Seq(Chunks)] /\ entry' \in [Names -> Inodes \cup {NoInode}]
      BY <2>1, <2>2 DEF FetchTypeOK
    <2>4. JobOK([job[p] EXCEPT !.pc = "stream", !.fd = i, !.pos = 0])
      <3>1. [job[p] EXCEPT !.pc = "stream", !.fd = i, !.pos = 0] \in Jobs
        BY <1>0 DEF Jobs, FetchLabels
      <3>2. [job[p] EXCEPT !.pc = "stream", !.fd = i, !.pos = 0].pc = "stream"
        BY <1>0 DEF Jobs
      <3> QED
        BY <3>1, <3>2 DEF JobOK
    <2> QED
      BY <2>1, <2>3, <2>4
  <1> QED
    BY <1>1, <1>2

\* A step of a client makes its job one that is typed.
LEMMA StepType ==
    ASSUME FetchTypeOK, NEW p \in Clients, FetchStep(p)
    PROVE  /\ DiskOK'
           /\ \E j : (FetchBecomes(p, j) \/ FaultBy(p, j)) /\ JobOK(j)
           /\ UNCHANGED restVars
  <1> DEFINE Landed == \E j : (FetchBecomes(p, j) \/ FaultBy(p, j)) /\ JobOK(j)
  <1>0. job[p] \in Jobs /\ DiskOK
    BY DEF FetchTypeOK, DiskOK
  <1>1. \A l \in FetchLabels \ {"origin"} : JobOK(Entering(job[p], l))
    BY <1>0, EnteringType
  <1>2. \A l \in FetchLabels \ {"origin"} : JobOK(Entering(Quiet(job[p]), l))
    BY <1>0, EnteringType, QuietType
  <1>3. JobOK(Retry(p))
    BY <1>0, RetryType
  <1>4. JobOK(FetchFailed(p))
    BY <1>1 DEF FetchFailed, FetchLabels
  <1>5. UNCHANGED restVars
    BY DEF FetchStep, Reuse, Complete, Measure, Respond, Recheck, Open, Receive, Break, EndOfBody,
           VerifyFile, Discard, NextOrigin, PublishFile, InspectAlias, MakeAlias, Use
  <1>6. ASSUME UNCHANGED diskVars PROVE DiskOK'
    BY <1>0, <1>6 DEF diskVars, DiskOK
  <1>7. ASSUME NEW n \in Names, NEW i \in Inodes \cup {NoInode}, Rebind(n, i), UNCHANGED alias
        PROVE  DiskOK'
    BY <1>0, <1>7, RebindType DEF DiskOK
  <1>8. ASSUME UNCHANGED <<entry, file, alias>> PROVE DiskOK'
    BY <1>6, <1>8 DEF diskVars
  <1>9. ASSUME Unlink("incomplete"), UNCHANGED alias PROVE DiskOK'
    BY <1>7, <1>9 DEF Unlink, Names
  <1>10. ASSUME NEW l \in FetchLabels \ {"origin"}, FetchGoto(p, l) PROVE Landed
    BY <1>1, <1>10 DEF FetchGoto
  <1>11. CASE Reuse(p)
    <2>1. Landed
      BY <1>1, <1>4, <1>11 DEF Reuse, Unreadable, FetchGoto, FetchLabels
    <2> QED
      BY <1>5, <1>6, <1>11, <2>1 DEF Reuse
  <1>12. CASE Complete(p)
    <2>1. Landed
      BY <1>1, <1>4, <1>12 DEF Complete, Unreadable, FetchGoto, FetchLabels
    <2> QED
      BY <1>5, <1>6, <1>12, <2>1 DEF Complete
  <1>13. CASE Measure(p)
    <2> DEFINE j == [job[p] EXCEPT !.pc = "send", !.existing = Len(Holds("incomplete"))]
    <2>1. Len(Holds("incomplete")) \in Nat
      BY <1>0, HoldsType DEF Names
    <2>2. j \in Jobs /\ j.pc = "send"
      BY <1>0, <2>1 DEF Jobs, FetchLabels
    <2> QED
      BY <1>5, <1>6, <1>13, <2>2 DEF Measure, JobOK
  <1>14. CASE Respond(p)
    <2> DEFINE From(start) == [job[p] EXCEPT !.pc = "recheck", !.body = served[job[p].origin],
                                             !.next = start, !.append = start > 1]
    <2>1. ASSUME NEW start \in 1 .. Size PROVE JobOK(From(start))
      <3>1. job[p].origin \in Origins /\ served[job[p].origin] \in Releases
        BY <1>0 DEF Jobs, FetchTypeOK
      <3>2. start \in 1 .. Size + 1 /\ (start > 1) \in BOOLEAN
        BY FetchAssumption
      <3>3. From(start) \in Jobs
        BY <1>0, <3>1, <3>2 DEF Jobs, FetchLabels
      <3>4. From(start).pc = "recheck"
        BY <1>0 DEF Jobs
      <3> QED
        BY <3>3, <3>4 DEF JobOK
    <2>2. 1 \in 1 .. Size /\ \A n \in 1 .. Size - 1 : n + 1 \in 1 .. Size
      BY FetchAssumption
    <2>3. \/ FetchBecomes(p, From(1))
          \/ job[p].existing \in 1 .. Size - 1 /\ FetchBecomes(p, From(job[p].existing + 1))
          \/ FetchBecomes(p, Retry(p)) \/ FaultBy(p, Retry(p))
      BY <1>14 DEF Respond
    <2> HIDE DEF From
    <2> QED
      BY <1>3, <1>5, <1>6, <1>14, <2>1, <2>2, <2>3 DEF Respond
  <1>15. CASE Recheck(p)
    <2>1. Landed
      BY <1>1, <1>3, <1>15 DEF Recheck, FetchGoto, FetchLabels
    <2> QED
      BY <1>5, <1>6, <1>15, <2>1 DEF Recheck
  <1>16. CASE Open(p)
    BY <1>0, <1>5, <1>16, Opening DEF Open, DiskOK
  <1>17. CASE Receive(p)
    BY <1>0, <1>5, <1>17, Receiving DEF Receive, DiskOK
  <1>18. CASE Break(p)
    BY <1>3, <1>5, <1>6, <1>18 DEF Break
  <1>19. CASE EndOfBody(p)
    <2>1. Landed
      BY <1>2, <1>19 DEF EndOfBody, FetchLabels
    <2> QED
      BY <1>5, <1>6, <1>19, <2>1 DEF EndOfBody
  <1>20. CASE VerifyFile(p)
    <2>1. Landed
      BY <1>1, <1>20 DEF VerifyFile, FetchGoto, FetchLabels
    <2> QED
      BY <1>5, <1>6, <1>20, <2>1 DEF VerifyFile
  <1>21. CASE Discard(p)
    <2>1. Landed
      BY <1>3, <1>21 DEF Discard
    <2>2. DiskOK'
      BY <1>8, <1>9, <1>21 DEF Discard
    <2> QED
      BY <1>5, <2>1, <2>2
  <1>22. CASE NextOrigin(p)
    <2> DEFINE j == [job[p] EXCEPT !.pc = "size", !.attempt = 0, !.origin = @ + 1]
    <2>1. job[p].origin \in 1 .. 2 /\ job[p].origin < job[p].request.origins
          /\ job[p].request \in Requests \cup {NoRequest}
      BY <1>0, <1>22 DEF NextOrigin, Is, FetchTypeOK, Jobs, Origins, Request
    <2>2. job[p].origin + 1 \in Origins /\ 0 \in 0 .. MaxAttempts - 1
      BY <2>1, RequestType, FetchAssumption DEF Origins
    <2>3. j \in Jobs
      BY <1>0, <2>2 DEF Jobs, FetchLabels
    <2>4. j.pc = "size"
      BY <1>0 DEF Jobs
    <2>5. FetchBecomes(p, j) \/ FaultBy(p, j)
      BY <1>22 DEF NextOrigin
    <2>6. DiskOK'
      BY <1>8, <1>9, <1>22 DEF NextOrigin
    <2> QED
      BY <1>5, <2>3, <2>4, <2>5, <2>6 DEF JobOK
  <1>23. CASE PublishFile(p)
    <2>1. Landed
      BY <1>1, <1>4, <1>23 DEF PublishFile, FetchGoto, FetchLabels
    <2>2. DiskOK'
      <3>1. entry["incomplete"] \in Inodes \cup {NoInode}
        BY <1>0 DEF DiskOK, Names
      <3> QED
        BY <1>7, <1>8, <1>23, <3>1 DEF PublishFile, Names
    <2> QED
      BY <1>5, <2>1, <2>2
  <1>24. CASE InspectAlias(p)
    <2>1. Landed
      BY <1>1, <1>4, <1>24 DEF InspectAlias, FetchGoto, FetchLabels
    <2> QED
      BY <1>0, <1>5, <1>24, <2>1 DEF InspectAlias, DiskOK
  <1>25. CASE MakeAlias(p)
    <2>1. Landed
      BY <1>1, <1>4, <1>25 DEF MakeAlias, FetchGoto, FetchLabels
    <2> QED
      BY <1>0, <1>5, <1>25, <2>1 DEF MakeAlias, DiskOK
  <1>26. CASE Use(p)
    <2> DEFINE j == [job[p] EXCEPT !.pc = "ok", !.used = Holds("final")]
    <2>1. Holds("final") \in Seq(Chunks)
      BY <1>0, HoldsType DEF Names
    <2>2. j \in Jobs /\ j.pc = "ok"
      BY <1>0, <2>1 DEF Jobs, FetchLabels
    <2> QED
      BY <1>5, <1>6, <1>26, <2>2 DEF Use, JobOK
  <1> QED
    BY <1>11, <1>12, <1>13, <1>14, <1>15, <1>16, <1>17, <1>18, <1>19, <1>20, <1>21, <1>22, <1>23,
       <1>24, <1>25, <1>26 DEF FetchStep

LEMMA BeginType ==
    ASSUME FetchTypeOK, NEW p \in Clients, BeginFetch(p)
    PROVE  \E j : FetchBecomes(p, j) /\ JobOK(j)
  <1> DEFINE s == [incomplete |-> Holds("incomplete"), final |-> Holds("final")]
             j(r) == [NoFetch EXCEPT !.pc = "reuse", !.request = r, !.start = s]
  <1>1. PICK r \in Requests : FetchBecomes(p, j(r))
    BY DEF BeginFetch
  <1>2. DiskOK
    BY DEF FetchTypeOK, DiskOK
  <1>3. s \in [incomplete : Seq(Chunks), final : Seq(Chunks)]
    BY <1>2, HoldsType DEF Names
  <1>4. 0 \in 0 .. MaxAttempts - 1 /\ 1 \in 1 .. Size + 1 /\ 1 \in Origins
    BY FetchAssumption DEF Origins
  <1> HIDE DEF s
  <1>5. j(r) \in Jobs /\ j(r).pc = "reuse"
    <2>1. <<>> \in Seq(Chunks)
      OBVIOUS
    <2>2. NoFetch \in Jobs
      BY <1>4, <2>1 DEF Jobs, FetchLabels, NoFetch
    <2> QED
      BY <1>3, <2>2 DEF Jobs, FetchLabels
  <1> QED
    BY <1>1, <1>5 DEF JobOK

LEMMA KillType ==
    ASSUME FetchTypeOK, NEW p \in Clients, KillFetch(p)
    PROVE  \E j : FetchBecomes(p, j) /\ JobOK(j)
  <1>1. job[p] \in Jobs
    BY DEF FetchTypeOK
  <1> QED
    BY <1>1, QuietType, EnteringType DEF KillFetch, FetchLabels

LEMMA DisturbType ==
    ASSUME FetchTypeOK, Disturb
    PROVE  JobsTyped
  <1>1. \A q \in Clients :
           job[q] \in Jobs /\ (job[q].pc = "origin" => job[q].origin < job[q].request.origins)
    BY DEF FetchTypeOK, Is, Request
  <1>2. \A q \in Clients : JobOK([job[q] EXCEPT !.healthy = FALSE])
    BY <1>1, UnhealthyType DEF JobOK
  <1> QED
    BY <1>2 DEF Disturb, JobsTyped, JobOK

LEMMA FetchTypeInit == FetchInit => FetchTypeOK
  <1> SUFFICES ASSUME FetchInit PROVE FetchTypeOK
    OBVIOUS
  <1>1. entry \in [Names -> Inodes \cup {NoInode}]
    BY FetchAssumption DEF FetchInit, Names
  <1>2. file \in [Inodes -> Seq(Chunks)]
    <2>1. PICK b \in Releases, n \in 1 .. Size : \E c \in [1 .. n -> Releases] :
             file = [i \in Inodes |->
                       IF i = entry["final"] THEN Whole(b)
                       ELSE IF i = entry["incomplete"] THEN [k \in 1 .. n |-> <<c[k], k>>]
                       ELSE <<>>]
      BY DEF FetchInit
    <2>2. PICK c \in [1 .. n -> Releases] :
             file = [i \in Inodes |->
                       IF i = entry["final"] THEN Whole(b)
                       ELSE IF i = entry["incomplete"] THEN [k \in 1 .. n |-> <<c[k], k>>]
                       ELSE <<>>]
      BY <2>1
    <2>3. n \in Nat
      BY FetchAssumption
    <2>4. \A k \in 1 .. n : <<c[k], k>> \in Chunks
      BY <2>3 DEF Chunks
    <2>5. [k \in 1 .. n |-> <<c[k], k>>] \in Seq(Chunks)
      BY <2>3, <2>4
    <2>6. <<>> \in Seq(Chunks) /\ Whole(b) \in Seq(Chunks)
      BY WholeType
    <2> QED
      BY <2>2, <2>5, <2>6
  <1>3. job \in [Clients -> Jobs] /\ \A p \in Clients : job[p].pc = "idle"
    <2>1. 0 \in 0 .. MaxAttempts - 1 /\ 1 \in 1 .. Size + 1 /\ 1 \in Origins
      BY FetchAssumption DEF Origins
    <2>2. <<>> \in Seq(Chunks)
      OBVIOUS
    <2>3. NoFetch \in Jobs /\ NoFetch.pc = "idle"
      BY <2>1, <2>2 DEF NoFetch, Jobs, FetchLabels
    <2> QED
      BY <2>3 DEF FetchInit
  <1> QED
    BY <1>1, <1>2, <1>3 DEF FetchInit, FetchTypeOK, Is

LEMMA FetchTypeNext == FetchTypeOK /\ [FetchNext]_fetchVars => FetchTypeOK'
  <1> SUFFICES ASSUME FetchTypeOK, [FetchNext]_fetchVars PROVE FetchTypeOK'
    OBVIOUS
  <1> USE DEF JobsTyped
  <1>1. ASSUME DiskOK', JobsTyped, UNCHANGED <<served, sweep, runs, cleanups>>, faults' \in Nat
        PROVE  FetchTypeOK'
    BY <1>1 DEF FetchTypeOK, DiskOK, Is, Request
  <1>2. ASSUME UNCHANGED diskVars PROVE DiskOK'
    BY <1>2 DEF FetchTypeOK, DiskOK, diskVars
  <1>3. CASE UNCHANGED fetchVars
    BY <1>3 DEF fetchVars, FetchTypeOK, Is, Request
  <1>4. ASSUME NEW p \in Clients, BeginFetch(p) PROVE FetchTypeOK'
    <2>1. JobsTyped
      BY <1>4, BeginType, JobsAfter
    <2>2. DiskOK'
      BY <1>2, <1>4 DEF BeginFetch
    <2> QED
      BY <1>4, <2>1, <2>2 DEF BeginFetch, FetchTypeOK, DiskOK, Is, Request
  <1>5. ASSUME NEW p \in Clients, FetchStep(p) PROVE FetchTypeOK'
    <2>1. PICK j : (FetchBecomes(p, j) \/ FaultBy(p, j)) /\ JobOK(j)
      BY <1>5, StepType
    <2>2. JobsTyped
      BY <2>1, JobsAfter
    <2>3. faults' \in Nat
      BY <1>5 DEF FetchTypeOK, FetchStep, Reuse, Complete, Measure, Respond, Recheck, Open,
           Receive, Break, EndOfBody, VerifyFile, Discard, NextOrigin, PublishFile, InspectAlias,
           MakeAlias, Use, NoFault, FaultBy, Unreadable
    <2>4. DiskOK' /\ UNCHANGED restVars
      BY <1>5, StepType
    <2> QED
      BY <1>1, <2>2, <2>3, <2>4 DEF restVars
  <1>6. ASSUME NEW p \in Clients, KillFetch(p) PROVE FetchTypeOK'
    <2>1. JobsTyped
      BY <1>6, KillType, JobsAfter
    <2>2. DiskOK'
      BY <1>2, <1>6 DEF KillFetch
    <2> QED
      BY <1>1, <1>6, <2>1, <2>2 DEF KillFetch, restVars, FetchTypeOK
  <1>7. ASSUME NEW o \in Origins, NewRelease(o) PROVE FetchTypeOK'
    <2>1. JobsTyped
      BY <1>7, DisturbType DEF NewRelease
    <2>2. DiskOK'
      BY <1>2, <1>7 DEF NewRelease
    <2>3. served' \in [Origins -> Releases]
      <3>1. PICK i \in 1 .. Len(Bodies) - 1 : served' = [served EXCEPT ![o] = Bodies[i + 1]]
        BY <1>7 DEF NewRelease
      <3>2. Bodies[i + 1] \in Releases
        <4>1. Bodies \in Seq(Releases) /\ Len(Bodies) \in Nat
          BY FetchAssumption
        <4>2. i + 1 \in 1 .. Len(Bodies)
          BY <4>1
        <4> QED
          BY <4>1, <4>2
      <3> QED
        BY <3>1, <3>2 DEF FetchTypeOK
    <2> QED
      BY <1>7, <2>1, <2>2, <2>3 DEF NewRelease, FetchTypeOK, DiskOK, Is, Request
  <1>8. CASE ListCache
    <2>1. sweep' \subseteq Names \cup {"alias"}
      BY <1>8 DEF ListCache
    <2>2. cleanups' \in Nat
      BY <1>8 DEF ListCache, FetchTypeOK
    <2> QED
      BY <1>8, <2>1, <2>2 DEF ListCache, FetchTypeOK, diskVars, Is, Request
  <1>9. ASSUME NEW n \in Names \cup {"alias"}, RemoveListed(n) PROVE FetchTypeOK'
    <2>1. JobsTyped
      BY <1>9, DisturbType DEF RemoveListed
    <2>2. DiskOK'
      <3>1. CASE n = "alias" /\ alias' = "none" /\ UNCHANGED <<entry, file>>
        BY <3>1 DEF FetchTypeOK, DiskOK
      <3>2. CASE n \in Names /\ Unlink(n) /\ UNCHANGED alias
        BY <3>2, RebindType DEF Unlink, FetchTypeOK, DiskOK
      <3> QED
        BY <1>9, <3>1, <3>2 DEF RemoveListed
    <2>3. sweep' \subseteq Names \cup {"alias"}
      BY <1>9 DEF RemoveListed, FetchTypeOK
    <2> QED
      BY <1>9, <2>1, <2>2, <2>3 DEF RemoveListed, FetchTypeOK, DiskOK, Is, Request
  <1> QED
    BY <1>3, <1>4, <1>5, <1>6, <1>7, <1>8, <1>9 DEF FetchNext

\* Types, for any number of clients, versions and chunks.
THEOREM FetchTyped == FetchSpec => []FetchTypeOK
  BY FetchTypeInit, FetchTypeNext, PTL DEF FetchSpec

\* Clients that come one after the other.
OneAtATime == \A p, q \in Clients : Fetching(p) /\ Fetching(q) => p = q

\* No two names for one inode.
Apart == Exists("incomplete") => entry["incomplete"] # entry["final"]

\* A file is open during the transfer only, and it is not the final one.
Shut(j) ==
    /\ j.pc = "stream" => j.fd \in Inodes /\ j.fd # entry["final"]
    /\ j.pc # "stream" => j.fd = NoInode

\* From the verification on, what the fetch is about to use is what it wants, or gone.
Gone == cleanups > 0 /\ Holds("final") = <<>>
Sure(j) ==
    LET wanted == Whole(j.request.want)
    IN  j.request.want # Unchecked =>
          /\ j.pc = "publish" /\ Exists("incomplete") => Holds("incomplete") = wanted
          /\ j.pc \in {"alias", "symlink", "use"} => Holds("final") = wanted \/ Gone
          /\ j.pc = "use" /\ j.request.kind = "artifact" => alias = "ours" \/ cleanups > 0
          /\ j.pc = "ok" =>
                \/ j.used = wanted /\ (j.request.kind = "artifact" => alias = "ours")
                \/ cleanups > 0 /\ j.used \in {<<>>, wanted}

SharedInv ==
    /\ Apart
    /\ sweep # {} => cleanups > 0
    /\ \A q \in Clients : Shut(job[q]) /\ Sure(job[q])

Light == {"idle", "reuse", "complete", "size", "send", "recheck", "open", "verify", "discard",
          "origin", "failed", "killed"}

LEMMA LightFine ==
    ASSUME NEW j, j.pc \in Light, j.fd = NoInode
    PROVE  Shut(j) /\ Sure(j) /\ (Shut(j) /\ Sure(j))'
  BY DEF Light, Shut, Sure

\* The fields the claims speak of.
Alike(r, j) == r.request = j.request /\ r.used = j.used /\ r.start = j.start
LEMMA EnteringFields ==
    ASSUME NEW j \in Jobs, NEW l
    PROVE  Entering(j, l).pc = l /\ Entering(j, l).fd = j.fd /\ Alike(Entering(j, l), j)
  BY DEF Entering, Jobs, Alike

LEMMA QuietFields ==
    ASSUME NEW j \in Jobs
    PROVE  Quiet(j).fd = NoInode /\ Quiet(j).pc = j.pc /\ Alike(Quiet(j), j)
  BY DEF Quiet, Jobs, Alike

LEMMA UnhealthyFields ==
    ASSUME NEW j \in Jobs
    PROVE  LET r == [j EXCEPT !.healthy = FALSE]
           IN  r.pc = j.pc /\ r.fd = j.fd /\ Alike(r, j) /\ r \in Jobs /\ r.healthy = FALSE
  BY DEF Jobs, Alike

LEMMA RetryFields ==
    ASSUME NEW p \in Clients, job[p] \in Jobs
    PROVE  /\ Retry(p).pc \in {"size", "origin", "failed"} /\ Retry(p).fd = NoInode
           /\ Alike(Retry(p), job[p])
  <1> DEFINE j == Quiet(job[p])
  <1>1. j \in Jobs /\ j.fd = NoInode /\ Alike(j, job[p])
    BY QuietType, QuietFields
  <1> HIDE DEF j
  <1>2. CASE j.attempt + 1 < MaxAttempts
    <2> DEFINE a == j.attempt + 1
    <2>1. Retry(p) = [j EXCEPT !.pc = "size", !.attempt = a]
      BY <1>2 DEF Retry, j
    <2> HIDE DEF a
    <2> QED
      BY <1>1, <2>1 DEF Jobs, Alike
  <1>3. CASE ~(j.attempt + 1 < MaxAttempts)
    <2>1. PICK l \in {"origin", "failed"} : Retry(p) = Entering(j, l)
      BY <1>3 DEF Retry, j
    <2> QED
      BY <1>1, <2>1, EnteringFields DEF Alike
  <1> QED
    BY <1>2, <1>3

\* Removing one name leaves what the other leads to.
LEMMA UnlinkIncomplete ==
    ASSUME FetchTypeOK, Apart, Unlink("incomplete")
    PROVE  /\ ~Exists("incomplete")' /\ entry'["final"] = entry["final"]
           /\ Holds("final")' = Holds("final")
  <1>1. /\ entry' = [entry EXCEPT !["incomplete"] = NoInode]
        /\ \A j \in Inodes : j # entry["incomplete"] => file'[j] = file[j]
    BY DEF Unlink, Rebind
  <1>2. entry \in [Names -> Inodes \cup {NoInode}]
    BY DEF FetchTypeOK
  <1>3. entry'["incomplete"] = NoInode /\ entry'["final"] = entry["final"]
    BY <1>1, <1>2 DEF Names
  <1>4. entry["final"] # NoInode =>
          entry["final"] \in Inodes /\ entry["final"] # entry["incomplete"]
    BY <1>2 DEF Names, Apart, Exists
  <1> QED
    BY <1>1, <1>3, <1>4 DEF Holds, Exists

LEMMA UnlinkFinal ==
    ASSUME FetchTypeOK, Apart, Unlink("final")
    PROVE  /\ ~Exists("final")' /\ entry'["incomplete"] = entry["incomplete"]
           /\ Holds("incomplete")' = Holds("incomplete") /\ Holds("final")' = <<>>
  <1>1. /\ entry' = [entry EXCEPT !["final"] = NoInode]
        /\ \A j \in Inodes : j # entry["final"] => file'[j] = file[j]
    BY DEF Unlink, Rebind
  <1>2. entry \in [Names -> Inodes \cup {NoInode}]
    BY DEF FetchTypeOK
  <1>3. entry'["final"] = NoInode /\ entry'["incomplete"] = entry["incomplete"]
    BY <1>1, <1>2 DEF Names
  <1>4. entry["incomplete"] # NoInode =>
          entry["incomplete"] \in Inodes /\ entry["final"] # entry["incomplete"]
    BY <1>2 DEF Names, Apart, Exists
  <1> QED
    BY <1>1, <1>3, <1>4 DEF Holds, Exists

LEMMA Renaming ==
    ASSUME FetchTypeOK, Exists("incomplete"), Rebind("final", entry["incomplete"])
    PROVE  /\ ~Exists("incomplete")' /\ Holds("final")' = Holds("incomplete")
  <1>1. entry["incomplete"] \in Inodes
    BY DEF FetchTypeOK, Names, Exists
  <1>2. entry["incomplete"] # NoInode
    BY DEF Exists
  <1>3. entry' = [incomplete |-> NoInode, final |-> entry["incomplete"]]
    BY <1>2 DEF Rebind
  <1>4. file'[entry["incomplete"]] = file[entry["incomplete"]]
    BY <1>1 DEF Rebind
  <1> QED
    BY <1>2, <1>3, <1>4 DEF Holds, Exists

\* What one client's step leaves.
Settled(p, r) ==
    /\ job' = [job EXCEPT ![p] = r]
    /\ (Shut(r) /\ Sure(r))'
    /\ Apart'
    /\ alias = "ours" => alias' = "ours"

LEMMA DiskStill ==
    ASSUME UNCHANGED diskVars
    PROVE  /\ (Apart => Apart') /\ alias' = alias
           /\ \A n \in Names : Exists(n)' = Exists(n) /\ Holds(n)' = Holds(n)
           /\ entry' = entry
  BY DEF diskVars, Apart, Exists, Holds, Names

LEMMA BecomesEither ==
    ASSUME NEW p \in Clients, NEW r \in Jobs, FetchBecomes(p, r) \/ FaultBy(p, r)
    PROVE  \E s \in Jobs : /\ job' = [job EXCEPT ![p] = s] /\ s.pc = r.pc /\ s.fd = r.fd
                           /\ Alike(s, r)
  <1>1. CASE FetchBecomes(p, r)
    BY <1>1 DEF FetchBecomes, Alike
  <1>2. CASE FaultBy(p, r)
    BY <1>2, UnhealthyFields DEF FaultBy, FetchBecomes
  <1> QED
    BY <1>1, <1>2

\* A job that got a label without claims.
LEMMA LightStep ==
    ASSUME Apart', alias = "ours" => alias' = "ours", NEW p \in Clients, NEW r \in Jobs,
           FetchBecomes(p, r) \/ FaultBy(p, r), r.pc \in Light, r.fd = NoInode
    PROVE  \E s : Settled(p, s)
  <1>1. PICK s \in Jobs : job' = [job EXCEPT ![p] = s] /\ s.pc = r.pc /\ s.fd = r.fd
    BY BecomesEither
  <1> QED
    BY <1>1, LightFine DEF Settled

LEMMA SureStep ==
    ASSUME FetchTypeOK, SharedInv, NEW p \in Clients, FetchStep(p)
    PROVE  \E s : Settled(p, s)
  <1> DEFINE j == job[p]
             Landed == \E s : Settled(p, s)
             wanted == Whole(j.request.want)
  <1>1. j \in Jobs /\ Shut(j) /\ Sure(j) /\ Apart
    BY DEF FetchTypeOK, SharedInv
  <1>2. Retry(p) \in Jobs /\ Retry(p).pc \in Light /\ Retry(p).fd = NoInode
    BY <1>1, RetryType, RetryFields DEF JobOK, Light
  <1>3. ASSUME NEW l \in FetchLabels \ {"origin"}
        PROVE  /\ Entering(j, l) \in Jobs /\ Entering(j, l).pc = l
               /\ Entering(j, l).fd = j.fd /\ Alike(Entering(j, l), j)
    BY <1>1, EnteringType, EnteringFields DEF JobOK
  <1>4. ASSUME FetchBecomes(p, Retry(p)) \/ FaultBy(p, Retry(p)), Apart',
               alias = "ours" => alias' = "ours"
        PROVE  Landed
    BY <1>2, <1>4, LightStep
  <1>5. ASSUME NEW l \in Light \ {"origin"},
               FetchBecomes(p, Entering(j, l)) \/ FaultBy(p, Entering(j, l)), Apart',
               alias = "ours" => alias' = "ours", j.pc # "stream"
        PROVE  Landed
    <2>1. l \in FetchLabels \ {"origin"} /\ j.fd = NoInode
      BY <1>1, <1>5 DEF Light, FetchLabels, Shut
    <2> QED
      BY <1>3, <1>5, <2>1, LightStep
  <1>6. ASSUME UNCHANGED diskVars PROVE Apart' /\ (alias = "ours" => alias' = "ours")
    BY <1>1, <1>6, DiskStill
  <1>7. CASE Reuse(p)
    <2>1. UNCHANGED diskVars /\ j.pc = "reuse" /\ j.fd = NoInode
      BY <1>1, <1>7 DEF Reuse, Is, Shut
    <2>2. CASE \E l \in {"complete", "failed"} :
                  FetchBecomes(p, Entering(j, l)) \/ FaultBy(p, Entering(j, l))
      BY <1>5, <1>6, <2>1, <2>2 DEF Light
    <2>3. CASE Holds("final") = wanted /\ \E l \in {"use", "alias"} :
                  /\ FetchBecomes(p, Entering(j, l)) /\ (l = "use" => j.request.kind = "bottle")
      <3>1. PICK l \in {"use", "alias"} :
                  FetchBecomes(p, Entering(j, l)) /\ (l = "use" => j.request.kind = "bottle")
        BY <2>3
      <3>0. PICK r : r = Entering(j, l)
        OBVIOUS
      <3>2. r.pc = l /\ r.fd = NoInode /\ r.request = j.request
        BY <3>0, <1>3, <2>1, <3>1 DEF FetchLabels, Alike
      <3>3. Holds("final")' = Whole(r.request.want)
        BY <3>0, <2>1, <2>3, <3>2, DiskStill DEF Names
      <3>4. (Shut(r) /\ Sure(r))'
        BY <3>0, <2>3, <3>1, <3>2, <3>3 DEF Shut, Sure
      <3> QED
        BY <3>0, <1>6, <2>1, <3>1, <3>4 DEF Settled, FetchBecomes
    <2> QED
      BY <1>7, <2>2, <2>3, RequestType, <1>1
      DEF Reuse, Unreadable, MayReuse, FetchGoto, FetchFailed, Request, Checked, Jobs
  <1>8. ASSUME UNCHANGED diskVars, FetchBecomes(p, Entering(j, "publish")), j.pc # "stream",
               j.request.want # Unchecked => (Exists("incomplete") => Holds("incomplete") = wanted)
        PROVE  Landed
    <2>0. PICK r : r = Entering(j, "publish")
      OBVIOUS
    <2>1. r.pc = "publish" /\ r.fd = NoInode /\ r.request = j.request
      BY <2>0, <1>1, <1>3, <1>8 DEF FetchLabels, Alike, Shut
    <2>2. (Shut(r) /\ Sure(r))'
      BY <2>0, <1>8, <2>1, DiskStill DEF Shut, Sure, Names
    <2> QED
      BY <2>0, <1>6, <1>8, <2>2 DEF Settled, FetchBecomes
  <1>9. CASE Complete(p)
    <2>1. UNCHANGED diskVars /\ j.pc = "complete"
      BY <1>9 DEF Complete, Is
    <2>2. CASE \E l \in {"size", "failed"} :
                  FetchBecomes(p, Entering(j, l)) \/ FaultBy(p, Entering(j, l))
      BY <1>5, <1>6, <2>1, <2>2 DEF Light
    <2>3. CASE Holds("incomplete") = wanted /\ FetchBecomes(p, Entering(j, "publish"))
      BY <1>8, <2>1, <2>3
    <2> QED
      BY <1>9, <2>2, <2>3
      DEF Complete, Unreadable, FetchGoto, FetchFailed, Request
  <1>10. CASE Measure(p)
    <2> DEFINE r == [j EXCEPT !.pc = "send", !.existing = Len(Holds("incomplete"))]
    <2>1. UNCHANGED diskVars /\ j.pc = "size" /\ FetchBecomes(p, r)
      BY <1>10 DEF Measure, Is
    <2>2. Len(Holds("incomplete")) \in Nat
      BY HoldsType DEF FetchTypeOK, DiskOK, Names
    <2>3. r \in Jobs /\ r.pc = "send" /\ r.fd = NoInode
      BY <1>1, <2>1, <2>2 DEF Jobs, FetchLabels, Shut
    <2> HIDE DEF r
    <2> QED
      BY <1>6, <2>1, <2>3, LightStep DEF Light
  <1>11. CASE Respond(p)
    <2>1. UNCHANGED diskVars /\ j.pc = "send"
      BY <1>11 DEF Respond, Is
    <2>2. ASSUME NEW start \in 1 .. Size,
                 FetchBecomes(p, [j EXCEPT !.pc = "recheck", !.body = served[j.origin],
                                           !.next = start, !.append = start > 1])
          PROVE  Landed
      <3> DEFINE r == [j EXCEPT !.pc = "recheck", !.body = served[j.origin],
                                !.next = start, !.append = start > 1]
      <3>1. j.origin \in Origins /\ served[j.origin] \in Releases
        BY <1>1 DEF Jobs, FetchTypeOK
      <3>2. start \in 1 .. Size + 1 /\ (start > 1) \in BOOLEAN
        BY FetchAssumption
      <3>3. r \in Jobs /\ r.pc = "recheck" /\ r.fd = NoInode
        BY <1>1, <2>1, <3>1, <3>2 DEF Jobs, FetchLabels, Shut
      <3> HIDE DEF r
      <3> QED
        BY <1>6, <2>1, <2>2, <3>3, LightStep DEF Light, r
    <2>3. 1 \in 1 .. Size /\ \A n \in 1 .. Size - 1 : n + 1 \in 1 .. Size
      BY FetchAssumption
    <2>4. CASE FetchBecomes(p, Retry(p)) \/ FaultBy(p, Retry(p))
      BY <1>4, <1>6, <2>1, <2>4
    <2>5. CASE \E start \in 1 .. Size :
                 FetchBecomes(p, [j EXCEPT !.pc = "recheck", !.body = served[j.origin],
                                           !.next = start, !.append = start > 1])
      BY <2>2, <2>5
    <2> QED
      BY <1>11, <2>3, <2>4, <2>5 DEF Respond
  <1>12. CASE Recheck(p)
    <2>1. UNCHANGED diskVars /\ j.pc = "recheck"
      BY <1>12 DEF Recheck, Is
    <2>2. FetchBecomes(p, Retry(p)) \/ FetchBecomes(p, Entering(j, "open"))
      BY <1>12 DEF Recheck, FetchGoto
    <2> QED
      BY <1>4, <1>5, <1>6, <2>1, <2>2 DEF Light
  <1>13. CASE Open(p)
    <2>1. CASE FaultBy(p, Retry(p)) /\ UNCHANGED <<entry, file>>
      <3>1. UNCHANGED diskVars
        BY <1>13, <2>1 DEF Open, diskVars
      <3> QED
        BY <1>4, <1>6, <2>1, <3>1
    <2>2. CASE ~(FaultBy(p, Retry(p)) /\ UNCHANGED <<entry, file>>)
      <3> DEFINE i == IF Exists("incomplete") THEN entry["incomplete"]
                      ELSE CHOOSE k \in Unused : TRUE
      <3> HIDE DEF i
      <3>0. PICK r : r = [j EXCEPT !.pc = "stream", !.fd = i, !.pos = 0]
        OBVIOUS
      <3>1. /\ entry' = [entry EXCEPT !["incomplete"] = i] /\ FetchBecomes(p, r)
            /\ Exists("incomplete") \/ Unused # {}
        BY <1>13, <2>2, <3>0 DEF Open, i
      <3>2. i \in Inodes /\ i # entry["final"]
        <4>1. CASE Exists("incomplete")
          BY <1>1, <4>1 DEF Exists, FetchTypeOK, Names, Apart, i
        <4>2. CASE ~Exists("incomplete")
          <5>1. i \in Unused
            BY <3>1, <4>2 DEF i
          <5> QED
            BY <5>1 DEF Unused, Names
        <4> QED
          BY <4>1, <4>2
      <3>3. entry'["incomplete"] = i /\ entry'["final"] = entry["final"] /\ NoInode \notin Inodes
        BY <3>1, FetchAssumption DEF FetchTypeOK, Names
      <3>4. r.pc = "stream" /\ r.fd = i
        BY <1>1, <3>0 DEF Jobs
      <3>5. (Shut(r) /\ Sure(r))'
        BY <3>2, <3>3, <3>4 DEF Shut, Sure
      <3>6. Apart'
        BY <3>2, <3>3 DEF Apart, Exists
      <3>7. alias' = alias
        BY <1>13 DEF Open
      <3> QED
        BY <3>1, <3>5, <3>6, <3>7 DEF Settled, FetchBecomes
    <2> QED
      BY <2>1, <2>2
  <1>14. CASE Receive(p)
    <2>0. PICK r : r = [j EXCEPT !.next = @ + 1, !.pos = @ + 1]
      OBVIOUS
    <2>1. j.pc = "stream" /\ FetchBecomes(p, r) /\ entry' = entry /\ alias' = alias
      BY <2>0, <1>14 DEF Receive, Is
    <2>2. r.pc = "stream" /\ r.fd = j.fd
      BY <2>0, <1>1, <2>1 DEF Jobs
    <2>3. (Shut(r) /\ Sure(r))'
      BY <2>0, <1>1, <2>1, <2>2 DEF Shut, Sure
    <2> QED
      BY <2>0, <1>1, <2>1, <2>3 DEF Settled, FetchBecomes, Apart, Exists
  <1>15. CASE Break(p)
    BY <1>4, <1>6, <1>15 DEF Break
  <1>16. CASE EndOfBody(p)
    <2> DEFINE r == Entering(Quiet(j), "verify")
    <2>1. UNCHANGED diskVars /\ (FetchBecomes(p, r) \/ FaultBy(p, r))
      BY <1>16 DEF EndOfBody
    <2>2. r \in Jobs /\ r.pc = "verify" /\ r.fd = NoInode
      BY <1>1, QuietType, QuietFields, EnteringType, EnteringFields DEF JobOK, FetchLabels
    <2> HIDE DEF r
    <2> QED
      BY <1>6, <2>1, <2>2, LightStep DEF Light
  <1>17. CASE VerifyFile(p)
    <2>1. UNCHANGED diskVars /\ j.pc = "verify"
      BY <1>17 DEF VerifyFile, Is
    <2>2. CASE \E l \in {"discard", "failed"} :
                  FetchBecomes(p, Entering(j, l)) \/ FaultBy(p, Entering(j, l))
      BY <1>5, <1>6, <2>1, <2>2 DEF Light
    <2>3. CASE /\ FetchBecomes(p, Entering(j, "publish"))
               /\ j.request.want # Unchecked => Holds("incomplete") = wanted
      BY <1>8, <2>1, <2>3
    <2> QED
      BY <1>17, <2>2, <2>3 DEF VerifyFile, FetchGoto, Checked, Request
  <1>18. CASE Discard(p)
    <2>1. alias' = alias /\ (FetchBecomes(p, Retry(p)) \/ FaultBy(p, Retry(p)))
      BY <1>18 DEF Discard
    <2>2. Apart'
      <3>1. CASE Unlink("incomplete")
        BY <1>1, <3>1, UnlinkIncomplete DEF Apart
      <3>2. CASE UNCHANGED <<entry, file>>
        BY <1>1, <3>2 DEF Apart, Exists
      <3> QED
        BY <1>18, <3>1, <3>2 DEF Discard
    <2> QED
      BY <1>4, <2>1, <2>2
  <1>19. CASE NextOrigin(p)
    <2> DEFINE r == [j EXCEPT !.pc = "size", !.attempt = 0, !.origin = @ + 1]
    <2>1. alias' = alias /\ j.pc = "origin" /\ (FetchBecomes(p, r) \/ FaultBy(p, r))
      BY <1>19 DEF NextOrigin, Is
    <2>2. Apart'
      <3>1. CASE Unlink("incomplete")
        BY <1>1, <3>1, UnlinkIncomplete DEF Apart
      <3>2. CASE UNCHANGED <<entry, file>>
        BY <1>1, <3>2 DEF Apart, Exists
      <3> QED
        BY <1>19, <3>1, <3>2 DEF NextOrigin
    <2>3. r \in Jobs
      <3>1. j.origin \in 1 .. 2 /\ j.origin < j.request.origins
            /\ j.request \in Requests \cup {NoRequest}
        BY <1>1, <2>1 DEF Is, FetchTypeOK, Jobs, Origins, Request
      <3>2. j.origin + 1 \in Origins /\ 0 \in 0 .. MaxAttempts - 1
        BY <3>1, RequestType, FetchAssumption DEF Origins
      <3> QED
        BY <1>1, <3>2 DEF Jobs, FetchLabels
    <2>4. r.pc = "size" /\ r.fd = NoInode
      BY <1>1, <2>1 DEF Jobs, Shut
    <2> HIDE DEF r
    <2> QED
      BY <2>1, <2>2, <2>3, <2>4, LightStep DEF Light
  <1>20. CASE PublishFile(p)
    <2>1. alias' = alias /\ j.pc = "publish" /\ j.fd = NoInode
      BY <1>1, <1>20 DEF PublishFile, Is, Shut
    <2>2. CASE /\ FetchBecomes(p, FetchFailed(p)) \/ FaultBy(p, FetchFailed(p))
               /\ UNCHANGED <<entry, file>>
      <3>1. UNCHANGED diskVars
        BY <2>1, <2>2 DEF diskVars
      <3> QED
        BY <1>5, <1>6, <2>1, <2>2, <3>1 DEF FetchFailed, Light
    <2>3. CASE /\ Exists("incomplete") /\ Rebind("final", entry["incomplete"])
               /\ FetchGoto(p, "alias")
      <3>0. PICK r : r = Entering(j, "alias")
        OBVIOUS
      <3>1. r.pc = "alias" /\ r.fd = NoInode /\ r.request = j.request
        BY <3>0, <1>3, <2>1 DEF FetchLabels, Alike
      <3>2. FetchBecomes(p, r)
        BY <3>0, <2>3 DEF FetchGoto
      <3>3. ~Exists("incomplete")' /\ Holds("final")' = Holds("incomplete")
        BY <2>3, Renaming
      <3>4. j.request.want # Unchecked => Holds("incomplete") = wanted
        BY <1>1, <2>1, <2>3 DEF Sure
      <3>5. (Shut(r) /\ Sure(r))'
        BY <3>0, <3>1, <3>3, <3>4 DEF Shut, Sure
      <3> QED
        BY <3>0, <2>1, <3>2, <3>3, <3>5 DEF Settled, FetchBecomes, Apart
    <2> QED
      BY <1>20, <2>2, <2>3 DEF PublishFile
  <1>21. ASSUME UNCHANGED <<entry, file>>, cleanups' = cleanups, j.pc \in {"alias", "symlink"},
                NEW l \in {"symlink", "use"}, FetchBecomes(p, Entering(j, l)),
                alias = "ours" => alias' = "ours", l = "use" => alias' = "ours"
        PROVE  Landed
    <2>0. PICK r : r = Entering(j, l)
      OBVIOUS
    <2>1. r.pc = l /\ r.fd = NoInode /\ r.request = j.request
      BY <2>0, <1>1, <1>3, <1>21 DEF FetchLabels, Alike, Shut
    <2>2. Holds("final")' = Holds("final") /\ Apart' /\ (Gone <=> Gone')
      BY <1>1, <1>21 DEF Holds, Exists, Apart, Gone
    <2>3. (Shut(r) /\ Sure(r))'
      BY <2>0, <1>1, <1>21, <2>1, <2>2 DEF Shut, Sure
    <2> QED
      BY <2>0, <1>21, <2>2, <2>3 DEF Settled, FetchBecomes
  <1>22. ASSUME UNCHANGED <<entry, file>>, j.pc # "stream", alias = "ours" => alias' = "ours",
                FetchBecomes(p, FetchFailed(p)) \/ FaultBy(p, FetchFailed(p))
         PROVE  Landed
    BY <1>1, <1>5, <1>22 DEF FetchFailed, Light, Apart, Exists
  <1>23. CASE InspectAlias(p)
    BY <1>21, <1>22, <1>23 DEF InspectAlias, FetchGoto, Is, restVars
  <1>24. CASE MakeAlias(p)
    BY <1>21, <1>22, <1>24 DEF MakeAlias, FetchGoto, Is, restVars
  <1>25. CASE Use(p)
    <2>0. PICK r : r = [j EXCEPT !.pc = "ok", !.used = Holds("final")]
      OBVIOUS
    <2>1. UNCHANGED diskVars /\ cleanups' = cleanups /\ j.pc = "use" /\ FetchBecomes(p, r)
      BY <2>0, <1>25 DEF Use, Is, restVars
    <2>2. r.pc = "ok" /\ r.fd = NoInode /\ r.request = j.request /\ r.used = Holds("final")
      BY <2>0, <1>1, <2>1 DEF Jobs, Shut
    <2>3. (Shut(r) /\ Sure(r))'
      <3>1. alias' = alias
        BY <2>0, <2>1, DiskStill
      <3> QED
        BY <2>0, <1>1, <2>1, <2>2, <3>1 DEF Shut, Sure, Gone
    <2> QED
      BY <2>0, <1>6, <2>1, <2>3 DEF Settled, FetchBecomes
  <1> QED
    BY <1>7, <1>9, <1>10, <1>11, <1>12, <1>13, <1>14, <1>15, <1>16, <1>17, <1>18, <1>19, <1>20,
       <1>23, <1>24, <1>25 DEF FetchStep

LEMMA FreshFields ==
    ASSUME FetchTypeOK, NEW p \in Clients, BeginFetch(p)
    PROVE  \E r \in Requests, j \in Jobs :
              /\ job' = [job EXCEPT ![p] = j] /\ j.pc = "reuse" /\ j.fd = NoInode
              /\ j.start = [incomplete |-> Holds("incomplete"), final |-> Holds("final")]
              /\ j.attempt = 0 /\ j.origin = 1 /\ j.request = r
  <1> DEFINE s == [incomplete |-> Holds("incomplete"), final |-> Holds("final")]
             j(r) == [NoFetch EXCEPT !.pc = "reuse", !.request = r, !.start = s]
  <1>1. PICK r \in Requests : FetchBecomes(p, j(r))
    BY DEF BeginFetch
  <1> HIDE DEF s
  <1>2. /\ j(r).pc = "reuse" /\ j(r).fd = NoInode /\ j(r).start = s
        /\ j(r).attempt = 0 /\ j(r).origin = 1 /\ j(r).request = r
    BY DEF NoFetch
  <1> HIDE DEF j
  <1>3. job' = [job EXCEPT ![p] = j(r)]
    BY <1>1 DEF FetchBecomes
  <1>4. PICK k : FetchBecomes(p, k) /\ JobOK(k)
    BY BeginType
  <1>5. k = j(r)
    BY <1>3, <1>4 DEF FetchBecomes, FetchTypeOK
  <1> QED
    BY <1>2, <1>3, <1>4, <1>5 DEF JobOK, s

LEMMA KilledFields ==
    ASSUME FetchTypeOK, NEW p \in Clients, KillFetch(p)
    PROVE  \E j \in Jobs : /\ job' = [job EXCEPT ![p] = j] /\ j.pc = "killed" /\ j.fd = NoInode
                           /\ Alike(j, job[p])
  <1> DEFINE j == Quiet(job[p])
  <1>1. j \in Jobs /\ j.fd = NoInode /\ Alike(j, job[p])
    BY QuietType, QuietFields DEF FetchTypeOK
  <1> HIDE DEF j
  <1>2. Entering(j, "killed") \in Jobs /\ Entering(j, "killed").pc = "killed"
        /\ Entering(j, "killed").fd = NoInode /\ Alike(Entering(j, "killed"), job[p])
    BY <1>1, EnteringType, EnteringFields DEF JobOK, FetchLabels, Alike
  <1> QED
    BY <1>2 DEF KillFetch, FetchBecomes, j

LEMMA DisturbFields ==
    ASSUME FetchTypeOK, Disturb, NEW q \in Clients
    PROVE  /\ job'[q].pc = job[q].pc /\ job'[q].fd = job[q].fd /\ Alike(job'[q], job[q])
           /\ job'[q].healthy = FALSE
  BY UnhealthyFields DEF Disturb, FetchTypeOK

LEMMA SharedInit == FetchInit => SharedInv
  <1> SUFFICES ASSUME FetchInit PROVE SharedInv
    OBVIOUS
  <1>1. Apart
    <2>1. PICK final \in {NoInode, 1}, part \in {NoInode, 2} :
             entry = [incomplete |-> part, final |-> final]
      BY DEF FetchInit
    <2> QED
      BY <2>1, FetchAssumption DEF Apart, Exists
  <1>2. \A q \in Clients : job[q].pc = "idle" /\ job[q].fd = NoInode
    BY DEF FetchInit, NoFetch
  <1>3. \A q \in Clients : Shut(job[q]) /\ Sure(job[q])
    BY <1>2 DEF Shut, Sure
  <1> QED
    BY <1>1, <1>3 DEF FetchInit, SharedInv

LEMMA SharedNext ==
    ASSUME FetchTypeOK, SharedInv, OneAtATime, [FetchNext]_fetchVars
    PROVE  SharedInv'
  <1>0. /\ \A q \in Clients : Shut(job[q]) /\ Sure(job[q])
        /\ Apart /\ (sweep # {} => cleanups > 0) /\ cleanups \in Nat
        /\ job \in [Clients -> Jobs]
    BY DEF SharedInv, FetchTypeOK
  <1>1. ASSUME UNCHANGED diskVars
        PROVE  /\ Apart' /\ entry' = entry /\ Holds("final")' = Holds("final")
               /\ Holds("incomplete")' = Holds("incomplete") /\ alias' = alias
    BY <1>0, <1>1, DiskStill DEF Names
  <1>2. CASE UNCHANGED fetchVars
    <2>1. \A q \in Clients : (Shut(job[q]) /\ Sure(job[q]))'
      BY <1>0, <1>2 DEF fetchVars, Shut, Sure, Gone, Exists, Holds
    <2> QED
      BY <1>0, <1>2, <2>1 DEF fetchVars, SharedInv, Apart, Exists
  <1>3. ASSUME NEW p \in Clients, NEW r, job' = [job EXCEPT ![p] = r], r.pc \in Light,
               r.fd = NoInode, UNCHANGED <<diskVars, sweep, cleanups>>
        PROVE  SharedInv'
    <2>1. ASSUME NEW q \in Clients PROVE (Shut(job[q]) /\ Sure(job[q]))'
      <3>1. CASE q = p
        <4>1. job'[q] = r
          BY <1>0, <1>3, <3>1
        <4> QED
          BY <1>3, <4>1, LightFine DEF Shut, Sure
      <3>2. CASE q # p
        <4>1. job'[q] = job[q]
          BY <1>0, <1>3, <3>2
        <4> QED
          BY <1>0, <1>1, <1>3, <4>1 DEF Shut, Sure, Gone, Exists
      <3> QED
        BY <3>1, <3>2
    <2> QED
      BY <1>0, <1>1, <1>3, <2>1 DEF SharedInv
  <1>4. ASSUME NEW p \in Clients, BeginFetch(p) PROVE SharedInv'
    BY <1>3, <1>4, FreshFields DEF BeginFetch, Light
  <1>5. ASSUME NEW p \in Clients, KillFetch(p) PROVE SharedInv'
    BY <1>3, <1>5, KilledFields DEF KillFetch, Light, restVars
  <1>6. ASSUME NEW p \in Clients, FetchStep(p) PROVE SharedInv'
    <2>1. PICK r : Settled(p, r)
      BY <1>6, SureStep
    <2>2. UNCHANGED restVars
      BY <1>6, StepType
    <2>3. Fetching(p)
      BY <1>6 DEF FetchStep, Reuse, Complete, Measure, Respond, Recheck, Open, Receive, Break,
         EndOfBody, VerifyFile, Discard, NextOrigin, PublishFile, InspectAlias, MakeAlias, Use,
         Is, Fetching
    <2>4. ASSUME NEW q \in Clients PROVE (Shut(job[q]) /\ Sure(job[q]))'
      <3>1. CASE q = p
        <4>1. job'[q] = r
          BY <1>0, <2>1, <3>1 DEF Settled
        <4> QED
          BY <2>1, <4>1 DEF Settled, Shut, Sure
      <3>2. CASE q # p
        <4>1. job'[q] = job[q] /\ job[q].pc \in {"idle", "ok", "failed", "killed"}
          BY <1>0, <2>1, <2>3, <3>2 DEF Settled, OneAtATime, Fetching
        <4>2. Shut(job[q]) /\ Sure(job[q])
          BY <1>0
        <4> QED
          BY <2>1, <2>2, <4>1, <4>2 DEF Shut, Sure, Settled, restVars
      <3> QED
        BY <3>1, <3>2
    <2> QED
      BY <1>0, <2>1, <2>2, <2>4 DEF SharedInv, Settled, restVars
  <1>7. ASSUME NEW o \in Origins, NewRelease(o) PROVE SharedInv'
    <2>1. \A q \in Clients : Alike(job'[q], job[q]) /\ job'[q].pc = job[q].pc
                             /\ job'[q].fd = job[q].fd
      BY <1>7, DisturbFields DEF NewRelease
    <2>2. ASSUME NEW q \in Clients PROVE (Shut(job[q]) /\ Sure(job[q]))'
      <3>1. Shut(job[q]) /\ Sure(job[q])
        BY <1>0
      <3> QED
        BY <1>1, <1>7, <2>1, <3>1 DEF NewRelease, Shut, Sure, Gone, Exists, Alike
    <2> QED
      BY <1>0, <1>1, <1>7, <2>2 DEF NewRelease, SharedInv
  <1>8. CASE ListCache
    <2>1. cleanups' = cleanups + 1 /\ job' = job /\ UNCHANGED diskVars
      BY <1>8 DEF ListCache
    <2>2. cleanups' > 0
      BY <1>0, <2>1
    <2>3. ASSUME NEW q \in Clients PROVE (Shut(job[q]) /\ Sure(job[q]))'
      <3>1. Shut(job[q]) /\ Sure(job[q])
        BY <1>0
      <3> QED
        BY <1>1, <2>1, <2>2, <3>1 DEF Shut, Sure, Gone, Exists
    <2> QED
      BY <1>0, <1>1, <2>1, <2>2, <2>3 DEF SharedInv
  <1>9. ASSUME NEW n \in Names \cup {"alias"}, RemoveListed(n) PROVE SharedInv'
    <2>1. /\ cleanups > 0 /\ cleanups' = cleanups /\ n \in sweep
      BY <1>0, <1>9 DEF RemoveListed
    <2>2. \A q \in Clients : Alike(job'[q], job[q]) /\ job'[q].pc = job[q].pc
                             /\ job'[q].fd = job[q].fd
      BY <1>9, DisturbFields DEF RemoveListed
    <2>3. /\ Apart'
          /\ Holds("final")' \in {Holds("final"), <<>>}
          /\ Exists("incomplete")' =>
                Exists("incomplete") /\ Holds("incomplete")' = Holds("incomplete")
          /\ entry'["final"] \in {entry["final"], NoInode}
      <3>1. CASE UNCHANGED <<entry, file>>
        BY <1>0, <3>1 DEF Apart, Exists, Holds
      <3>2. CASE Unlink("incomplete")
        BY <1>0, <3>2, UnlinkIncomplete DEF Apart
      <3>3. CASE Unlink("final")
        BY <1>0, <3>3, UnlinkFinal DEF Apart, Exists
      <3> QED
        BY <1>9, <3>1, <3>2, <3>3 DEF RemoveListed, Names
    <2>4. ASSUME NEW q \in Clients PROVE (Shut(job[q]) /\ Sure(job[q]))'
      <3>1. Shut(job[q]) /\ Sure(job[q])
        BY <1>0
      <3>2. Shut(job[q])'
        BY <2>2, <2>3, <3>1, FetchAssumption DEF Shut
      <3>3. Sure(job[q])'
        BY <2>1, <2>2, <2>3, <3>1 DEF Sure, Gone, Alike
      <3> QED
        BY <3>2, <3>3
    <2> QED
      BY <2>1, <2>3, <2>4 DEF SharedInv
  <1> QED
    BY <1>2, <1>4, <1>5, <1>6, <1>7, <1>8, <1>9 DEF FetchNext

\* A client uses what it asked for, verified, as long as fetches of one entry do not
\* overlap: a fetch may be killed, find any leftovers and servers, and a cleanup may run
\* beside it.  Fetches that overlap are the finding of downloads_shared.
THEOREM OnlyVerified == FetchSpec /\ []OneAtATime => []UsedVerified
  <1>1. FetchTypeOK /\ SharedInv /\ OneAtATime /\ [FetchNext]_fetchVars => SharedInv'
    BY SharedNext
  <1>2. SharedInv => UsedVerified
    BY DEF SharedInv, Sure, UsedVerified, Checked, Request
  <1> QED
    BY <1>1, <1>2, SharedInit, FetchTyped, PTL DEF FetchSpec

\* A fetch keeps its request, what it began with, and any trouble it had.
SameFetch(k, j) ==
    /\ k.request = j.request /\ k.start = j.start /\ (k.healthy => j.healthy)
    /\ j.origin <= j.request.origins => k.origin <= k.request.origins

LEMMA Taken ==
    ASSUME FetchTypeOK, NEW p \in Clients, NEW r \in Jobs, FetchBecomes(p, r) \/ FaultBy(p, r)
    PROVE  /\ job'[p].pc = r.pc /\ job'[p].fd = r.fd /\ SameFetch(job'[p], r)
           /\ job'[p].healthy => FetchBecomes(p, r) /\ job'[p] = r
  <1>1. CASE FetchBecomes(p, r)
    BY <1>1 DEF FetchBecomes, FetchTypeOK, SameFetch
  <1>2. CASE FaultBy(p, r)
    BY <1>2, UnhealthyFields DEF FetchBecomes, FaultBy, FetchTypeOK, SameFetch, Alike
  <1> QED
    BY <1>1, <1>2

LEMMA EnteringSame ==
    ASSUME NEW j \in Jobs, NEW l
    PROVE  /\ SameFetch(Entering(j, l), j) /\ Entering(j, l).attempt = j.attempt
           /\ Entering(j, l).origin = j.origin /\ Entering(j, l).pc = l
           /\ Entering(j, l).existing = j.existing /\ Entering(j, l).append = j.append
           /\ Entering(j, l).body = j.body /\ Entering(j, l).next = j.next
  BY DEF SameFetch, Entering, Jobs

LEMMA QuietSame ==
    ASSUME NEW j \in Jobs
    PROVE  /\ SameFetch(Quiet(j), j) /\ Quiet(j).attempt = j.attempt /\ Quiet(j).origin = j.origin
  BY DEF SameFetch, Quiet, Jobs

LEMMA RetrySame ==
    ASSUME NEW p \in Clients, job[p] \in Jobs
    PROVE  /\ SameFetch(Retry(p), job[p]) /\ Retry(p).origin = job[p].origin
           /\ job[p].attempt + 1 < MaxAttempts => Retry(p).pc = "size"
           /\ Retry(p).pc = "failed" => job[p].origin >= job[p].request.origins
           /\ Retry(p).pc \in {"size", "origin", "failed"}
  <1> DEFINE j == Quiet(job[p])
  <1>1. j \in Jobs /\ SameFetch(j, job[p]) /\ j.attempt = job[p].attempt /\ j.origin = job[p].origin
    BY QuietType, QuietSame
  <1> HIDE DEF j
  <1>2. CASE j.attempt + 1 < MaxAttempts
    <2> DEFINE a == j.attempt + 1
    <2>1. Retry(p) = [j EXCEPT !.pc = "size", !.attempt = a]
      BY <1>2 DEF Retry, j
    <2> HIDE DEF a
    <2>2. Retry(p).pc = "size" /\ SameFetch(Retry(p), j) /\ Retry(p).origin = j.origin
      BY <1>1, <2>1 DEF Jobs, SameFetch
    <2> QED
      BY <1>1, <2>2 DEF SameFetch
  <1>3. CASE ~(j.attempt + 1 < MaxAttempts)
    <2>1. Retry(p) = Entering(j, IF j.origin < j.request.origins THEN "origin" ELSE "failed")
      BY <1>3 DEF Retry, j
    <2>2. CASE j.origin < j.request.origins
      BY <1>1, <1>3, <2>1, <2>2, EnteringSame DEF SameFetch
    <2>3. CASE ~(j.origin < j.request.origins)
      <3>1. j.origin \in 1 .. 2 /\ j.request.origins \in 1 .. 2
        BY <1>1, RequestType DEF Jobs, Origins
      <3> QED
        BY <1>1, <1>3, <2>1, <2>3, <3>1, EnteringSame DEF SameFetch
    <2> QED
      BY <2>2, <2>3
  <1> QED
    BY <1>2, <1>3

\* The record of an answer: the body begins at `start'.
BodyFrom(j, start) ==
    [j EXCEPT !.pc = "recheck", !.body = served[j.origin], !.next = start, !.append = start > 1]
LEMMA BodyFromFields ==
    ASSUME FetchTypeOK, NEW j \in Jobs, NEW start \in 1 .. Size
    PROVE  LET r == BodyFrom(j, start)
           IN  /\ r \in Jobs /\ SameFetch(r, j) /\ r.pc = "recheck" /\ r.body = served[j.origin]
               /\ r.next = start /\ r.append = (start # 1) /\ r.attempt = j.attempt
               /\ r.existing = j.existing /\ r.fd = j.fd /\ r.origin = j.origin
  <1>1. j.origin \in Origins /\ served[j.origin] \in Releases
    BY DEF Jobs, FetchTypeOK
  <1>2. start \in 1 .. Size + 1 /\ (start > 1) \in BOOLEAN /\ (start > 1) = (start # 1)
    BY FetchAssumption
  <1> DEFINE b == served[j.origin]  t == start > 1
  <1>3. b \in Releases \cup {Unchecked} /\ t \in BOOLEAN
    BY <1>1, <1>2
  <1> HIDE DEF b, t
  <1>4. LET r == [j EXCEPT !.pc = "recheck", !.body = b, !.next = start, !.append = t]
        IN  /\ r \in Jobs /\ r.request = j.request /\ r.start = j.start /\ r.healthy = j.healthy
            /\ r.pc = "recheck" /\ r.body = b
            /\ r.next = start /\ r.append = t /\ r.attempt = j.attempt
            /\ r.existing = j.existing /\ r.fd = j.fd /\ r.origin = j.origin
    BY <1>2, <1>3 DEF Jobs, FetchLabels
  <1> QED
    BY <1>2, <1>4 DEF BodyFrom, b, t, SameFetch

LEMMA Answers ==
    ASSUME FetchTypeOK, NEW p \in Clients, Respond(p)
    PROVE  \/ /\ \E start \in 1 .. Size : FetchBecomes(p, BodyFrom(job[p], start))
                                          /\ \/ start = 1
                                             \/ /\ start = job[p].existing + 1
                                                /\ job[p].existing \in 1 .. Size - 1
              /\ NoFault
           \/ job[p].existing >= Size /\ FetchBecomes(p, Retry(p))
           \/ FaultBy(p, Retry(p))
  <1>1. 1 \in 1 .. Size /\ \A n \in 1 .. Size - 1 : n + 1 \in 1 .. Size
    BY FetchAssumption
  <1>2. CASE FetchBecomes(p, BodyFrom(job[p], 1)) /\ NoFault
    BY <1>1, <1>2
  <1>3. CASE /\ job[p].existing \in 1 .. Size - 1 /\ NoFault
             /\ FetchBecomes(p, BodyFrom(job[p], job[p].existing + 1))
    BY <1>1, <1>3
  <1> QED
    BY <1>2, <1>3 DEF Respond, BodyFrom

\* One step of a fetch.
LEMMA StepSame ==
    ASSUME FetchTypeOK, NEW p \in Clients, FetchStep(p)
    PROVE  SameFetch(job'[p], job[p]) /\ job'[p] \in Jobs
  <1> DEFINE j == job[p]
  <1>1. j \in Jobs
    BY DEF FetchTypeOK
  <1>2. job'[p] \in Jobs
    <2>1. PICK r : (FetchBecomes(p, r) \/ FaultBy(p, r)) /\ JobOK(r)
      BY StepType
    <2> QED
      BY <2>1, UnhealthyFields DEF FetchBecomes, FaultBy, JobOK, FetchTypeOK
  <1> SUFFICES SameFetch(job'[p], job[p])
    BY <1>2
  <1>3. ASSUME NEW r \in Jobs, SameFetch(r, j), FetchBecomes(p, r) \/ FaultBy(p, r)
        PROVE  SameFetch(job'[p], j)
    BY <1>3, Taken DEF SameFetch
  <1>4. ASSUME NEW l \in FetchLabels \ {"origin"},
               FetchBecomes(p, Entering(j, l)) \/ FaultBy(p, Entering(j, l))
        PROVE  SameFetch(job'[p], j)
    <2>1. Entering(j, l) \in Jobs
      BY <1>1, EnteringType DEF JobOK
    <2> QED
      BY <1>1, <1>3, <1>4, <2>1, EnteringSame
  <1>5. ASSUME FetchBecomes(p, Retry(p)) \/ FaultBy(p, Retry(p))
        PROVE  SameFetch(job'[p], j)
    <2>1. Retry(p) \in Jobs
      BY <1>1, RetryType DEF JobOK
    <2> QED
      BY <1>1, <1>3, <1>5, <2>1, RetrySame
  <1>6. CASE Reuse(p)
    BY <1>4, <1>6 DEF Reuse, Unreadable, FetchGoto, FetchFailed, FetchLabels
  <1>7. CASE Complete(p)
    BY <1>4, <1>7 DEF Complete, Unreadable, FetchGoto, FetchFailed, FetchLabels
  <1>8. CASE Measure(p)
    <2> DEFINE n == Len(Holds("incomplete"))
               r == [j EXCEPT !.pc = "send", !.existing = n]
    <2>1. n \in Nat
      BY HoldsType DEF FetchTypeOK, DiskOK, Names
    <2> HIDE DEF n
    <2>2. r \in Jobs /\ SameFetch(r, j)
      BY <1>1, <2>1 DEF Jobs, FetchLabels, SameFetch
    <2> QED
      BY <1>3, <1>8, <2>2 DEF Measure, n
  <1>9. CASE Respond(p)
    BY <1>1, <1>3, <1>5, <1>9, Answers, BodyFromFields
  <1>10. CASE Recheck(p)
    BY <1>4, <1>5, <1>10 DEF Recheck, FetchGoto, FetchLabels
  <1>11. CASE Open(p)
    <2> DEFINE i == IF Exists("incomplete") THEN entry["incomplete"]
                    ELSE CHOOSE k \in Unused : TRUE
    <2>1. CASE FaultBy(p, Retry(p))
      BY <1>5, <2>1
    <2>2. CASE FetchBecomes(p, [j EXCEPT !.pc = "stream", !.fd = i, !.pos = 0])
      <3> HIDE DEF i
      <3> DEFINE r == [j EXCEPT !.pc = "stream", !.fd = i, !.pos = 0]
      <3>1. job'[p] = r
        BY <2>2 DEF FetchBecomes, FetchTypeOK
      <3>2. SameFetch(r, j)
        BY <1>1 DEF Jobs, SameFetch
      <3> QED
        BY <3>1, <3>2
    <2> QED
      BY <1>11, <2>1, <2>2 DEF Open
  <1>12. CASE Receive(p)
    <2> DEFINE r == [j EXCEPT !.next = @ + 1, !.pos = @ + 1]
    <2>1. job'[p] = r
      BY <1>12 DEF Receive, FetchBecomes, FetchTypeOK
    <2>2. SameFetch(r, j)
      BY <1>1 DEF Jobs, SameFetch
    <2> QED
      BY <2>1, <2>2
  <1>13. CASE Break(p)
    BY <1>5, <1>13 DEF Break
  <1>14. CASE EndOfBody(p)
    <2> DEFINE r == Entering(Quiet(j), "verify")
    <2>1. r \in Jobs /\ SameFetch(r, j)
      BY <1>1, QuietType, QuietSame, EnteringType, EnteringSame DEF JobOK, FetchLabels, SameFetch
    <2> HIDE DEF r
    <2>2. FetchBecomes(p, r) \/ FaultBy(p, r)
      BY <1>14 DEF EndOfBody, r
    <2> QED
      BY <1>3, <2>1, <2>2
  <1>15. CASE VerifyFile(p)
    BY <1>4, <1>15 DEF VerifyFile, FetchGoto, FetchLabels
  <1>16. CASE Discard(p)
    BY <1>5, <1>16 DEF Discard
  <1>17. CASE NextOrigin(p)
    <2> DEFINE o == j.origin + 1
               r == [j EXCEPT !.pc = "size", !.attempt = 0, !.origin = o]
    <2>0. /\ j.origin \in 1 .. 2 /\ j.origin < j.request.origins
          /\ j.request \in Requests \cup {NoRequest} /\ j.request.origins \in 1 .. 2
      BY <1>1, <1>17, RequestType DEF NextOrigin, Is, FetchTypeOK, Jobs, Origins, Request
    <2>1. o \in Origins /\ 0 \in 0 .. MaxAttempts - 1
      BY <2>0, FetchAssumption DEF Origins
    <2> HIDE DEF o
    <2>2. r \in Jobs /\ r.request = j.request /\ r.start = j.start /\ r.healthy = j.healthy
          /\ r.origin = o
      BY <1>1, <2>1 DEF Jobs, FetchLabels
    <2>4. SameFetch(r, j)
      BY <2>0, <2>2 DEF SameFetch, o
    <2>3. FetchBecomes(p, r) \/ FaultBy(p, r)
      BY <1>17 DEF NextOrigin, o
    <2> QED
      BY <1>3, <2>2, <2>3, <2>4
  <1>18. CASE PublishFile(p)
    BY <1>4, <1>18 DEF PublishFile, FetchGoto, FetchFailed, FetchLabels
  <1>19. CASE InspectAlias(p)
    BY <1>4, <1>19 DEF InspectAlias, FetchGoto, FetchFailed, FetchLabels
  <1>20. CASE MakeAlias(p)
    BY <1>4, <1>20 DEF MakeAlias, FetchGoto, FetchFailed, FetchLabels
  <1>21. CASE Use(p)
    <2> DEFINE r == [j EXCEPT !.pc = "ok", !.used = Holds("final")]
    <2>1. job'[p] = r
      BY <1>21 DEF Use, FetchBecomes, FetchTypeOK
    <2>2. SameFetch(r, j)
      BY <1>1 DEF Jobs, SameFetch
    <2> QED
      BY <2>1, <2>2
  <1> QED
    BY <1>2, <1>6, <1>7, <1>8, <1>9, <1>10, <1>11, <1>12, <1>13, <1>14, <1>15, <1>16, <1>17, <1>18,
       <1>19, <1>20, <1>21 DEF FetchStep

\* A step of a fetch touches the final file by renaming the verified one only.
LEMMA StepFinal ==
    ASSUME FetchTypeOK, SharedInv, NEW p \in Clients, FetchStep(p)
    PROVE  \/ Holds("final")' = Holds("final")
           \/ Checked(p) => Holds("final")' = Whole(Request(p).want)
  <1> DEFINE j == job[p]
             Still == Holds("final")' = Holds("final")
  <1>1. j \in Jobs /\ Shut(j) /\ Sure(j) /\ Apart
    BY DEF FetchTypeOK, SharedInv
  <1>2. ASSUME UNCHANGED <<entry, file>> PROVE Still
    BY <1>2 DEF Holds, Exists
  <1>3. ASSUME NEW i, i # entry["final"], entry'["final"] = entry["final"],
               file' = file \/ \E s : file' = [file EXCEPT ![i] = s]
        PROVE  Still
    BY <1>3 DEF Holds, Exists, FetchTypeOK, Names
  <1>4. CASE Open(p)
    <2> DEFINE i == IF Exists("incomplete") THEN entry["incomplete"]
                    ELSE CHOOSE k \in Unused : TRUE
    <2>1. CASE UNCHANGED <<entry, file>>
      BY <1>2, <2>1
    <2>2. CASE ~UNCHANGED <<entry, file>>
      <3>1. /\ entry' = [entry EXCEPT !["incomplete"] = i]
            /\ file' = file \/ file' = [file EXCEPT ![i] = <<>>]
            /\ Exists("incomplete") \/ Unused # {}
        BY <1>4, <2>2 DEF Open
      <3>2. i # entry["final"]
        <4>1. CASE Exists("incomplete")
          BY <1>1, <4>1 DEF Apart
        <4>2. CASE ~Exists("incomplete")
          <5>1. i \in Unused
            BY <3>1, <4>2
          <5> QED
            BY <5>1 DEF Unused, Names
        <4> QED
          BY <4>1, <4>2
      <3> HIDE DEF i
      <3>3. entry'["final"] = entry["final"]
        BY <3>1 DEF FetchTypeOK, Names
      <3> QED
        BY <1>3, <3>1, <3>2, <3>3
    <2> QED
      BY <2>1, <2>2
  <1>5. CASE Receive(p)
    <2>1. j.fd # entry["final"]
      BY <1>1, <1>5 DEF Receive, Is, Shut
    <2> QED
      BY <1>3, <1>5, <2>1 DEF Receive
  <1>6. CASE Discard(p)
    BY <1>1, <1>2, <1>6, UnlinkIncomplete DEF Discard
  <1>7. CASE NextOrigin(p)
    BY <1>1, <1>2, <1>7, UnlinkIncomplete DEF NextOrigin
  <1>8. CASE PublishFile(p)
    <2>1. CASE UNCHANGED <<entry, file>>
      BY <1>2, <2>1
    <2>2. CASE Exists("incomplete") /\ Rebind("final", entry["incomplete"])
      BY <1>1, <1>8, <2>2, Renaming DEF PublishFile, Is, Sure, Checked, Request
    <2> QED
      BY <1>8, <2>1, <2>2 DEF PublishFile
  <1> QED
    BY <1>2, <1>4, <1>5, <1>6, <1>7, <1>8
    DEF FetchStep, Reuse, Complete, Measure, Respond, Recheck, Break, EndOfBody, VerifyFile,
        InspectAlias, MakeAlias, Use, diskVars

LEMMA FinalNext ==
    ASSUME NEW c, Clients = {c}, FetchTypeOK, SharedInv, FinalKept, [FetchNext]_fetchVars
    PROVE  FinalKept'
  <1>0. job[c] \in Jobs /\ job \in [Clients -> Jobs] /\ cleanups \in Nat
    BY DEF FetchTypeOK
  <1> DEFINE Claim(j) == j.pc \notin {"idle", "ok"} /\ j.request.want # Unchecked /\ cleanups = 0 =>
                            \/ Holds("final") = j.start.final
                            \/ Holds("final") = Whole(j.request.want)
  <1>1. Claim(job[c])
    BY DEF FinalKept, Checked, Request
  <1>2. SUFFICES (Claim(job[c]))'
    BY DEF FinalKept, Checked, Request
  <1>3. CASE UNCHANGED fetchVars
    BY <1>1, <1>3 DEF fetchVars, Holds, Exists
  <1>4. CASE BeginFetch(c)
    <2>1. PICK j : job' = [job EXCEPT ![c] = j] /\ j.start.final = Holds("final")
      BY <1>4, FreshFields
    <2>2. Holds("final")' = Holds("final")
      BY <1>4, DiskStill DEF BeginFetch, Names
    <2> QED
      BY <1>0, <2>1, <2>2
  <1>5. CASE FetchStep(c)
    <2>1. SameFetch(job'[c], job[c]) /\ cleanups' = cleanups
      BY <1>5, StepSame, StepType DEF restVars
    <2>2. job[c].pc \notin {"idle", "ok"}
      BY <1>5 DEF FetchStep, Reuse, Complete, Measure, Respond, Recheck, Open, Receive, Break,
         EndOfBody, VerifyFile, Discard, NextOrigin, PublishFile, InspectAlias, MakeAlias, Use, Is
    <2> QED
      BY <1>1, <1>5, <2>1, <2>2, StepFinal DEF SameFetch, Checked, Request
  <1>6. CASE KillFetch(c)
    <2>1. Alike(job'[c], job[c])
      BY <1>0, <1>6, KilledFields
    <2>2. Holds("final")' = Holds("final") /\ cleanups' = cleanups
      BY <1>6, DiskStill DEF KillFetch, Names, restVars
    <2>3. job[c].pc \notin {"idle", "ok"}
      BY <1>6 DEF KillFetch, Fetching
    <2> QED
      BY <1>1, <2>1, <2>2, <2>3 DEF Alike
  <1>7. ASSUME NEW o \in Origins, NewRelease(o) PROVE (Claim(job[c]))'
    <2>1. Alike(job'[c], job[c]) /\ job'[c].pc = job[c].pc
      BY <1>7, DisturbFields DEF NewRelease
    <2>2. Holds("final")' = Holds("final") /\ cleanups' = cleanups
      BY <1>7, DiskStill DEF NewRelease, Names
    <2> QED
      BY <1>1, <2>1, <2>2 DEF Alike
  <1>8. CASE ListCache
    <2>1. cleanups' = cleanups + 1
      BY <1>8 DEF ListCache
    <2> QED
      BY <1>0, <2>1
  <1>9. ASSUME NEW n \in Names \cup {"alias"}, RemoveListed(n) PROVE (Claim(job[c]))'
    <2>1. cleanups' > 0
      BY <1>9 DEF RemoveListed, SharedInv
    <2> QED
      BY <2>1
  <1> QED
    BY <1>3, <1>4, <1>5, <1>6, <1>7, <1>8, <1>9 DEF FetchNext

LEMMA Alone == ASSUME NEW c, Clients = {c} PROVE OneAtATime
  BY DEF OneAtATime

LEMMA SharedAlone ==
    ASSUME NEW c, Clients = {c}
    PROVE  FetchSpec => [](FetchTypeOK /\ SharedInv)
  <1>1. FetchTypeOK /\ SharedInv /\ [FetchNext]_fetchVars => SharedInv'
    BY Alone, SharedNext
  <1> QED
    BY <1>1, SharedInit, FetchTyped, PTL DEF FetchSpec

\* For one client that fetches again and again: a fetch that fails or is killed leaves the
\* final file it found, unless it had already put the one it was asked for in its place.
THEOREM FinalStays ==
    ASSUME NEW c, Clients = {c}
    PROVE  FetchSpec => []FinalKept
  <1>1. FetchInit => FinalKept
    BY DEF FetchInit, FinalKept, NoFetch
  <1>2. FetchTypeOK /\ SharedInv /\ FinalKept /\ [FetchNext]_fetchVars => FinalKept'
    BY FinalNext
  <1> QED
    BY <1>1, <1>2, SharedAlone, PTL DEF FetchSpec

-----------------------------------------------------------------------------
(* A fetch without trouble: where the .incomplete stands at each label.    *)

\* A fetch with a checksum, no trouble so far and servers that have what it wants.
Right(j) ==
    /\ j.request.want # Unchecked /\ j.healthy
    /\ \A o \in 1 .. j.request.origins : served[o] = j.request.want

\* Nothing of the .incomplete was touched; it is too long to be resumed; it is empty or gone.
First(j) == Holds("incomplete") = j.start.incomplete /\ j.attempt = 0 /\ j.origin = 1
Stuck(j) ==
    Holds("incomplete") = j.start.incomplete /\ Len(j.start.incomplete) >= Size /\ j.origin = 1
Empty == Holds("incomplete") = <<>>
\* The .incomplete was not published as it was found.
Missed(j) == j.start.incomplete # Whole(j.request.want) \/ j.request.force
Prefix(b, n) == [k \in 1 .. n |-> <<b, k>>]

Steady(j) ==
    LET want == j.request.want
    IN  /\ j.pc \notin {"idle", "killed"} => j.origin <= j.request.origins
        /\ j.pc \in {"reuse", "complete"} => First(j)
        /\ j.pc \in {"size", "send", "recheck", "open", "stream", "verify", "discard", "origin",
                     "failed"} => Missed(j)
        /\ j.pc \in {"size", "send"} => First(j) \/ Stuck(j) \/ Empty
        /\ j.pc = "send" => j.existing = Len(Holds("incomplete"))
        /\ j.pc \in {"recheck", "open"} =>
              /\ j.body = want
              /\ IF j.append THEN /\ j.existing = Len(Holds("incomplete")) /\ j.attempt = 0
                                  /\ Exists("incomplete")
                 ELSE j.next = 1
        /\ j.pc = "stream" =>
              /\ j.body = want /\ j.fd = entry["incomplete"]
              /\ IF j.append THEN j.attempt = 0
                 ELSE j.pos = j.next - 1 /\ file[j.fd] = Prefix(want, j.next - 1)
        /\ j.pc = "verify" =>
              Exists("incomplete") /\ (Holds("incomplete") = Whole(want) \/ j.attempt = 0)
        /\ j.pc = "discard" => j.attempt = 0
        /\ j.pc = "origin" => Stuck(j)
        /\ j.pc = "publish" => Exists("incomplete")
        /\ j.pc = "symlink" => alias = "none"
        /\ j.pc = "failed" => j.request.origins = 1 /\ Len(j.start.incomplete) >= Size

HealthyInv == \A q \in Clients : Right(job[q]) => Steady(job[q])

LEMMA HealthyEnough == FetchTypeOK /\ HealthyInv => HealthySucceeds
  BY DEF HealthyInv, HealthySucceeds, Right, Steady, Missed, Checked, Request

\* An attempt that ended without trouble, after which the next one has something to do.
LEMMA AfterRetry ==
    ASSUME FetchTypeOK, NEW p \in Clients, FetchBecomes(p, Retry(p)), Missed(job[p]),
           Right(job[p]), job[p].origin <= job[p].request.origins,
           \/ /\ Stuck(job[p]) /\ Holds("incomplete")' = Holds("incomplete")
           \/ job[p].attempt = 0 /\ Empty'
    PROVE  Steady(job[p])'
  <1>1. PICK j \in Jobs, k \in Jobs : j = job[p] /\ k = job'[p] /\ k = Retry(p)
    BY RetryType DEF FetchTypeOK, FetchBecomes, JobOK
  <1>2. /\ k.request = j.request /\ k.start = j.start /\ k.origin = j.origin
        /\ j.attempt + 1 < MaxAttempts => k.pc = "size"
        /\ k.pc = "failed" => j.origin >= j.request.origins
        /\ k.pc \in {"size", "origin", "failed"}
    BY <1>1, RetrySame DEF SameFetch
  <1>3. j.request.origins \in 1 .. 2
    BY <1>1, RequestType DEF Jobs
  <1>4. CASE Stuck(j) /\ Holds("incomplete")' = Holds("incomplete")
    <2>1. Stuck(k)'
      BY <1>2, <1>4 DEF Stuck
    <2>2. k.pc = "failed" => j.request.origins = 1
      BY <1>2, <1>3, <1>4 DEF Stuck
    <2>3. Steady(k)'
      BY <1>1, <1>2, <1>3, <1>4, <2>1, <2>2 DEF Steady, Missed, Stuck
    <2> QED
      BY <1>1, <2>3 DEF Steady
  <1>5. CASE j.attempt = 0 /\ Empty'
    <2>1. k.pc = "size"
      BY <1>2, <1>5, FetchAssumption
    <2>2. Steady(k)'
      BY <1>1, <1>2, <1>5, <2>1 DEF Steady, Missed
    <2> QED
      BY <1>1, <2>2
  <1> QED
    BY <1>1, <1>4, <1>5 DEF Stuck

LEMMA PrefixFacts ==
    ASSUME NEW b, NEW n \in Nat
    PROVE  /\ Prefix(b, n) \in Seq({b} \X (1 .. n)) /\ Len(Prefix(b, n)) = n
           /\ \A k \in 1 .. n : Prefix(b, n)[k] = <<b, k>>
           /\ Prefix(b, 0) = <<>> /\ Prefix(b, Size) = Whole(b)
  <1>1. /\ Prefix(b, n) \in Seq({b} \X (1 .. n)) /\ Len(Prefix(b, n)) = n
        /\ \A k \in 1 .. n : Prefix(b, n)[k] = <<b, k>>
    BY DEF Prefix
  <1>2. Prefix(b, 0) = <<>>
    BY DEF Prefix
  <1>3. Prefix(b, Size) = Whole(b)
    BY DEF Prefix, Whole
  <1> QED
    BY <1>1, <1>2, <1>3

\* A chunk received where the file ends makes the prefix one longer.
LEMMA PrefixGrows ==
    ASSUME FetchTypeOK, NEW p \in Clients, Receive(p), job[p].fd \in Inodes, ~job[p].append,
           job[p].pos = job[p].next - 1,
           file[job[p].fd] = Prefix(job[p].body, job[p].next - 1)
    PROVE  file'[job[p].fd] = Prefix(job[p].body, job[p].next)
  <1> DEFINE i == job[p].fd
             b == job[p].body
             n == job[p].next
             hole == [k \in 1 .. n |-> <<Unchecked, 0>>]
             grown == file[i] \o hole
  <1>1. n \in Nat /\ n >= 1
    BY FetchAssumption DEF FetchTypeOK, Jobs
  <1>2. file[i] = Prefix(b, n - 1) /\ Len(file[i]) = n - 1
        /\ file[i] \in Seq({b} \X (1 .. n - 1)) /\ \A k \in 1 .. n - 1 : file[i][k] = <<b, k>>
    <2>1. PICK m \in Nat : m = n - 1
      BY <1>1
    <2>2. file[i] = Prefix(b, m)
      BY <2>1
    <2>3. /\ Prefix(b, m) \in Seq({b} \X (1 .. m)) /\ Len(Prefix(b, m)) = m
          /\ \A k \in 1 .. m : Prefix(b, m)[k] = <<b, k>>
      BY PrefixFacts
    <2> QED
      BY <2>1, <2>2, <2>3
  <1>3. file'[i] = [k \in 1 .. n |-> IF k = n THEN <<b, n>> ELSE grown[k]]
    <2> DEFINE at == IF job[p].append THEN Len(file[i]) + 1 ELSE job[p].pos + 1
               long == IF at > Len(file[i]) THEN at ELSE Len(file[i])
    <2>1. at = n /\ long = n
      BY <1>1, <1>2
    <2>2. file' = [file EXCEPT ![i] = [k \in 1 .. long |->
                     IF k = at THEN <<b, n>>
                     ELSE (file[i] \o [m \in 1 .. at |-> <<Unchecked, 0>>])[k]]]
      BY DEF Receive
    <2> HIDE DEF at, long
    <2>3. file'[i] = [k \in 1 .. long |->
                     IF k = at THEN <<b, n>>
                     ELSE (file[i] \o [m \in 1 .. at |-> <<Unchecked, 0>>])[k]]
      BY <2>2 DEF FetchTypeOK
    <2> QED
      BY <2>1, <2>3
  <1>4. \A k \in 1 .. n - 1 : grown[k] = <<b, k>>
    <2>1. hole \in Seq({<<Unchecked, 0>>}) /\ Len(hole) = n
      BY <1>1
    <2> HIDE DEF hole
    <2> SUFFICES ASSUME NEW k \in 1 .. n - 1 PROVE grown[k] = <<b, k>>
      OBVIOUS
    <2>2. grown[k] = file[i][k]
      BY <1>1, <1>2, <2>1
    <2> QED
      BY <1>2, <2>2
  <1> HIDE DEF grown
  <1>5. \A k \in 1 .. n : (IF k = n THEN <<b, n>> ELSE grown[k]) = <<b, k>>
    BY <1>1, <1>4
  <1> QED
    BY <1>3, <1>5 DEF Prefix

LEMMA StepSteady ==
    ASSUME FetchTypeOK, SharedInv, NEW p \in Clients, FetchStep(p),
           Right(job[p]) => Steady(job[p]), Right(job[p])'
    PROVE  Steady(job[p])'
  <1>1. PICK j \in Jobs, k \in Jobs : j = job[p] /\ k = job'[p]
    BY StepSame DEF FetchTypeOK
  <1>2. k.request = j.request /\ k.start = j.start /\ k.healthy /\ served' = served
    BY <1>1, StepSame, StepType DEF SameFetch, restVars, Right
  <1>3. Right(j) /\ Steady(j) /\ Shut(j) /\ Apart
    BY <1>1, <1>2, StepSame DEF Right, SameFetch, SharedInv
  <1>0. j.origin <= j.request.origins /\ k.origin <= k.request.origins
    <2>1. j.pc \notin {"idle", "killed"}
      BY <1>1 DEF FetchStep, Reuse, Complete, Measure, Respond, Recheck, Open, Receive, Break,
         EndOfBody, VerifyFile, Discard, NextOrigin, PublishFile, InspectAlias, MakeAlias, Use, Is
    <2> QED
      BY <1>1, <1>3, <2>1, StepSame DEF Steady, SameFetch
  <1> DEFINE want == j.request.want
  <1>4. want \in Releases /\ Whole(want) # <<>> /\ Len(Whole(want)) = Size
        /\ Holds("incomplete") \in Seq(Chunks) /\ Size \in Nat \ {0}
        /\ j.request.origins \in 1 .. 2
    BY <1>3, RequestType, WholeType, HoldsType, FetchAssumption
    DEF Right, FetchTypeOK, DiskOK, Names, Jobs
  <1>5. ASSUME NEW r \in Jobs, FetchBecomes(p, r) \/ FaultBy(p, r)
        PROVE  FetchBecomes(p, r) /\ k = r
    BY <1>1, <1>2, <1>5, Taken
  <1>6. ASSUME NEW l \in FetchLabels \ {"origin"},
               FetchBecomes(p, Entering(j, l)) \/ FaultBy(p, Entering(j, l))
        PROVE  /\ FetchBecomes(p, Entering(j, l)) /\ k.pc = l
               /\ k.attempt = j.attempt /\ k.origin = j.origin /\ k.existing = j.existing
               /\ k.append = j.append /\ k.body = j.body /\ k.next = j.next
    <2>1. Entering(j, l) \in Jobs
      BY EnteringType DEF JobOK
    <2> QED
      BY <1>5, <1>6, <2>1, EnteringSame
  <1>7. ASSUME NEW r \in Jobs PROVE ~FaultBy(p, r)
    BY <1>1, <1>2, UnhealthyFields DEF FaultBy, FetchBecomes, FetchTypeOK
  <1>8. /\ ~FaultBy(p, Retry(p))
        /\ \A l \in FetchLabels \ {"origin"} : ~FaultBy(p, Entering(j, l))
    <2>1. Retry(p) \in Jobs /\ \A l \in FetchLabels \ {"origin"} : Entering(j, l) \in Jobs
      BY <1>1, EnteringType, RetryType DEF JobOK
    <2> QED
      BY <1>7, <2>1
  <1>9. ASSUME UNCHANGED diskVars
        PROVE  /\ entry' = entry /\ file' = file /\ alias' = alias
               /\ Holds("incomplete")' = Holds("incomplete")
               /\ Exists("incomplete")' = Exists("incomplete")
    BY <1>9, DiskStill DEF diskVars, Names
  <1>10. ASSUME FetchBecomes(p, Retry(p)), Missed(j),
                \/ Stuck(j) /\ Holds("incomplete")' = Holds("incomplete")
                \/ j.attempt = 0 /\ Empty'
         PROVE  Steady(k)'
    <2>1. Steady(job[p])'
      BY <1>0, <1>1, <1>3, <1>10, AfterRetry
    <2> QED
      BY <1>1, <2>1
  <1> SUFFICES Steady(k)'
    BY <1>1
  <1>11. CASE Reuse(p)
    <2>1. UNCHANGED diskVars /\ First(j)
      BY <1>1, <1>3, <1>11 DEF Reuse, Is, Steady
    <2>2. PICK l \in {"complete", "use", "alias"} : FetchBecomes(p, Entering(j, l))
      BY <1>1, <1>8, <1>11 DEF Reuse, Unreadable, FetchGoto, FetchFailed, FetchLabels
    <2>3. k.pc = l /\ k.attempt = j.attempt /\ k.origin = j.origin
      BY <1>6, <2>2 DEF FetchLabels
    <2> QED
      BY <1>0, <1>2, <1>9, <2>1, <2>3 DEF Steady, First
  <1>12. CASE Complete(p)
    <2>1. UNCHANGED diskVars /\ First(j)
      BY <1>1, <1>3, <1>12 DEF Complete, Is, Steady
    <2>2. CASE FetchBecomes(p, Entering(j, "publish")) /\ Holds("incomplete") = Whole(want)
      <3>1. k.pc = "publish"
        BY <1>6, <2>2 DEF FetchLabels
      <3>2. Exists("incomplete")
        BY <1>4, <2>2 DEF Holds
      <3> QED
        BY <1>0, <1>9, <2>1, <3>1, <3>2 DEF Steady
    <2>3. CASE FetchBecomes(p, Entering(j, "size")) /\ Missed(j)
      <3>1. k.pc = "size" /\ k.attempt = j.attempt /\ k.origin = j.origin
        BY <1>6, <2>3 DEF FetchLabels
      <3>2. Missed(k)'
        BY <1>2, <2>3 DEF Missed
      <3>3. First(k)'
        BY <1>2, <1>9, <2>1, <3>1 DEF First
      <3> QED
        BY <1>0, <3>1, <3>2, <3>3 DEF Steady
    <2> QED
      BY <1>1, <1>3, <1>8, <1>12, <2>1, <2>2, <2>3
      DEF Complete, Unreadable, FetchGoto, FetchFailed, FetchLabels, MayReuse, Checked, Request,
          Missed, First, Right
  <1>13. CASE Measure(p)
    <2> DEFINE n == Len(Holds("incomplete"))
    <2>1. n \in Nat
      BY <1>4
    <2>2. k = [j EXCEPT !.pc = "send", !.existing = n]
      BY <1>1, <1>13 DEF Measure, FetchBecomes, FetchTypeOK
    <2> HIDE DEF n
    <2>3. k.pc = "send" /\ k.existing = n /\ k.attempt = j.attempt /\ k.origin = j.origin
      BY <2>2 DEF Jobs
    <2>4. UNCHANGED diskVars /\ Missed(j) /\ (First(j) \/ Stuck(j) \/ Empty)
      BY <1>1, <1>3, <1>13 DEF Measure, Is, Steady
    <2>5. Missed(k)' /\ (First(k) \/ Stuck(k) \/ Empty)'
      BY <1>2, <1>9, <2>3, <2>4 DEF Missed, First, Stuck, Empty
    <2>6. k.existing = Len(Holds("incomplete")')
      BY <1>9, <2>3, <2>4 DEF n
    <2> QED
      BY <1>0, <2>3, <2>5, <2>6 DEF Steady
  <1>14. CASE Respond(p)
    <2>1. /\ UNCHANGED diskVars /\ Missed(j) /\ (First(j) \/ Stuck(j) \/ Empty)
          /\ j.existing = Len(Holds("incomplete"))
      BY <1>1, <1>3, <1>14 DEF Respond, Is, Steady
    <2>2. CASE j.existing >= Size /\ FetchBecomes(p, Retry(p))
      <3>1. Stuck(j)
        BY <1>4, <2>1, <2>2 DEF First, Stuck, Empty
      <3> QED
        BY <1>9, <1>10, <2>1, <2>2, <3>1
    <2>3. ASSUME NEW start \in 1 .. Size, FetchBecomes(p, BodyFrom(j, start)),
                 start = 1 \/ (start = j.existing + 1 /\ j.existing \in 1 .. Size - 1)
          PROVE  Steady(k)'
      <3>1. k = BodyFrom(j, start)
        BY <1>1, <2>3 DEF FetchBecomes, FetchTypeOK
      <3>2. /\ k.pc = "recheck" /\ k.body = served[j.origin] /\ k.next = start
            /\ k.append = (start # 1) /\ k.attempt = j.attempt /\ k.existing = j.existing
        BY <3>1, BodyFromFields
      <3>3. served[j.origin] = want
        <4>1. j.origin \in 1 .. 2
          BY DEF Jobs, Origins
        <4>2. j.origin \in 1 .. j.request.origins
          <5>1. j.origin <= j.request.origins
            BY <1>1, <1>3, <1>14 DEF Respond, Is, Steady
          <5> QED
            BY <1>4, <4>1, <5>1
        <4> QED
          BY <1>3, <4>2 DEF Right
      <3>4. CASE start = 1
        BY <1>0, <1>2, <2>1, <3>2, <3>3, <3>4 DEF Steady, Missed
      <3>5. CASE start # 1
        <4>1. start = j.existing + 1 /\ j.existing \in 1 .. Size - 1 /\ k.append
          BY <2>3, <3>2, <3>5
        <4>2. j.attempt = 0 /\ Exists("incomplete")
          BY <1>4, <2>1, <4>1 DEF First, Stuck, Empty, Holds
        <4> QED
          BY <1>0, <1>2, <1>9, <2>1, <3>2, <3>3, <4>1, <4>2 DEF Steady, Missed
      <3> QED
        BY <3>4, <3>5
    <2> QED
      BY <1>1, <1>8, <1>14, <2>2, <2>3, Answers
  <1>15. CASE Recheck(p)
    <2>1. /\ UNCHANGED diskVars /\ Missed(j) /\ j.body = want
          /\ IF j.append THEN /\ j.existing = Len(Holds("incomplete")) /\ j.attempt = 0
                              /\ Exists("incomplete")
             ELSE j.next = 1
      BY <1>1, <1>3, <1>15 DEF Recheck, Is, Steady
    <2>2. FetchBecomes(p, Entering(j, "open"))
      BY <1>1, <1>15, <2>1 DEF Recheck, FetchGoto
    <2>3. /\ k.pc = "open" /\ k.attempt = j.attempt /\ k.existing = j.existing
          /\ k.append = j.append /\ k.body = j.body /\ k.next = j.next
      BY <1>6, <2>2 DEF FetchLabels
    <2> QED
      BY <1>0, <1>2, <1>9, <2>1, <2>3 DEF Steady, Missed
  <1>16. CASE Open(p)
    <2>1. /\ Missed(j) /\ j.body = want
          /\ IF j.append THEN j.attempt = 0 /\ Exists("incomplete") ELSE j.next = 1
      BY <1>1, <1>3, <1>16 DEF Open, Is, Steady
    <2> DEFINE i == IF Exists("incomplete") THEN entry["incomplete"]
                    ELSE CHOOSE m \in Unused : TRUE
    <2>2. /\ entry' = [entry EXCEPT !["incomplete"] = i]
          /\ file' = (IF j.append /\ Exists("incomplete") THEN file ELSE [file EXCEPT ![i] = <<>>])
          /\ job' = [job EXCEPT ![p] = [j EXCEPT !.pc = "stream", !.fd = i, !.pos = 0]]
          /\ Exists("incomplete") \/ Unused # {}
      BY <1>1, <1>8, <1>16 DEF Open, FetchBecomes
    <2>3. i \in Inodes
      <3>1. Unused \subseteq Inodes
        BY DEF Unused
      <3>2. Exists("incomplete") => entry["incomplete"] \in Inodes
        BY DEF Exists, FetchTypeOK, Names
      <3> QED
        BY <2>2, <3>1, <3>2
    <2> HIDE DEF i
    <2>4. k = [j EXCEPT !.pc = "stream", !.fd = i, !.pos = 0]
      BY <1>1, <2>2 DEF FetchTypeOK
    <2>5. /\ k.pc = "stream" /\ k.fd = i /\ k.pos = 0 /\ k.body = j.body /\ k.next = j.next
          /\ k.append = j.append /\ k.attempt = j.attempt
      BY <2>4 DEF Jobs
    <2>6. entry'["incomplete"] = i
      BY <2>2 DEF FetchTypeOK, Names
    <2>7. ~j.append => file'[i] = Prefix(want, 0)
      BY <2>2, <2>3, PrefixFacts DEF FetchTypeOK
    <2>8. ~j.append => k.pos = k.next - 1 /\ k.next - 1 = 0
      BY <2>1, <2>5
    <2> QED
      BY <1>0, <1>2, <2>1, <2>5, <2>6, <2>7, <2>8 DEF Steady, Missed
  <1>17. CASE Receive(p)
    <2>1. /\ j.pc = "stream" /\ Missed(j) /\ j.body = want /\ j.fd = entry["incomplete"]
          /\ IF j.append THEN j.attempt = 0
             ELSE j.pos = j.next - 1 /\ file[j.fd] = Prefix(want, j.next - 1)
      BY <1>1, <1>3, <1>17 DEF Receive, Is, Steady
    <2> DEFINE n == j.next + 1  m == j.pos + 1
    <2>2. k = [j EXCEPT !.next = n, !.pos = m] /\ entry' = entry
      BY <1>1, <1>17 DEF Receive, FetchBecomes, FetchTypeOK
    <2> HIDE DEF n, m
    <2>3. /\ k.pc = "stream" /\ k.fd = j.fd /\ k.body = j.body /\ k.append = j.append
          /\ k.attempt = j.attempt /\ k.next = n /\ k.pos = m
      BY <2>1, <2>2 DEF Jobs
    <2>4. j.next \in Nat /\ j.fd \in Inodes
      BY <1>3, <2>1, FetchAssumption DEF Jobs, Shut
    <2>5. ~j.append => file'[j.fd] = Prefix(want, j.next)
      BY <1>1, <1>17, <2>1, <2>4, PrefixGrows
    <2>6. ~k.append => k.pos = k.next - 1 /\ k.next - 1 = j.next
      BY <2>1, <2>3, <2>4 DEF n, m
    <2> QED
      BY <1>0, <1>2, <2>1, <2>2, <2>3, <2>5, <2>6 DEF Steady, Missed
  <1>18. CASE Break(p)
    BY <1>8, <1>18 DEF Break
  <1>19. CASE EndOfBody(p)
    <2>1. /\ UNCHANGED diskVars /\ j.pc = "stream" /\ Missed(j) /\ j.fd = entry["incomplete"]
          /\ IF j.append THEN j.attempt = 0
             ELSE j.pos = j.next - 1 /\ file[j.fd] = Prefix(want, j.next - 1)
      BY <1>1, <1>3, <1>19 DEF EndOfBody, Is, Steady
    <2> DEFINE r == Entering(Quiet(j), "verify")
    <2>2. r \in Jobs /\ r.pc = "verify" /\ r.attempt = j.attempt
      BY QuietType, QuietSame, EnteringType, EnteringSame DEF JobOK, FetchLabels
    <2> HIDE DEF r
    <2>3. j.next > Size /\ FetchBecomes(p, r)
      BY <1>1, <1>7, <1>19, <2>2 DEF EndOfBody, r
    <2>4. k = r
      BY <1>5, <2>2, <2>3
    <2>5. j.next = Size + 1
      BY <1>4, <2>3 DEF Jobs
    <2>6. Exists("incomplete") /\ Holds("incomplete") = file[j.fd]
      BY <1>3, <2>1, FetchAssumption DEF Shut, Exists, Holds
    <2>7. Holds("incomplete") = Whole(want) \/ j.attempt = 0
      <3>1. ~j.append => file[j.fd] = Prefix(want, Size)
        BY <1>4, <2>1, <2>5
      <3>2. Prefix(want, Size) = Whole(want)
        BY <1>4, PrefixFacts
      <3> QED
        BY <2>1, <2>6, <3>1, <3>2
    <2> QED
      BY <1>0, <1>2, <1>9, <2>1, <2>2, <2>4, <2>6, <2>7 DEF Steady, Missed
  <1>20. CASE VerifyFile(p)
    <2>1. /\ UNCHANGED diskVars /\ Missed(j) /\ Exists("incomplete")
          /\ Holds("incomplete") = Whole(want) \/ j.attempt = 0
      BY <1>1, <1>3, <1>20 DEF VerifyFile, Is, Steady
    <2>2. \/ FetchBecomes(p, Entering(j, "publish"))
          \/ FetchBecomes(p, Entering(j, "discard")) /\ j.attempt = 0
      BY <1>1, <1>8, <1>20, <2>1 DEF VerifyFile, FetchGoto, FetchLabels, Request
    <2>3. k.pc = "publish" \/ (k.pc = "discard" /\ k.attempt = 0)
      BY <1>6, <2>2 DEF FetchLabels
    <2> QED
      BY <1>0, <1>2, <1>9, <2>1, <2>3 DEF Steady, Missed
  <1>21. CASE Discard(p)
    <2>1. Missed(j) /\ j.attempt = 0
      BY <1>1, <1>3, <1>21 DEF Discard, Is, Steady
    <2>2. Unlink("incomplete") /\ FetchBecomes(p, Retry(p))
      BY <1>8, <1>21 DEF Discard
    <2>3. Empty'
      BY <1>3, <2>2, UnlinkIncomplete DEF Empty, Holds
    <2> QED
      BY <1>10, <2>1, <2>2, <2>3
  <1>22. CASE NextOrigin(p)
    <2> DEFINE o == j.origin + 1
               r == [j EXCEPT !.pc = "size", !.attempt = 0, !.origin = o]
    <2>1. Missed(j) /\ j.origin \in 1 .. 2 /\ j.origin < j.request.origins
      BY <1>1, <1>3, <1>22 DEF NextOrigin, Is, Steady, FetchTypeOK, Jobs, Origins, Request
    <2>2. o \in Origins /\ 0 \in 0 .. MaxAttempts - 1
      BY <1>4, <2>1, FetchAssumption DEF Origins
    <2> HIDE DEF o
    <2>3. r \in Jobs /\ r.pc = "size"
      BY <2>2 DEF Jobs, FetchLabels
    <2> HIDE DEF r
    <2>4. ~FaultBy(p, r)
      BY <1>7, <2>3
    <2>5. Unlink("incomplete") /\ FetchBecomes(p, r)
      BY <1>1, <1>22, <2>4 DEF NextOrigin, r, o
    <2>6. k = r
      BY <1>5, <2>3, <2>5
    <2>7. Empty'
      BY <1>3, <2>5, UnlinkIncomplete DEF Empty, Holds
    <2> QED
      BY <1>0, <1>2, <2>1, <2>3, <2>6, <2>7 DEF Steady, Missed
  <1>23. CASE PublishFile(p)
    <2>1. Exists("incomplete")
      BY <1>1, <1>3, <1>23 DEF PublishFile, Is, Steady
    <2>2. FetchBecomes(p, Entering(j, "alias"))
      BY <1>1, <1>8, <1>23, <2>1 DEF PublishFile, FetchGoto, FetchFailed, FetchLabels
    <2>3. k.pc = "alias"
      BY <1>6, <2>2 DEF FetchLabels
    <2> QED
      BY <1>0, <2>3 DEF Steady
  <1>24. CASE InspectAlias(p)
    <2>1. \/ FetchBecomes(p, Entering(j, "use"))
          \/ FetchBecomes(p, Entering(j, "symlink")) /\ alias' = "none"
      BY <1>1, <1>8, <1>24 DEF InspectAlias, FetchGoto, FetchFailed, FetchLabels
    <2>2. k.pc = "use" \/ (k.pc = "symlink" /\ alias' = "none")
      BY <1>6, <2>1 DEF FetchLabels
    <2> QED
      BY <1>0, <2>2 DEF Steady
  <1>25. CASE MakeAlias(p)
    <2>1. alias = "none"
      BY <1>1, <1>3, <1>25 DEF MakeAlias, Is, Steady
    <2>2. FetchBecomes(p, Entering(j, "use"))
      BY <1>1, <1>8, <1>25, <2>1 DEF MakeAlias, FetchGoto, FetchFailed, FetchLabels
    <2>3. k.pc = "use"
      BY <1>6, <2>2 DEF FetchLabels
    <2> QED
      BY <1>0, <2>3 DEF Steady
  <1>26. CASE Use(p)
    <2>1. k = [j EXCEPT !.pc = "ok", !.used = Holds("final")]
      BY <1>1, <1>26 DEF Use, FetchBecomes, FetchTypeOK
    <2>2. k.pc = "ok"
      BY <2>1 DEF Jobs
    <2> QED
      BY <1>0, <2>2 DEF Steady
  <1> QED
    BY <1>11, <1>12, <1>13, <1>14, <1>15, <1>16, <1>17, <1>18, <1>19, <1>20, <1>21, <1>22, <1>23,
       <1>24, <1>25, <1>26 DEF FetchStep

LEMMA HealthyNext ==
    ASSUME NEW c, Clients = {c}, FetchTypeOK, SharedInv, HealthyInv, [FetchNext]_fetchVars
    PROVE  HealthyInv'
  <1>0. job[c] \in Jobs /\ job \in [Clients -> Jobs] /\ (Right(job[c]) => Steady(job[c]))
    BY DEF FetchTypeOK, HealthyInv
  <1>1. SUFFICES ASSUME Right(job[c])' PROVE Steady(job[c])'
    BY DEF HealthyInv
  <1>2. CASE UNCHANGED fetchVars
    BY <1>0, <1>1, <1>2 DEF fetchVars, Right, Steady, First, Stuck, Empty, Missed, Holds, Exists
  <1>3. CASE BeginFetch(c)
    <2>1. PICK r \in Requests, j \in Jobs :
             /\ job' = [job EXCEPT ![c] = j] /\ j.pc = "reuse" /\ j.attempt = 0 /\ j.origin = 1
             /\ j.start = [incomplete |-> Holds("incomplete"), final |-> Holds("final")]
             /\ j.request = r
      BY <1>3, FreshFields
    <2>2. job'[c] = j /\ Holds("incomplete")' = Holds("incomplete")
      BY <1>0, <1>3, <2>1, DiskStill DEF BeginFetch, Names
    <2>3. First(j)'
      BY <2>1, <2>2 DEF First
    <2>4. j.origin <= j.request.origins
      BY <2>1, RequestType
    <2> QED
      BY <2>1, <2>2, <2>3, <2>4 DEF Steady
  <1>4. CASE FetchStep(c)
    BY <1>0, <1>1, <1>4, StepSteady
  <1>5. CASE KillFetch(c)
    <2>1. job'[c].pc = "killed"
      BY <1>0, <1>5, KilledFields
    <2> QED
      BY <2>1 DEF Steady
  <1>6. CASE Disturb
    BY <1>1, <1>6, DisturbFields DEF Right
  <1>7. CASE ListCache
    <2>1. job' = job /\ UNCHANGED <<entry, file, alias, served>>
      BY <1>7 DEF ListCache, diskVars
    <2> QED
      BY <1>0, <1>1, <2>1 DEF Right, Steady, First, Stuck, Empty, Missed, Holds, Exists
  <1> QED
    BY <1>2, <1>3, <1>4, <1>5, <1>6, <1>7 DEF FetchNext, NewRelease, RemoveListed

\* A fetch without trouble, from servers that have what it wants, fails in one case only:
\* a full-length wrong .incomplete (or a right one that a forced transfer may not use),
\* and no other origin to begin anew from.
THEOREM Healthy ==
    ASSUME NEW c, Clients = {c}
    PROVE  FetchSpec => []HealthySucceeds
  <1>1. FetchInit => HealthyInv
    BY DEF FetchInit, HealthyInv, NoFetch, NoRequest, Right
  <1>2. FetchTypeOK /\ SharedInv /\ HealthyInv /\ [FetchNext]_fetchVars => HealthyInv'
    BY HealthyNext
  <1> QED
    BY <1>1, <1>2, SharedAlone, HealthyEnough, PTL DEF FetchSpec
=============================================================================
