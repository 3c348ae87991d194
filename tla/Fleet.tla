-------------------------------- MODULE Fleet --------------------------------
(***************************************************************************)
(* Formula commands running at once on one Cellar: what each enumerates,   *)
(* locks, reads, decides, and then changes.                                *)
(*                                                                         *)
(* The grain is the rack.  A pour is one step (InstallTxn: it replaces the *)
(* rack's kegs whole or not at all) and so is a bulk removal (RemovalTxn); *)
(* taking a set of locks is one step that succeeds or ends the command     *)
(* (LockFiles).  `cleanup`, which deletes lock files, is not among the     *)
(* commands.  No formula is keg-only and no two share a family.            *)
(***************************************************************************)
EXTENDS Naturals, Sequences, SequencesExt, Loops

CONSTANTS
  Procs, Formulae, Taps,
  Order,            \* the formulae, every one after what it needs: expand's post-order
  Needs,            \* Needs[f][v]: the dependencies f's receipt records, transitively
  Conflicts,        \* Conflicts[f]: f's conflicts_with
  TapOf,
  Commands,         \* the commands a process may be given
  Racks             \* Racks[f]: the racks f may start with

Latest == 2         \* the catalog's version of every formula
Versions == 1 .. Latest
None == 0

Ops == {"install", "reinstall", "upgrade", "uninstall", "autoremove", "link",
        "unlink", "untap"}

\* A rack: its kegs with their installed_on_request, the linked and pinned one.
IsRack(r) == \E K \in SUBSET Versions :
               r \in [kegs : [K -> BOOLEAN], linked : K \cup {None}, pinned : K \cup {None}]

Absent == [kegs |-> <<>>, linked |-> None, pinned |-> None]

ASSUME OrderAssumption ==
  /\ Order \in Seq(Formulae) /\ IsInjective(Order) /\ ToSet(Order) = Formulae
  /\ Needs \in [Formulae -> [Versions -> SUBSET Formulae]]
  /\ \A i \in 1 .. Len(Order) :
       Needs[Order[i]][Latest] \subseteq {Order[j] : j \in 1 .. i - 1}
  /\ \A f \in Formulae : \A g \in Needs[f][Latest] :
       Needs[g][Latest] \subseteq Needs[f][Latest]
\* The arguments, and the environment that matters: ~HOMEBREW_NO_AUTOREMOVE
\* and HOMEBREW_NO_INSTALL_UPGRADE.
ASSUME CommandsAssumption ==
  /\ Commands \subseteq [op : Ops, names : Seq(Formulae), taps : SUBSET Taps,
                         force : BOOLEAN, ignore : BOOLEAN,
                         autoremove : BOOLEAN, noUpgrade : BOOLEAN]
  /\ \A c \in Commands : IsInjective(c.names)
  /\ Conflicts \in [Formulae -> SUBSET Formulae]
  /\ TapOf \in [Formulae -> Taps]
ASSUME RacksAssumption == \A f \in Formulae : \A r \in Racks[f] : IsRack(r)

VARIABLES
  rack,             \* rack[f]: the rack of f and its links
  tapped,           \* the taps that are installed
  cmd, pc,
  locked,           \* locked[p]: the formulae p locks, as it enumerated them
  seen,             \* seen[p]: p's scan of them
  todo              \* todo[p]: the formulae p still has to change

vars == <<rack, tapped, cmd, pc, locked, seen, todo>>

Init ==
  /\ rack \in {r \in [Formulae -> UNION {Racks[f] : f \in Formulae}] :
                 \A f \in Formulae : r[f] \in Racks[f]}
  /\ tapped = Taps
  /\ cmd \in [Procs -> Commands]
  /\ pc = [p \in Procs |-> "enumerate"]
  /\ locked = [p \in Procs |-> {}]
  /\ seen = [p \in Procs |-> [f \in {} |-> Absent]]
  /\ todo = [p \in Procs |-> <<>>]
----------------------------------------------------------------------------
Kegs(r) == DOMAIN r.kegs
Installed(r) == Kegs(r) # {}
Newest(r) == CHOOSE v \in Kegs(r) : \A w \in Kegs(r) : w <= v
MutRequested(r) == r.kegs[CHOOSE v \in DOMAIN r.kegs : \A w \in DOMAIN r.kegs : w <= v]
Requested(r) == \E v \in Kegs(r) : r.kegs[v]
InOrder(S) == Chosen(Order, S)

\* The requested formulae and all they need.
Roots(c) == ToSet(c.names)
Candidates(c) == Roots(c) \cup UNION {Needs[f][Latest] : f \in Roots(c)}

MutPourOrder(c) == c.names \o InOrder(Candidates(c) \ Roots(c))

\* expand leaves the roots out; they follow in the order of the request.
PourOrder(c) == InOrder(Candidates(c) \ Roots(c)) \o c.names

\* The rack names read from the Cellar before any lock is taken.
AllRacks == {f \in Formulae : Installed(rack[f])}

ToLock(c) ==
  CASE c.op = "install" ->
         Candidates(c) \cup UNION {Conflicts[f] : f \in Candidates(c)}
    [] c.op = "uninstall" -> AllRacks \cup Roots(c)
    [] c.op = "autoremove" \/ (c.op = "upgrade" /\ c.names = <<>>) -> AllRacks
    [] OTHER -> Roots(c)

MutTapsToLock(p) == IF cmd[p].op \in {"install", "untap"} THEN cmd[p].taps ELSE {}

\* Taps are locked for the formulae that will be poured.
TapsToLock(p) ==
  CASE cmd[p].op = "install" -> {TapOf[f] : f \in Candidates(cmd[p])}
    [] cmd[p].op \in {"reinstall", "upgrade"} -> {TapOf[f] : f \in locked[p]}
    [] cmd[p].op = "untap" -> cmd[p].taps
    [] OTHER -> {}

Holds(p) == pc[p] \notin {"enumerate", "lock", "ok", "failed"}

MutClash(p, q) ==
  {cmd[p].op, cmd[q].op} # {"install"} /\ locked[p] \cap locked[q] # {}

\* Taps have readers and one writer; formula locks are exclusive.
Clash(p, q) ==
  \/ locked[p] \cap locked[q] # {}
  \/ /\ "untap" \in {cmd[p].op, cmd[q].op}
     /\ TapsToLock(p) \cap TapsToLock(q) # {}

Enumerate(p) ==
  /\ pc[p] = "enumerate"
  /\ locked' = [locked EXCEPT ![p] = ToLock(cmd[p])]
  /\ pc' = [pc EXCEPT ![p] = "lock"]
  /\ UNCHANGED <<rack, tapped, cmd, seen, todo>>

Acquire(p) ==
  /\ pc[p] = "lock"
  /\ \A q \in Procs \ {p} : Holds(q) => ~Clash(p, q)
  /\ pc' = [pc EXCEPT ![p] = "scan"]
  /\ UNCHANGED <<rack, tapped, cmd, locked, seen, todo>>

\* scan_selected reads the locked racks; untap scans them all, without locks.
Scan(p) ==
  /\ pc[p] = "scan"
  /\ seen' = [seen EXCEPT ![p] =
                [f \in (IF cmd[p].op = "untap" THEN Formulae ELSE locked[p])
                   |-> rack[f]]]
  /\ pc' = [pc EXCEPT ![p] = "decide"]
  /\ UNCHANGED <<rack, tapped, cmd, locked, todo>>
----------------------------------------------------------------------------
(* What each command decides from its scan s: whether it refuses, and the
   formulae it will change. *)

Present(s) == {f \in DOMAIN s : Installed(s[f])}

\* dependents_of: the scanned formulae whose receipts name f.
Dependents(s, f) == {g \in Present(s) : \E v \in Kegs(s[g]) : f \in Needs[g][v]}

\* select_unmet
Unmet(c, s) ==
  {f \in Candidates(c) :
     /\ s[f].linked = Latest => c.force
     /\ ~(/\ c.noUpgrade /\ f \in Roots(c)
          /\ s[f].linked \notin {None, Latest})}

MutInstallRefused(c, s) == \E f \in Candidates(c) : s[f].pinned \notin {None, Latest}

InstallRefused(c, s) ==
  \/ \E f \in Candidates(c) : s[f].pinned \notin {None, Latest}
  \/ /\ ~c.force
     /\ \E f \in Unmet(c, s) : \E g \in Conflicts[f] : s[g].linked # None

MutUninstallRefused(c, s) ==
  \E f \in Roots(c) : f \notin Present(s) \/ (~c.force /\ s[f].pinned # None)

UninstallRefused(c, s) ==
  \/ \E f \in Roots(c) : f \notin Present(s)
  \/ /\ ~c.ignore
     /\ \E f \in Roots(c) : Dependents(s, f) \ Roots(c) # {}
  \/ /\ ~c.force
     /\ \E f \in Roots(c) : s[f].pinned # None

\* Outdated: no keg is as new as the catalog.
Outdated(s) == {f \in Present(s) : s[f].pinned = None /\ Newest(s[f]) < Latest}

UpgradeRefused(c, s) ==
  c.names # <<>> /\ \E f \in Roots(c) : f \notin Present(s) \/ s[f].pinned # None

\* fixpoint: unrequested formulae only removable ones depend on, in rounds.
Removable(s) ==
  LET Unneeded(R) ==
        R \cup {f \in Present(s) : ~Requested(s[f]) /\ Dependents(s, f) \subseteq R}
      round[n \in 0 .. Len(Order)] ==
        IF n = 0 THEN {} ELSE Unneeded(round[n - 1])
  IN  round[Len(Order)]

Refused(c, s) ==
  CASE c.op = "install" -> InstallRefused(c, s)
    [] c.op = "reinstall" -> \E f \in Roots(c) : f \notin Present(s) \/ s[f].pinned # None
    [] c.op = "upgrade" -> UpgradeRefused(c, s)
    [] c.op = "uninstall" -> UninstallRefused(c, s)
    [] c.op = "untap" -> /\ ~c.force
                         /\ \E f \in Present(s) : TapOf[f] \in c.taps
    [] c.op \in {"link", "unlink"} -> \E f \in Roots(c) : f \notin Present(s)
    [] OTHER -> FALSE

Selected(c, s) ==
  CASE c.op = "install" -> Unmet(c, s)
    [] c.op = "upgrade" -> Outdated(s)
    [] c.op = "autoremove" -> Removable(s)
    [] OTHER -> Roots(c)

Decide(p) ==
  /\ pc[p] = "decide"
  /\ ~Refused(cmd[p], seen[p])
  /\ todo' = [todo EXCEPT ![p] =
                LET selected == Selected(cmd[p], seen[p])
                IN  IF cmd[p].op = "install"
                      THEN Chosen(PourOrder(cmd[p]), selected)
                      ELSE InOrder(selected)]
  /\ pc' = [pc EXCEPT ![p] =
              CASE cmd[p].op \in {"install", "reinstall", "upgrade"} -> "pour"
                [] cmd[p].op \in {"uninstall", "autoremove"} -> "remove"
                [] OTHER -> cmd[p].op]
  /\ UNCHANGED <<rack, tapped, cmd, locked, seen>>

\* A refusal, a busy lock, any error, or a kill: the locks are given up.
Fail(p) ==
  /\ pc[p] \notin {"enumerate", "ok", "failed"}
  /\ pc' = [pc EXCEPT ![p] = "failed"]
  /\ UNCHANGED <<rack, tapped, cmd, locked, seen, todo>>
----------------------------------------------------------------------------
\* installed_on_request of the keg p pours for f.
PouredOnRequest(p, f) ==
  LET s == seen[p][f]
      old == IF Latest \in Kegs(s) THEN Latest
             ELSE IF s.linked # None THEN s.linked ELSE Newest(s)
  IN  CASE cmd[p].op = "install" ->
             f \in Roots(cmd[p]) \/ (Installed(s) /\ s.kegs[Newest(s)])
        [] OTHER -> s.kegs[old]

\* The catalog's keg replaces the linked one, which stays in the rack; an
\* upgrade then deletes the other kegs, unless told not to or unable to.
PourOne(p) ==
  /\ pc[p] = "pour"
  /\ todo[p] # <<>>
  /\ LET f == Head(todo[p])
         poured == [v \in Kegs(rack[f]) \cup {Latest} |->
                      IF v = Latest THEN PouredOnRequest(p, f) ELSE rack[f].kegs[v]]
     IN  \E kegs \in {poured} \cup
                     (IF cmd[p].op = "upgrade"
                        THEN {[v \in {Latest} |-> poured[v]]} ELSE {}) :
           rack' = [rack EXCEPT ![f].kegs = kegs, ![f].linked = Latest]
  /\ todo' = [todo EXCEPT ![p] = Tail(@)]
  /\ UNCHANGED <<tapped, cmd, pc, locked, seen>>

\* Without --force, only the linked keg or the newest.
Targets(p, f) ==
  LET s == seen[p][f]
  IN  IF cmd[p].force \/ cmd[p].op = "autoremove" THEN Kegs(s)
      ELSE IF s.linked # None THEN {s.linked} ELSE {Newest(s)}

Without(r, gone) ==
  [kegs |-> [v \in Kegs(r) \ gone |-> r.kegs[v]],
   linked |-> IF r.linked \in gone THEN None ELSE r.linked,
   pinned |-> IF r.pinned \in gone THEN None ELSE r.pinned]

\* remove_locked, all the formulae or none; uninstall then runs autoremove,
\* which enumerates and locks anew.
RemoveAll(p) ==
  /\ pc[p] = "remove"
  /\ rack' = [f \in Formulae |->
                IF f \in ToSet(todo[p]) THEN Without(rack[f], Targets(p, f)) ELSE rack[f]]
  /\ todo' = [todo EXCEPT ![p] = <<>>]
  /\ IF cmd[p].op = "uninstall" /\ cmd[p].autoremove
       THEN /\ cmd' = [cmd EXCEPT ![p] = [@ EXCEPT !.op = "autoremove", !.names = <<>>,
                                                   !.ignore = FALSE]]
            /\ pc' = [pc EXCEPT ![p] = "enumerate"]
       ELSE /\ pc' = [pc EXCEPT ![p] = "ok"]
            /\ UNCHANGED cmd
  /\ UNCHANGED <<tapped, locked, seen>>

\* link links the newest keg of a rack that has none linked.
LinkOne(p) ==
  /\ pc[p] = "link"
  /\ todo[p] # <<>>
  /\ LET f == Head(todo[p])
     IN  /\ seen[p][f].linked \in {None, Newest(seen[p][f])}
         /\ rack' = [rack EXCEPT ![f].linked = Newest(seen[p][f])]
  /\ todo' = [todo EXCEPT ![p] = Tail(@)]
  /\ UNCHANGED <<tapped, cmd, pc, locked, seen>>

UnlinkOne(p) ==
  /\ pc[p] = "unlink"
  /\ todo[p] # <<>>
  /\ rack' = [rack EXCEPT ![Head(todo[p])].linked = None]
  /\ todo' = [todo EXCEPT ![p] = Tail(@)]
  /\ UNCHANGED <<tapped, cmd, pc, locked, seen>>

\* untap removes its taps one after the other.
UntapOne(p) ==
  /\ pc[p] = "untap"
  /\ \E t \in cmd[p].taps \cap tapped : tapped' = tapped \ {t}
  /\ UNCHANGED <<rack, cmd, pc, locked, seen, todo>>

Done(p) ==
  /\ pc[p] \in {"pour", "link", "unlink", "untap"}
  /\ todo[p] = <<>>
  /\ pc[p] = "untap" => cmd[p].taps \cap tapped = {}
  /\ pc' = [pc EXCEPT ![p] = "ok"]
  /\ UNCHANGED <<rack, tapped, cmd, locked, seen, todo>>

AllDone == (\A p \in Procs : pc[p] \in {"ok", "failed"}) /\ UNCHANGED vars

Step(p) ==
  \/ Enumerate(p) \/ Acquire(p) \/ Scan(p) \/ Decide(p) \/ PourOne(p)
  \/ RemoveAll(p) \/ LinkOne(p) \/ UnlinkOne(p) \/ UntapOne(p) \/ Done(p)

Next == (\E p \in Procs : Step(p) \/ Fail(p)) \/ AllDone

Spec == Init /\ [][Next]_vars
----------------------------------------------------------------------------
TypeOK ==
  /\ DOMAIN rack = Formulae /\ \A f \in Formulae : IsRack(rack[f])
  /\ tapped \subseteq Taps
  /\ \A p \in Procs :
       /\ cmd[p].op \in Ops
       /\ pc[p] \in {"enumerate", "lock", "scan", "decide", "pour", "remove",
                     "link", "unlink", "untap", "ok", "failed"}
       /\ locked[p] \subseteq Formulae
       /\ DOMAIN seen[p] \subseteq Formulae
       /\ todo[p] \in Seq(Formulae)

\* The formulae p is still to change, or has read and only relies on.
Relied(p) == IF pc[p] \in {"pour", "link", "unlink"}
               THEN locked[p] \ (Selected(cmd[p], seen[p]) \ ToSet(todo[p]))
               ELSE locked[p]

(* What a command decided on is still so when it acts: its scan of the racks
   it locked is the state of those it has not itself changed yet
   (install.rs 90-92, uninstall.rs 41-58, upgrade.rs 118-150). *)
ScanCurrent ==
  \A p \in Procs :
    pc[p] \in {"decide", "pour", "remove", "link", "unlink"} =>
      \A f \in Relied(p) : seen[p][f] = rack[f]

\* p's bulk removal, and what it leaves no keg of.
Removes(p) == pc[p] = "remove" /\ pc'[p] \notin {"remove", "failed"}
Gone == {f \in Formulae : Installed(rack[f]) /\ ~Installed(rack'[f])}

(* A removal takes nothing that is still wanted.  autoremove never takes a
   formula some keg of which was installed on request; and one that checks
   dependents takes nothing that a formula it enumerated, and was not asked
   to remove, still needs (uninstall.rs 180-232, autoremove.rs 69-112). *)
RemovalKeepsWanted ==
  [][\A p \in Procs : Removes(p) =>
       /\ cmd[p].op = "autoremove" =>
            \A f \in Gone : \A v \in Kegs(rack[f]) : ~rack[f].kegs[v]
       /\ ~cmd[p].ignore =>
            \A f \in Gone, g \in locked[p] \ Roots(cmd[p]) :
              \A v \in Kegs(rack'[g]) : f \notin Needs[g][v]]_vars

Pours(p, f) == pc[p] = "pour" /\ todo[p] # <<>> /\ todo'[p] = Tail(todo[p])
               /\ f = Head(todo[p])

(* An install pours a formula only when the dependencies it was not itself
   asked to install are there, however other commands come and go: killed
   between two pours, it leaves no formula without them
   (install.rs 60-92, 115-160). *)
DependenciesFirst ==
  [][\A p \in Procs, f \in Formulae : Pours(p, f) /\ cmd[p].op = "install" =>
       \A g \in Needs[f][Latest] \ Roots(cmd[p]) : Installed(rack[g])]_vars

(* how-it-works.md step 8, "Check conflicts": without --force an install links
   no formula next to a linked one it conflicts with (install.rs 601-647). *)
NoPourIntoConflict ==
  [][\A p \in Procs, f \in Formulae :
       Pours(p, f) /\ cmd[p].op = "install" /\ ~cmd[p].force =>
         \A g \in Conflicts[f] : rack[g].linked = None]_vars

(* untap removes no tap of its own with an installed formula, not even one that
   an install under way commits meanwhile (untap.rs 23-34). *)
UntapSafe ==
  [][\A p \in Procs : pc[p] = "untap" /\ ~cmd[p].force =>
       \A t \in cmd[p].taps \cap (tapped \ tapped') : \A f \in Formulae :
         TapOf[f] = t => ~Installed(rack[f])]_vars
=============================================================================
