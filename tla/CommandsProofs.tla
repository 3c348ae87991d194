----------------------------- MODULE CommandsProofs -----------------------------
(***************************************************************************)
(* What is proved of the commands that run at once, or whose calls may     *)
(* each fail: the formula commands on the Cellar (Fleet), tap, untap and   *)
(* update (Taps), the service commands (Services) and cleanup              *)
(* (CleanupPlan).                                                          *)
(***************************************************************************)
EXTENDS Fleet, Taps, Services, CleanupPlan, LoopsProofs, FiniteSetTheorems,
        SequenceTheorems, WellFoundedInduction, TLAPS
-----------------------------------------------------------------------------
(* Fleet.  For any processes, formulae, dependencies, conflicts, commands  *)
(* and starting Cellars: what a command decided on under its locks still   *)
(* holds when it acts.                                                     *)
-----------------------------------------------------------------------------
(* Racks. *)

Rack == UNION {[kegs : [K -> BOOLEAN], linked : K \cup {None}, pinned : K \cup {None}] :
                 K \in SUBSET Versions}

LEMMA IsInRack == \A r : IsRack(r) <=> r \in Rack
BY DEF IsRack, Rack

\* What a rack is made of.
LEMMA RackFacts ==
    ASSUME NEW r \in Rack
    PROVE  /\ Kegs(r) \in SUBSET Versions
           /\ r.kegs \in [Kegs(r) -> BOOLEAN]
           /\ r.linked \in Kegs(r) \cup {None}
           /\ r.pinned \in Kegs(r) \cup {None}
           /\ r = [kegs |-> r.kegs, linked |-> r.linked, pinned |-> r.pinned]
           /\ Installed(r) => Newest(r) \in Kegs(r)
<1>1. PICK K \in SUBSET Versions :
         r \in [kegs : [K -> BOOLEAN], linked : K \cup {None}, pinned : K \cup {None}]
  BY DEF Rack
<1>2. Kegs(r) = K
  BY <1>1 DEF Kegs
<1>3. /\ Kegs(r) \in SUBSET Versions
      /\ r.kegs \in [Kegs(r) -> BOOLEAN]
      /\ r.linked \in Kegs(r) \cup {None}
      /\ r.pinned \in Kegs(r) \cup {None}
      /\ r = [kegs |-> r.kegs, linked |-> r.linked, pinned |-> r.pinned]
  BY <1>1, <1>2
<1>4. ASSUME Installed(r)
      PROVE  \E v \in Kegs(r) : \A w \in Kegs(r) : w <= v
  <2>1. \A v \in Kegs(r) : v = 1 \/ v = 2
    BY <1>3 DEF Versions, Latest
  <2>2. CASE 2 \in Kegs(r)
    BY <2>1, <2>2
  <2>3. CASE 2 \notin Kegs(r)
    BY <1>4, <2>1, <2>3 DEF Installed
  <2> QED BY <2>2, <2>3
<1>5. Installed(r) => Newest(r) \in Kegs(r)
  BY <1>4 DEF Newest
<1> QED BY <1>3, <1>5

\* What makes a rack.
LEMMA RackMade ==
    ASSUME NEW K \in SUBSET Versions, NEW k \in [K -> BOOLEAN],
           NEW l \in K \cup {None}, NEW n \in K \cup {None}
    PROVE  /\ [kegs |-> k, linked |-> l, pinned |-> n] \in Rack
           /\ Kegs([kegs |-> k, linked |-> l, pinned |-> n]) = K
BY DEF Rack, Kegs

\* A rack that some kegs are taken from is a rack, of the others.
LEMMA WithoutFacts ==
    ASSUME NEW r \in Rack, NEW gone
    PROVE  Without(r, gone) \in Rack /\ Kegs(Without(r, gone)) = Kegs(r) \ gone
<1> DEFINE K == Kegs(r) \ gone
           k == [v \in K |-> r.kegs[v]]
           l == IF r.linked \in gone THEN None ELSE r.linked
           n == IF r.pinned \in gone THEN None ELSE r.pinned
<1>1. /\ Kegs(r) \in SUBSET Versions /\ r.kegs \in [Kegs(r) -> BOOLEAN]
      /\ r.linked \in Kegs(r) \cup {None} /\ r.pinned \in Kegs(r) \cup {None}
  BY RackFacts
<1>2. K \in SUBSET Versions /\ k \in [K -> BOOLEAN]
      /\ l \in K \cup {None} /\ n \in K \cup {None}
  BY <1>1
<1>3. Without(r, gone) = [kegs |-> k, linked |-> l, pinned |-> n]
  BY DEF Without
<1> HIDE DEF K, k, l, n
<1>4. Without(r, gone) \in Rack /\ Kegs(Without(r, gone)) = K
  BY <1>2, <1>3, RackMade
<1> QED BY <1>4 DEF K
-----------------------------------------------------------------------------
(* Orders. *)

\* The formulae in the order of expand: all of them, each once.
LEMMA InOrderFacts ==
    ASSUME NEW S \in SUBSET Formulae
    PROVE  /\ InOrder(S) \in Seq(Formulae)
           /\ ToSet(InOrder(S)) = S
           /\ IsInjective(InOrder(S))
<1> DEFINE c == InOrder(S)
<1>1. Order \in Seq(Formulae) /\ IsInjective(Order) /\ ToSet(Order) = Formulae
  BY OrderAssumption
<1>2. IsChosen(Formulae, Order, S, c)
  BY <1>1, ChosenFacts DEF InOrder
<1> HIDE DEF c
<1>3. /\ c \in Seq(Formulae)
      /\ \A p \in 1 .. Len(c) : c[p] \in S
      /\ \A i \in 1 .. Len(Order) : Order[i] \in S => \E p \in 1 .. Len(c) : c[p] = Order[i]
      /\ \A p, q \in 1 .. Len(c) : p # q => c[p] # c[q]
  BY <1>1, <1>2 DEF IsChosen
<1>4. \A f \in S : \E i \in 1 .. Len(Order) : Order[i] = f
  BY <1>1 DEF ToSet
<1>5. ToSet(c) = S
  BY <1>3, <1>4 DEF ToSet
<1>6. IsInjective(c)
  BY <1>3 DEF IsInjective
<1> QED BY <1>3, <1>5, <1>6 DEF c

\* No formula is before one it needs.
LEMMA InOrderNeeds ==
    ASSUME NEW S \in SUBSET Formulae, NEW c, c = InOrder(S),
           NEW i \in 1 .. Len(c), NEW j \in 1 .. Len(c), i < j
    PROVE  c[j] \notin Needs[c[i]][Latest]
<1>1. /\ Order \in Seq(Formulae) /\ IsInjective(Order)
      /\ \A a \in 1 .. Len(Order) :
            Needs[Order[a]][Latest] \subseteq {Order[b] : b \in 1 .. a - 1}
  BY OrderAssumption
<1>2. PICK a \in 1 .. Len(Order), b \in 1 .. Len(Order) :
         a < b /\ c[i] = Order[a] /\ c[j] = Order[b]
  BY <1>1, ChosenOrder DEF InOrder
<1>3. SUFFICES ASSUME Order[b] \in Needs[Order[a]][Latest] PROVE FALSE
  BY <1>2
<1>4. PICK d \in 1 .. a - 1 : Order[b] = Order[d]
  BY <1>1, <1>3
<1>5. d \in DOMAIN Order /\ b \in DOMAIN Order /\ d # b
  BY <1>1, <1>2, <1>4
<1> QED BY <1>1, <1>4, <1>5 DEF IsInjective

\* The requested formulae and all they need.
CommandType == [op : Ops, names : Seq(Formulae), taps : SUBSET Taps,
                force : BOOLEAN, ignore : BOOLEAN,
                autoremove : BOOLEAN, noUpgrade : BOOLEAN]

LEMMA NeedsType ==
    ASSUME NEW f \in Formulae, NEW v \in Versions
    PROVE  Needs[f][v] \in SUBSET Formulae
BY OrderAssumption

LEMMA CandidatesFacts ==
    ASSUME NEW c \in CommandType
    PROVE  /\ Roots(c) \in SUBSET Formulae
           /\ Candidates(c) \in SUBSET Formulae
           /\ Roots(c) \subseteq Candidates(c)
           /\ \A f \in Candidates(c) : Needs[f][Latest] \subseteq Candidates(c)
<1>1. c.names \in Seq(Formulae) /\ Latest \in Versions
  BY DEF CommandType, Latest, Versions
<1>2. Roots(c) \in SUBSET Formulae
  BY <1>1 DEF Roots, ToSet
<1>3. \A f \in Formulae : Needs[f][Latest] \in SUBSET Formulae
  BY <1>1, NeedsType
<1>4. \A f \in Formulae : \A g \in Needs[f][Latest] : Needs[g][Latest] \subseteq Needs[f][Latest]
  BY OrderAssumption
<1> QED BY <1>2, <1>3, <1>4 DEF Candidates

\* install pours the dependencies before the formulae it was asked for.
PourOrderIs(c, t) ==
    /\ t \in Seq(Formulae)
    /\ ToSet(t) = Candidates(c)
    /\ IsInjective(t)
    /\ \A i, j \in 1 .. Len(t) : i < j => t[j] \notin Needs[t[i]][Latest] \ Roots(c)

LEMMA PourOrderFacts ==
    ASSUME NEW c \in CommandType, IsInjective(c.names)
    PROVE  PourOrderIs(c, PourOrder(c))
<1> DEFINE S == Candidates(c) \ Roots(c)
           d == InOrder(S)
           n == c.names
           t == d \o n
<1>1. n \in Seq(Formulae) /\ ToSet(n) = Roots(c) /\ IsInjective(n)
  BY DEF CommandType, Roots
<1>2. Roots(c) \in SUBSET Formulae /\ S \in SUBSET Formulae /\ Candidates(c) = S \cup Roots(c)
      /\ S \cap Roots(c) = {}
  BY CandidatesFacts
<1>3. d \in Seq(Formulae) /\ ToSet(d) = S /\ IsInjective(d)
  BY <1>2, InOrderFacts
<1>4. \A i, j \in 1 .. Len(d) : i < j => d[j] \notin Needs[d[i]][Latest]
  BY <1>2, InOrderNeeds
<1>5. PourOrder(c) = t
  BY DEF PourOrder
<1> HIDE DEF S, d, n
<1>6. t \in Seq(Formulae) /\ Len(t) = Len(d) + Len(n) /\ Len(d) \in Nat /\ Len(n) \in Nat
      /\ DOMAIN t = 1 .. Len(t)
  BY <1>1, <1>3
<1>7. /\ \A i \in 1 .. Len(d) : t[i] = d[i]
      /\ \A i \in 1 .. Len(n) : t[Len(d) + i] = n[i]
      /\ \A i \in 1 .. Len(t) : i \notin 1 .. Len(d) =>
            i - Len(d) \in 1 .. Len(n) /\ t[i] = n[i - Len(d)]
  BY <1>1, <1>3
<1>n. /\ \A i \in 1 .. Len(d) : i \in 1 .. Len(t)
      /\ \A i \in 1 .. Len(n) : Len(d) + i \in 1 .. Len(t)
  BY <1>6
<1> HIDE DEF t
<1>8. /\ \A i \in 1 .. Len(d) : d[i] \in S
      /\ \A i \in 1 .. Len(n) : n[i] \in Roots(c)
      /\ \A f \in S : \E i \in 1 .. Len(d) : d[i] = f
      /\ \A f \in Roots(c) : \E i \in 1 .. Len(n) : n[i] = f
      /\ \A i, j \in 1 .. Len(d) : d[i] = d[j] => i = j
      /\ \A i, j \in 1 .. Len(n) : n[i] = n[j] => i = j
  BY <1>1, <1>3 DEF ToSet, IsInjective
<1>9. ToSet(t) = Candidates(c)
  <2>1. \A i \in 1 .. Len(t) : t[i] \in Candidates(c)
    BY <1>2, <1>7, <1>8
  <2>2. \A f \in S : \E i \in 1 .. Len(t) : t[i] = f
    BY <1>7, <1>8, <1>n
  <2>3. \A f \in Roots(c) : \E i \in 1 .. Len(t) : t[i] = f
    BY <1>7, <1>8, <1>n
  <2> QED BY <1>2, <1>6, <2>1, <2>2, <2>3 DEF ToSet
<1>10. IsInjective(t)
  <2> SUFFICES ASSUME NEW i \in 1 .. Len(t), NEW j \in 1 .. Len(t), t[i] = t[j]
               PROVE  i = j
    BY <1>6 DEF IsInjective
  <2>1. CASE i \in 1 .. Len(d) /\ j \in 1 .. Len(d)
    BY <1>7, <1>8, <2>1
  <2>2. CASE i \notin 1 .. Len(d) /\ j \notin 1 .. Len(d)
    <3>1. n[i - Len(d)] = n[j - Len(d)] /\ i - Len(d) \in 1 .. Len(n) /\ j - Len(d) \in 1 .. Len(n)
      BY <1>7, <2>2
    <3>2. i - Len(d) = j - Len(d)
      BY <1>8, <3>1
    <3> QED BY <1>6, <3>2
  <2>3. CASE i \in 1 .. Len(d) /\ j \notin 1 .. Len(d)
    BY <1>2, <1>7, <1>8, <2>3
  <2>4. CASE i \notin 1 .. Len(d) /\ j \in 1 .. Len(d)
    BY <1>2, <1>7, <1>8, <2>4
  <2> QED BY <2>1, <2>2, <2>3, <2>4
<1>11. ASSUME NEW i \in 1 .. Len(t), NEW j \in 1 .. Len(t), i < j
       PROVE  t[j] \notin Needs[t[i]][Latest] \ Roots(c)
  <2>1. CASE j \in 1 .. Len(d)
    <3>1. i \in 1 .. Len(d)
      BY <1>6, <1>11, <2>1
    <3> QED BY <1>4, <1>7, <1>11, <2>1, <3>1
  <2>2. CASE j \notin 1 .. Len(d)
    BY <1>7, <1>8, <2>2
  <2> QED BY <2>1, <2>2
<1> QED BY <1>5, <1>6, <1>9, <1>10, <1>11 DEF PourOrderIs
-----------------------------------------------------------------------------
(* What autoremove takes. *)

Unneeded(s, R) ==
    R \cup {f \in Present(s) : ~Requested(s[f]) /\ Dependents(s, f) \subseteq R}

\* The rounds of Removable, up to m.
Rounds(s, g, m) ==
    g = [n \in 0 .. m |-> IF n = 0 THEN {} ELSE Unneeded(s, g[n - 1])]

\* Unrequested formulae that only formulae of R need.
Spare(s, R) ==
    \A f \in R : f \in Present(s) /\ ~Requested(s[f]) /\ Dependents(s, f) \subseteq R

LEMMA RoundsExist ==
    ASSUME NEW s, NEW n \in Nat
    PROVE  \E g : Rounds(s, g, n)
<1> DEFINE Bad == {m \in 0 .. n : ~\E g : Rounds(s, g, m)}
<1> SUFFICES ASSUME Bad # {} PROVE FALSE
  OBVIOUS
<1>1. Bad \in SUBSET Nat
  OBVIOUS
<1>2. \A m \in 0 .. n : m \in Bad \/ \E g : Rounds(s, g, m)
  OBVIOUS
<1>3. \A m \in Bad : m \in 0 .. n /\ ~\E g : Rounds(s, g, m)
  OBVIOUS
<1> HIDE DEF Bad
<1>4. PICK m \in Bad : \A j \in Bad : m <= j
  BY <1>1, FirstOf
<1>5. m \in 0 .. n /\ m \in Nat
  BY <1>3, <1>4
<1>6. CASE m = 0
  <2>1. Rounds(s, [i \in 0 .. 0 |-> {}], 0)
    BY DEF Rounds
  <2> QED BY <1>3, <1>4, <1>6, <2>1
<1>7. CASE m # 0
  <2>1. m - 1 \in 0 .. n /\ m - 1 \notin Bad
    BY <1>4, <1>5, <1>7
  <2>2. PICK g : Rounds(s, g, m - 1)
    BY <1>2, <2>1
  <2>3. /\ \A i \in 0 .. m : i # m => i \in 0 .. m - 1
        /\ \A i \in 0 .. m : i # 0 => i - 1 \in 0 .. m - 1 /\ i - 1 \in 0 .. m /\ i - 1 # m
        /\ m \in 0 .. m
    BY <1>5, <1>7
  <2> DEFINE h == [i \in 0 .. m |-> IF i = m THEN Unneeded(s, g[m - 1]) ELSE g[i]]
  <2>4. \A i \in 0 .. m - 1 : g[i] = IF i = 0 THEN {} ELSE Unneeded(s, g[i - 1])
    BY <2>2 DEF Rounds
  <2>5. h[m] = Unneeded(s, g[m - 1]) /\ \A i \in 0 .. m : i # m => h[i] = g[i]
    BY <2>3
  <2>6. h = [i \in 0 .. m |-> h[i]]
    OBVIOUS
  <2> HIDE DEF h
  <2>7. \A i \in 0 .. m : h[i] = IF i = 0 THEN {} ELSE Unneeded(s, h[i - 1])
    <3> TAKE i \in 0 .. m
    <3>1. CASE i = m
      <4>1. h[m - 1] = g[m - 1]
        BY <1>7, <2>3, <2>5
      <4> QED BY <1>7, <2>5, <3>1, <4>1
    <3>2. CASE i # m
      <4>1. i \in 0 .. m - 1 /\ h[i] = g[i] /\ (i # 0 => h[i - 1] = g[i - 1])
        BY <2>3, <2>5, <3>2
      <4> QED BY <2>4, <4>1
    <3> QED BY <3>1, <3>2
  <2>8. Rounds(s, h, m)
    BY <2>6, <2>7 DEF Rounds
  <2> QED BY <1>3, <1>4, <2>8
<1> QED BY <1>6, <1>7

\* autoremove takes what was not requested and only what it takes needs.
LEMMA RemovableFacts == ASSUME NEW s PROVE Spare(s, Removable(s))
<1> DEFINE N == Len(Order)
<1>1. N \in Nat /\ N \in 0 .. N
  BY OrderAssumption
<1> DEFINE round == CHOOSE g : Rounds(s, g, N)
<1>2. Removable(s) = round[N]
  BY DEF Removable, Rounds, Unneeded
<1>3. Rounds(s, round, N)
  BY <1>1, RoundsExist
<1> HIDE DEF round, N
<1>4. \A n \in 0 .. N : round[n] = IF n = 0 THEN {} ELSE Unneeded(s, round[n - 1])
  BY <1>3 DEF Rounds
<1> DEFINE Bad == {n \in 0 .. N : ~Spare(s, round[n])}
<1>5. Bad = {}
  <2> SUFFICES ASSUME Bad # {} PROVE FALSE
    OBVIOUS
  <2>1. Bad \in SUBSET Nat
    BY <1>1
  <2>2. /\ \A n \in Bad : n \in 0 .. N /\ ~Spare(s, round[n])
        /\ \A n \in 0 .. N : n \in Bad \/ Spare(s, round[n])
    OBVIOUS
  <2> HIDE DEF Bad
  <2>3. PICK n \in Bad : \A j \in Bad : n <= j
    BY <2>1, FirstOf
  <2>4. CASE n = 0
    BY <1>4, <2>2, <2>3, <2>4 DEF Spare
  <2>5. CASE n # 0
    <3>1. n - 1 \in 0 .. N /\ n - 1 \notin Bad
      BY <1>1, <2>2, <2>3, <2>5
    <3>2. Spare(s, round[n - 1])
      BY <2>2, <3>1
    <3>3. round[n] = Unneeded(s, round[n - 1])
      BY <1>4, <2>2, <2>3, <2>5
    <3>4. Spare(s, Unneeded(s, round[n - 1]))
      BY <3>2 DEF Spare, Unneeded
    <3> QED BY <2>2, <2>3, <3>3, <3>4
  <2> QED BY <2>4, <2>5
<1> QED BY <1>1, <1>2, <1>5
-----------------------------------------------------------------------------
(* The invariant.  A command that is past its locks holds those of every   *)
(* rack it may change, and of the taps it pours from, so another's step    *)
(* leaves its racks as they were and installs nothing from a tap it is     *)
(* about to remove (World).  What it has read and decided itself is Own.   *)

Pcs == {"enumerate", "lock", "scan", "decide", "pour", "remove",
        "link", "unlink", "untap", "ok", "failed"}
Acting == {"pour", "remove", "link", "unlink", "untap"}

\* The scans: of some racks.
Scans == UNION {[D -> Rack] : D \in SUBSET Formulae}

Typed ==
    /\ rack \in [Formulae -> Rack]
    /\ tapped \subseteq Taps
    /\ cmd \in [Procs -> CommandType] /\ (\A p \in Procs : IsInjective(cmd[p].names))
    /\ pc \in [Procs -> Pcs]
    /\ locked \in [Procs -> SUBSET Formulae]
    /\ seen \in [Procs -> Scans]
    /\ todo \in [Procs -> Seq(Formulae)]

\* The command c is at a place of its own.
At(at, c) ==
    /\ at = "pour" => c.op \in {"install", "reinstall", "upgrade"}
    /\ at = "remove" => c.op \in {"uninstall", "autoremove"}
    /\ at \in {"link", "unlink", "untap"} => c.op = at

\* The locks l cover what c asks for and what it may pour.
Covers(c, l) ==
    /\ c.op = "install" => Candidates(c) \subseteq l
    /\ c.op # "autoremove" => Roots(c) \subseteq l

\* No formula is to be poured before one it needs, those asked for apart.
Ordered(c, t) == \A i, j \in 1 .. Len(t) : i < j => t[j] \notin Needs[t[i]][Latest] \ Roots(c)

\* What is left of the plan t that c made of the scan s.
Planned(c, s, t) ==
    /\ ~Refused(c, s)
    /\ ToSet(t) \subseteq Selected(c, s)
    /\ IsInjective(t)
    /\ c.op \in {"uninstall", "autoremove"} => ToSet(t) = Selected(c, s)
    /\ c.op = "install" => Ordered(c, t)

Own(p) ==
    /\ At(pc[p], cmd[p])
    /\ pc[p] # "enumerate" => Covers(cmd[p], locked[p])
    /\ pc[p] \in {"decide"} \cup Acting =>
          DOMAIN seen[p] = IF cmd[p].op = "untap" THEN Formulae ELSE locked[p]
    /\ pc[p] \in Acting => Planned(cmd[p], seen[p], todo[p])

\* p's scan is the state of what it has not changed itself.
Current(p) ==
    pc[p] \in {"decide", "pour", "remove", "link", "unlink"} =>
       \A f \in Relied(p) : seen[p][f] = rack[f]

\* What an install has poured is there.
Poured(p) ==
    pc[p] = "pour" /\ cmd[p].op = "install" =>
       \A f \in Selected(cmd[p], seen[p]) \ ToSet(todo[p]) : Installed(rack[f])

\* Nothing of the taps p may remove came after it looked.
Untapped(p) ==
    pc[p] \in {"decide", "untap"} /\ cmd[p].op = "untap" =>
       \A f \in Formulae : TapOf[f] \in cmd[p].taps /\ Installed(rack[f])
                              => Installed(seen[p][f])

World(p) == Current(p) /\ Poured(p) /\ Untapped(p)

Apart(p, q) == Holds(p) /\ Holds(q) => ~Clash(p, q)

Inv ==
    /\ Typed
    /\ \A p \in Procs : Own(p) /\ World(p)
    /\ \A p, q \in Procs : p # q => Apart(p, q)
-----------------------------------------------------------------------------
(* What follows from the invariant. *)

LEMMA TypedFacts ==
    ASSUME Typed, NEW p \in Procs
    PROVE  /\ cmd[p] \in CommandType /\ IsInjective(cmd[p].names)
           /\ pc[p] \in Pcs
           /\ locked[p] \in SUBSET Formulae
           /\ seen[p] \in Scans
           /\ todo[p] \in Seq(Formulae)
           /\ DOMAIN seen[p] \in SUBSET Formulae
           /\ \A f \in DOMAIN seen[p] : seen[p][f] \in Rack
<1>1. seen[p] \in Scans
  BY DEF Typed
<1>2. PICK D \in SUBSET Formulae : seen[p] \in [D -> Rack]
  BY <1>1 DEF Scans
<1> QED BY <1>1, <1>2 DEF Typed

\* What is selected is locked.
LEMMA SelectedLocked ==
    ASSUME NEW c \in CommandType, NEW l, NEW s, Covers(c, l),
           DOMAIN s = IF c.op = "untap" THEN Formulae ELSE l
    PROVE  Selected(c, s) \subseteq l
<1>1. CASE c.op = "install"
  BY <1>1 DEF Selected, Unmet, Covers
<1>2. CASE c.op = "upgrade"
  BY <1>2 DEF Selected, Outdated, Present
<1>3. CASE c.op = "autoremove"
  BY <1>3, RemovableFacts DEF Selected, Spare, Present
<1>4. CASE c.op \notin {"install", "upgrade", "autoremove"}
  BY <1>4 DEF Selected, Covers
<1> QED BY <1>1, <1>2, <1>3, <1>4

LEMMA OwnFacts ==
    ASSUME Typed, NEW p \in Procs, Own(p), pc[p] \in {"decide"} \cup Acting
    PROVE  /\ Covers(cmd[p], locked[p])
           /\ Selected(cmd[p], seen[p]) \subseteq locked[p]
           /\ pc[p] \in Acting => ToSet(todo[p]) \subseteq locked[p]
           /\ Holds(p)
<1>1. cmd[p] \in CommandType
  BY TypedFacts
<1>2. Covers(cmd[p], locked[p])
  BY DEF Own, Acting
<1>3. DOMAIN seen[p] = IF cmd[p].op = "untap" THEN Formulae ELSE locked[p]
  BY DEF Own
<1>4. Selected(cmd[p], seen[p]) \subseteq locked[p]
  BY <1>1, <1>2, <1>3, SelectedLocked
<1>5. pc[p] \in Acting => ToSet(todo[p]) \subseteq Selected(cmd[p], seen[p])
  BY DEF Own, Planned
<1>6. Holds(p)
  BY DEF Holds, Acting
<1> QED BY <1>2, <1>4, <1>5, <1>6

\* The turns of a loop over a plan.
LEMMA TurnFacts ==
    ASSUME NEW t \in Seq(Formulae), t # <<>>, IsInjective(t)
    PROVE  /\ Head(t) \in Formulae /\ Head(t) \in ToSet(t)
           /\ Tail(t) \in Seq(Formulae) /\ IsInjective(Tail(t))
           /\ ToSet(Tail(t)) = ToSet(t) \ {Head(t)}
<1>1. /\ Len(t) \in Nat /\ Len(t) # 0 /\ 1 \in 1 .. Len(t) /\ Head(t) = t[1]
      /\ DOMAIN t = 1 .. Len(t)
  OBVIOUS
<1>2. /\ Tail(t) \in Seq(Formulae) /\ Len(Tail(t)) = Len(t) - 1
      /\ DOMAIN Tail(t) = 1 .. Len(Tail(t))
  BY <1>1
<1>3. \A i \in 1 .. Len(Tail(t)) : Tail(t)[i] = t[i + 1] /\ i + 1 \in 1 .. Len(t) /\ i + 1 # 1
  BY <1>1, <1>2
<1>4. \A i \in 1 .. Len(t) : i # 1 => i - 1 \in 1 .. Len(Tail(t)) /\ Tail(t)[i - 1] = t[i]
  BY <1>1, <1>2
<1>5. \A i, j \in 1 .. Len(t) : t[i] = t[j] => i = j
  BY <1>1 DEF IsInjective
<1>6. Head(t) \in Formulae /\ Head(t) \in ToSet(t)
  BY <1>1 DEF ToSet
<1>7. IsInjective(Tail(t))
  <2> SUFFICES ASSUME NEW i \in 1 .. Len(Tail(t)), NEW j \in 1 .. Len(Tail(t)),
                      Tail(t)[i] = Tail(t)[j]
               PROVE  i = j
    BY <1>2 DEF IsInjective
  <2>1. i + 1 = j + 1
    BY <1>3, <1>5
  <2> QED BY <2>1
<1>8. ToSet(Tail(t)) = ToSet(t) \ {Head(t)}
  <2>1. ASSUME NEW f \in ToSet(Tail(t)) PROVE f \in ToSet(t) \ {Head(t)}
    <3>1. PICK i \in 1 .. Len(Tail(t)) : f = Tail(t)[i]
      BY <1>2 DEF ToSet
    <3>2. f = t[i + 1] /\ i + 1 \in 1 .. Len(t) /\ i + 1 # 1
      BY <1>3, <3>1
    <3> QED BY <1>1, <1>5, <3>2 DEF ToSet
  <2>2. ASSUME NEW f \in ToSet(t), f # Head(t) PROVE f \in ToSet(Tail(t))
    <3>1. PICK i \in 1 .. Len(t) : f = t[i]
      BY <1>1 DEF ToSet
    <3>2. i # 1
      BY <1>1, <2>2, <3>1
    <3> QED BY <1>2, <1>4, <3>1, <3>2 DEF ToSet
  <2> QED BY <2>1, <2>2
<1> QED BY <1>2, <1>6, <1>7, <1>8

\* The first of what is left needs none of the others, those asked for apart.
LEMMA OrderedTurn ==
    ASSUME NEW t \in Seq(Formulae), t # <<>>, NEW c, Ordered(c, t)
    PROVE  /\ Ordered(c, Tail(t))
           /\ \A g \in ToSet(Tail(t)) : g \notin Needs[Head(t)][Latest] \ Roots(c)
<1>1. /\ Len(t) \in Nat /\ Len(t) # 0 /\ 1 \in 1 .. Len(t) /\ Head(t) = t[1]
  OBVIOUS
<1>2. /\ Tail(t) \in Seq(Formulae) /\ Len(Tail(t)) = Len(t) - 1
      /\ DOMAIN Tail(t) = 1 .. Len(Tail(t))
  BY <1>1
<1>3. \A i \in 1 .. Len(Tail(t)) : Tail(t)[i] = t[i + 1] /\ i + 1 \in 1 .. Len(t) /\ 1 < i + 1
  BY <1>1, <1>2
<1>4. \A i, j \in 1 .. Len(Tail(t)) : i < j => i + 1 < j + 1
  BY <1>1, <1>2
<1>5. Ordered(c, Tail(t))
  <2> SUFFICES ASSUME NEW i \in 1 .. Len(Tail(t)), NEW j \in 1 .. Len(Tail(t)), i < j
               PROVE  Tail(t)[j] \notin Needs[Tail(t)[i]][Latest] \ Roots(c)
    BY DEF Ordered
  <2> QED BY <1>3, <1>4 DEF Ordered
<1>6. ASSUME NEW g \in ToSet(Tail(t)) PROVE g \notin Needs[Head(t)][Latest] \ Roots(c)
  <2>1. PICK i \in 1 .. Len(Tail(t)) : g = Tail(t)[i]
    BY <1>2 DEF ToSet
  <2>2. g = t[i + 1] /\ i + 1 \in 1 .. Len(t) /\ 1 < i + 1
    BY <1>3, <2>1
  <2> QED BY <1>1, <2>2 DEF Ordered
<1> QED BY <1>5, <1>6

LEMMA PlannedTurn ==
    ASSUME NEW t \in Seq(Formulae), t # <<>>, NEW c, NEW s, Planned(c, s, t),
           c.op \notin {"uninstall", "autoremove"}
    PROVE  Planned(c, s, Tail(t))
<1>1. IsInjective(t)
  BY DEF Planned
<1>2. IsInjective(Tail(t)) /\ ToSet(Tail(t)) = ToSet(t) \ {Head(t)}
  BY <1>1, TurnFacts
<1>3. c.op = "install" => Ordered(c, Tail(t))
  BY OrderedTurn DEF Planned
<1> QED BY <1>2, <1>3 DEF Planned
-----------------------------------------------------------------------------
(* What a step does to the racks: p changes those it locked only, and one  *)
(* that it installs is of a tap it locked.                                 *)

Pouring == {"install", "reinstall", "upgrade"}

Effect(p) ==
    /\ rack' \in [Formulae -> Rack]
    /\ \A f \in Formulae : rack'[f] # rack[f] => Holds(p) /\ f \in locked[p]
    /\ \A f \in Formulae : Installed(rack'[f]) =>
          \/ Installed(rack[f])
          \/ Holds(p) /\ cmd[p].op \in Pouring /\ TapOf[f] \in TapsToLock(p)

\* The keg an install, reinstall or upgrade pours is recorded as requested or not.
LEMMA OnRequestType ==
    ASSUME Inv, NEW p \in Procs, pc[p] = "pour", NEW f \in Selected(cmd[p], seen[p]),
           f \in DOMAIN seen[p]
    PROVE  PouredOnRequest(p, f) \in BOOLEAN
<1>1. seen[p][f] \in Rack
  BY TypedFacts DEF Inv
<1>2. cmd[p].op \in Pouring /\ ~Refused(cmd[p], seen[p])
  BY DEF Inv, Own, At, Pouring, Planned, Acting
<1> DEFINE s == seen[p][f]
<1>3. /\ s.kegs \in [Kegs(s) -> BOOLEAN] /\ s.linked \in Kegs(s) \cup {None}
      /\ Installed(s) => Newest(s) \in Kegs(s)
  BY <1>1, RackFacts
<1>4. CASE cmd[p].op = "install"
  BY <1>4 DEF PouredOnRequest
<1>5. CASE cmd[p].op # "install"
  <2>1. Installed(s)
    <3>1. CASE cmd[p].op = "reinstall"
      BY <1>2, <3>1 DEF Refused, Selected, Present
    <3>2. CASE cmd[p].op = "upgrade"
      BY <3>2 DEF Selected, Outdated, Present
    <3> QED BY <1>2, <1>5, <3>1, <3>2 DEF Pouring
  <2> DEFINE old == IF Latest \in Kegs(s) THEN Latest
                    ELSE IF s.linked # None THEN s.linked ELSE Newest(s)
  <2>2. old \in Kegs(s)
    BY <1>3, <2>1
  <2>3. PouredOnRequest(p, f) = s.kegs[old]
    BY <1>5 DEF PouredOnRequest
  <2> HIDE DEF old
  <2> QED BY <1>3, <2>2, <2>3
<1> QED BY <1>4, <1>5

\* The racks g with r for f's.
With(g, f, r) == [g EXCEPT ![f] = r]

\* A pour: f's rack gets the catalog's keg and links it.
PourIs(p, f, k) ==
    /\ Latest \in DOMAIN k
    /\ rack' = With(rack, f, [kegs |-> k, linked |-> Latest, pinned |-> rack[f].pinned])
    /\ [kegs |-> k, linked |-> Latest, pinned |-> rack[f].pinned] \in Rack

PouredRacks(g, f, k, l) == [g EXCEPT ![f].kegs = k, ![f].linked = l]

LEMMA Replaced ==
    ASSUME NEW f \in Formulae, NEW g \in [Formulae -> Rack], NEW k, NEW l
    PROVE  PouredRacks(g, f, k, l)
             = With(g, f, [kegs |-> k, linked |-> l, pinned |-> g[f].pinned])
<1> DEFINE a == [g EXCEPT ![f].kegs = k, ![f].linked = l]
           b == [g EXCEPT ![f] = [kegs |-> k, linked |-> l, pinned |-> g[f].pinned]]
<1>0. g[f] = [kegs |-> g[f].kegs, linked |-> g[f].linked, pinned |-> g[f].pinned]
  BY RackFacts
<1>1. \A h \in Formulae : a[h] = b[h]
  <2> TAKE h \in Formulae
  <2>1. CASE h = f
    <3> DEFINE r == [g[f] EXCEPT !.kegs = k]
    <3>1. r = [kegs |-> k, linked |-> g[f].linked, pinned |-> g[f].pinned]
      BY <1>0
    <3> HIDE DEF r
    <3>2. [r EXCEPT !.linked = l] = [kegs |-> k, linked |-> l, pinned |-> g[f].pinned]
      BY <3>1
    <3>3. [g EXCEPT ![f] = r][f] = r /\ [g EXCEPT ![f] = r] \in [Formulae -> {r} \cup Rack]
      OBVIOUS
    <3>4. a[f] = [r EXCEPT !.linked = l]
      BY <3>3 DEF r
    <3> QED BY <2>1, <3>2, <3>4
  <2>2. CASE h # f
    BY <2>2
  <2> QED BY <2>1, <2>2
<1>2. a = [h \in Formulae |-> a[h]] /\ b = [h \in Formulae |-> b[h]]
  OBVIOUS
<1> QED BY <1>1, <1>2 DEF PouredRacks, With

LEMMA PourFacts ==
    ASSUME Inv, NEW p \in Procs, PourOne(p)
    PROVE  /\ Head(todo[p]) \in Selected(cmd[p], seen[p])
           /\ Head(todo[p]) \in locked[p]
           /\ seen[p][Head(todo[p])] = rack[Head(todo[p])]
           /\ cmd[p].op \in Pouring
           /\ \E k : PourIs(p, Head(todo[p]), k)
<1> DEFINE f == Head(todo[p])
           r == rack[f]
<1>1. pc[p] = "pour" /\ todo[p] # <<>> /\ todo[p] \in Seq(Formulae) /\ Own(p) /\ Typed
  BY TypedFacts DEF PourOne, Inv
<1>2. Planned(cmd[p], seen[p], todo[p]) /\ cmd[p].op \in Pouring
  BY <1>1 DEF Own, Acting, At, Pouring
<1>3. f \in Formulae /\ f \in ToSet(todo[p])
  BY <1>1, <1>2, TurnFacts DEF Planned
<1>4. f \in Selected(cmd[p], seen[p]) /\ f \in locked[p]
  BY <1>1, <1>2, <1>3, OwnFacts DEF Planned, Acting
<1>5. seen[p][f] = r
  <2>1. f \in Relied(p)
    BY <1>1, <1>3, <1>4 DEF Relied
  <2> QED BY <1>1, <2>1 DEF Inv, World, Current
<1>6. f \in DOMAIN seen[p]
  BY <1>1, <1>2, <1>4 DEF Own, Acting, Pouring
<1> DEFINE poured == [v \in Kegs(r) \cup {Latest} |->
                        IF v = Latest THEN PouredOnRequest(p, f) ELSE r.kegs[v]]
           alone == [v \in {Latest} |-> poured[v]]
<1>7. PICK k \in {poured} \cup (IF cmd[p].op = "upgrade" THEN {alone} ELSE {}) :
         rack' = [rack EXCEPT ![f].kegs = k, ![f].linked = Latest]
  BY DEF PourOne
<1>8. /\ rack \in [Formulae -> Rack] /\ r \in Rack
      /\ Kegs(r) \in SUBSET Versions /\ r.kegs \in [Kegs(r) -> BOOLEAN]
      /\ r.pinned \in Kegs(r) \cup {None} /\ Latest \in Versions
      /\ r = [kegs |-> r.kegs, linked |-> r.linked, pinned |-> r.pinned]
  BY <1>1, <1>3, RackFacts DEF Typed, Versions, Latest
<1>9. PouredOnRequest(p, f) \in BOOLEAN
  BY <1>1, <1>4, <1>6, OnRequestType
<1>10. poured \in [Kegs(r) \cup {Latest} -> BOOLEAN]
  BY <1>8, <1>9
<1>11. \E K \in SUBSET Versions : k \in [K -> BOOLEAN] /\ r.pinned \in K \cup {None} /\ Latest \in K
  <2>1. CASE k = poured
    <3>1. Kegs(r) \cup {Latest} \in SUBSET Versions
      BY <1>8
    <3> HIDE DEF poured
    <3> QED BY <1>8, <1>10, <2>1, <3>1
  <2>2. CASE k = alone /\ cmd[p].op = "upgrade"
    <3>1. r.pinned = None
      BY <1>4, <1>5, <2>2 DEF Selected, Outdated
    <3>2. {Latest} \in SUBSET Versions /\ alone \in [{Latest} -> BOOLEAN]
      <4> HIDE DEF poured
      <4> QED BY <1>8, <1>10
    <3> HIDE DEF alone
    <3> QED BY <2>2, <3>1, <3>2
  <2> HIDE DEF poured, alone
  <2> QED BY <1>7, <2>1, <2>2
<1>12. PICK K \in SUBSET Versions : k \in [K -> BOOLEAN] /\ r.pinned \in K \cup {None} /\ Latest \in K
  BY <1>11
<1> HIDE DEF poured, alone
<1>13. [kegs |-> k, linked |-> Latest, pinned |-> r.pinned] \in Rack
  BY <1>12, RackMade
<1>14. rack' = With(rack, f, [kegs |-> k, linked |-> Latest, pinned |-> r.pinned])
  <2>1. PouredRacks(rack, f, k, Latest)
          = With(rack, f, [kegs |-> k, linked |-> Latest, pinned |-> r.pinned])
    BY ONLY <1>3, <1>8, Replaced
  <2>2. rack' = PouredRacks(rack, f, k, Latest)
    BY <1>7 DEF PouredRacks
  <2> QED BY <2>1, <2>2
<1>15. PourIs(p, f, k)
  BY <1>12, <1>13, <1>14 DEF PourIs
<1> QED BY <1>2, <1>4, <1>5, <1>15

LEMMA PourEffect == ASSUME Inv, NEW p \in Procs, PourOne(p) PROVE Effect(p)
<1> DEFINE f == Head(todo[p])
<1>1. /\ f \in Selected(cmd[p], seen[p]) /\ f \in locked[p] /\ cmd[p].op \in Pouring
      /\ \E k : PourIs(p, f, k)
  BY PourFacts
<1>2. PICK k : PourIs(p, f, k)
  BY <1>1
<1>3. rack \in [Formulae -> Rack] /\ locked[p] \in SUBSET Formulae /\ Holds(p)
  BY TypedFacts DEF Inv, Typed, PourOne, Holds
<1>4. TapOf[f] \in TapsToLock(p)
  <2>1. cmd[p].op = "install" => f \in Candidates(cmd[p])
    BY <1>1 DEF Selected, Unmet
  <2> QED BY <1>1, <2>1 DEF TapsToLock, Pouring
<1> HIDE DEF f
<1>5. rack' \in [Formulae -> Rack] /\ \A g \in Formulae : g # f => rack'[g] = rack[g]
  BY <1>1, <1>2, <1>3 DEF PourIs, With
<1> QED BY <1>1, <1>3, <1>4, <1>5 DEF Effect

LEMMA RemoveEffect == ASSUME Inv, NEW p \in Procs, RemoveAll(p) PROVE Effect(p)
<1>1. pc[p] = "remove" /\ Typed /\ Own(p)
  BY DEF RemoveAll, Inv
<1>2. /\ rack \in [Formulae -> Rack] /\ locked[p] \in SUBSET Formulae
      /\ Holds(p) /\ ToSet(todo[p]) \subseteq locked[p]
  BY <1>1, TypedFacts, OwnFacts DEF Typed, Acting
<1>3. rack' = [f \in Formulae |->
                 IF f \in ToSet(todo[p]) THEN Without(rack[f], Targets(p, f)) ELSE rack[f]]
  BY DEF RemoveAll
<1>4. \A f \in Formulae : /\ Without(rack[f], Targets(p, f)) \in Rack
                          /\ Kegs(Without(rack[f], Targets(p, f))) = Kegs(rack[f]) \ Targets(p, f)
  BY <1>2, WithoutFacts
<1>5. rack' \in [Formulae -> Rack]
  BY <1>2, <1>3, <1>4
<1>6. \A f \in Formulae : rack'[f] # rack[f] => f \in locked[p]
  BY <1>2, <1>3
<1>7. \A f \in Formulae : Installed(rack'[f]) => Installed(rack[f])
  <2> TAKE f \in Formulae
  <2>1. Kegs(rack'[f]) = Kegs(rack[f]) \/ Kegs(rack'[f]) = Kegs(rack[f]) \ Targets(p, f)
    BY <1>3, <1>4
  <2> QED BY <2>1 DEF Installed
<1> QED BY <1>2, <1>5, <1>6, <1>7 DEF Effect

\* A rack with another keg linked, or none.
LEMMA Relinked ==
    ASSUME Typed, NEW f \in Formulae, NEW v \in Kegs(rack[f]) \cup {None},
           rack' = [rack EXCEPT ![f].linked = v]
    PROVE  /\ rack' \in [Formulae -> Rack]
           /\ \A g \in Formulae : g # f => rack'[g] = rack[g]
           /\ Kegs(rack'[f]) = Kegs(rack[f])
<1> DEFINE r == [kegs |-> rack[f].kegs, linked |-> v, pinned |-> rack[f].pinned]
<1>1. rack \in [Formulae -> Rack] /\ rack[f] \in Rack
  BY DEF Typed
<1>2. /\ Kegs(rack[f]) \in SUBSET Versions /\ rack[f].kegs \in [Kegs(rack[f]) -> BOOLEAN]
      /\ rack[f].pinned \in Kegs(rack[f]) \cup {None}
      /\ rack[f] = [kegs |-> rack[f].kegs, linked |-> rack[f].linked, pinned |-> rack[f].pinned]
  BY <1>1, RackFacts
<1>3. r \in Rack /\ Kegs(r) = Kegs(rack[f])
  BY <1>2, RackMade
<1>4. [rack[f] EXCEPT !.linked = v] = r
  BY <1>2
<1>5. rack' = [rack EXCEPT ![f] = [rack[f] EXCEPT !.linked = v]]
  BY <1>1
<1> HIDE DEF r
<1>6. rack' = [rack EXCEPT ![f] = r]
  BY <1>4, <1>5
<1> QED BY <1>1, <1>3, <1>6

LEMMA LinkEffect ==
    ASSUME Inv, NEW p \in Procs, LinkOne(p) \/ UnlinkOne(p)
    PROVE  Effect(p)
<1> DEFINE f == Head(todo[p])
<1>1. pc[p] \in {"link", "unlink"} /\ todo[p] # <<>> /\ todo[p] \in Seq(Formulae) /\ Own(p) /\ Typed
  BY TypedFacts DEF LinkOne, UnlinkOne, Inv
<1>2. Planned(cmd[p], seen[p], todo[p]) /\ cmd[p].op \in {"link", "unlink"}
  BY <1>1 DEF Own, Acting, At
<1>3. f \in Formulae /\ f \in ToSet(todo[p])
  BY <1>1, <1>2, TurnFacts DEF Planned
<1>4. f \in Selected(cmd[p], seen[p]) /\ f \in locked[p] /\ Holds(p)
  BY <1>1, <1>2, <1>3, OwnFacts DEF Planned, Acting
<1>5. seen[p][f] = rack[f]
  <2>1. f \in Relied(p)
    BY <1>1, <1>3, <1>4 DEF Relied
  <2> QED BY <1>1, <2>1 DEF Inv, World, Current
<1>6. Installed(rack[f])
  BY <1>2, <1>4, <1>5 DEF Planned, Refused, Selected, Present
<1>7. Newest(seen[p][f]) \in Kegs(rack[f])
  BY <1>1, <1>3, <1>5, <1>6, RackFacts DEF Typed
<1>8. PICK v \in Kegs(rack[f]) \cup {None} : rack' = [rack EXCEPT ![f].linked = v]
  BY <1>7 DEF LinkOne, UnlinkOne
<1>9. /\ rack' \in [Formulae -> Rack]
      /\ \A g \in Formulae : g # f => rack'[g] = rack[g]
      /\ Kegs(rack'[f]) = Kegs(rack[f])
  BY <1>1, <1>3, <1>8, Relinked
<1> HIDE DEF f
<1> QED BY <1>4, <1>9 DEF Effect, Installed

LEMMA StepEffect ==
    ASSUME Inv, NEW p \in Procs, Step(p) \/ Fail(p)
    PROVE  Effect(p)
<1>1. CASE PourOne(p)
  BY <1>1, PourEffect
<1>2. CASE RemoveAll(p)
  BY <1>2, RemoveEffect
<1>3. CASE LinkOne(p) \/ UnlinkOne(p)
  BY <1>3, LinkEffect
<1>4. CASE \/ Enumerate(p) \/ Acquire(p) \/ Scan(p) \/ Decide(p)
           \/ UntapOne(p) \/ Done(p) \/ Fail(p)
  <2>1. rack' = rack
    BY <1>4 DEF Enumerate, Acquire, Scan, Decide, UntapOne, Done, Fail
  <2> QED BY <2>1 DEF Effect, Inv, Typed
<1> QED BY <1>1, <1>2, <1>3, <1>4 DEF Step

\* A step of p leaves the variables of the others alone.
Alone(p) ==
    \A q \in Procs \ {p} :
       /\ cmd'[q] = cmd[q] /\ pc'[q] = pc[q] /\ locked'[q] = locked[q]
       /\ seen'[q] = seen[q] /\ todo'[q] = todo[q]

LEMMA StepAlone ==
    ASSUME Typed, NEW p \in Procs, Step(p) \/ Fail(p)
    PROVE  Alone(p)
<1>1. \A q \in Procs \ {p} : cmd'[q] = cmd[q]
  <2>1. CASE RemoveAll(p)
    BY <2>1 DEF RemoveAll, Typed
  <2> QED BY <2>1 DEF Step, Enumerate, Acquire, Scan, Decide, PourOne,
             LinkOne, UnlinkOne, UntapOne, Done, Fail
<1>2. \A q \in Procs \ {p} : pc'[q] = pc[q]
  BY DEF Typed, Step, Enumerate, Acquire, Scan, Decide, PourOne, RemoveAll,
         LinkOne, UnlinkOne, UntapOne, Done, Fail
<1>3. \A q \in Procs \ {p} : locked'[q] = locked[q]
  BY DEF Typed, Step, Enumerate, Acquire, Scan, Decide, PourOne, RemoveAll,
         LinkOne, UnlinkOne, UntapOne, Done, Fail
<1>4. \A q \in Procs \ {p} : seen'[q] = seen[q]
  BY DEF Typed, Step, Enumerate, Acquire, Scan, Decide, PourOne, RemoveAll,
         LinkOne, UnlinkOne, UntapOne, Done, Fail
<1>5. \A q \in Procs \ {p} : todo'[q] = todo[q]
  BY DEF Typed, Step, Enumerate, Acquire, Scan, Decide, PourOne, RemoveAll,
         LinkOne, UnlinkOne, UntapOne, Done, Fail
<1> QED BY <1>1, <1>2, <1>3, <1>4, <1>5 DEF Alone

\* What another has read and decided stays so, and still is the state of its racks.
LEMMA OthersKeep ==
    ASSUME Inv, NEW p \in Procs, Effect(p), Alone(p), NEW q \in Procs, q # p
    PROVE  Own(q)' /\ World(q)'
<1>1. /\ cmd'[q] = cmd[q] /\ pc'[q] = pc[q] /\ locked'[q] = locked[q]
      /\ seen'[q] = seen[q] /\ todo'[q] = todo[q]
  BY DEF Alone
<1>2. Own(q) /\ World(q) /\ Typed /\ Apart(q, p)
  BY DEF Inv
<1>3. Own(q)'
  BY <1>1, <1>2 DEF Own
<1>4. Relied(q)' = Relied(q)
  BY <1>1 DEF Relied
<1>5. Relied(q) \subseteq locked[q] /\ locked[q] \in SUBSET Formulae
  BY <1>2, TypedFacts DEF Relied
<1>6. ASSUME pc[q] \in {"decide"} \cup Acting, NEW f \in locked[q]
      PROVE  rack'[f] = rack[f]
  <2>1. Holds(q)
    BY <1>6 DEF Holds, Acting
  <2>2. Holds(p) => f \notin locked[p]
    BY <1>2, <2>1, <1>6 DEF Apart, Clash
  <2>3. f \in Formulae
    BY <1>5, <1>6
  <2> QED BY <2>2, <2>3 DEF Effect
<1>7. Current(q)'
  <2> SUFFICES ASSUME pc[q] \in {"decide", "pour", "remove", "link", "unlink"}, NEW f \in Relied(q)
               PROVE  seen[q][f] = rack'[f]
    BY <1>1, <1>4 DEF Current
  <2>1. seen[q][f] = rack[f]
    BY <1>2 DEF World, Current
  <2>2. f \in locked[q] /\ pc[q] \in {"decide"} \cup Acting
    BY <1>5 DEF Acting
  <2> QED BY <1>6, <2>1, <2>2
<1>8. Poured(q)'
  <2> SUFFICES ASSUME pc[q] = "pour", cmd[q].op = "install",
                      NEW f \in Selected(cmd[q], seen[q]) \ ToSet(todo[q])
               PROVE  Installed(rack'[f])
    BY <1>1 DEF Poured
  <2>1. Installed(rack[f])
    BY <1>2 DEF World, Poured
  <2>2. f \in locked[q] /\ pc[q] \in {"decide"} \cup Acting
    BY <1>2, OwnFacts DEF Acting
  <2>3. rack'[f] = rack[f]
    BY <1>6, <2>2
  <2> QED BY <2>1, <2>3
<1>9. Untapped(q)'
  <2> SUFFICES ASSUME pc[q] \in {"decide", "untap"}, cmd[q].op = "untap",
                      NEW f \in Formulae, TapOf[f] \in cmd[q].taps, Installed(rack'[f])
               PROVE  Installed(seen[q][f])
    BY <1>1 DEF Untapped
  <2>1. Holds(q) /\ TapsToLock(q) = cmd[q].taps
    BY DEF Holds, TapsToLock
  <2>2. TapOf[f] \in TapsToLock(p) => ~Holds(p)
    BY <1>2, <2>1 DEF Apart, Clash
  <2>3. Installed(rack[f])
    BY <2>2 DEF Effect
  <2> QED BY <1>2, <2>3 DEF World, Untapped
<1> QED BY <1>3, <1>7, <1>8, <1>9 DEF World
-----------------------------------------------------------------------------
(* What a step makes of the process that takes it. *)

\* What Enumerate locks.
LEMMA ToLockFacts ==
    ASSUME Typed, NEW c \in CommandType
    PROVE  ToLock(c) \in SUBSET Formulae /\ Covers(c, ToLock(c))
<1>1. /\ Roots(c) \in SUBSET Formulae /\ Candidates(c) \in SUBSET Formulae
      /\ Roots(c) \subseteq Candidates(c)
  BY CandidatesFacts
<1>2. \A f \in Formulae : Conflicts[f] \in SUBSET Formulae
  BY CommandsAssumption
<1>3. AllRacks \in SUBSET Formulae
  BY DEF AllRacks
<1>4. c.names = <<>> => Roots(c) = {}
  BY DEF Roots, ToSet
<1>5. CASE c.op = "install"
  BY <1>1, <1>2, <1>5 DEF ToLock, Covers
<1>6. CASE c.op = "uninstall"
  BY <1>1, <1>3, <1>6 DEF ToLock, Covers
<1>7. CASE c.op = "autoremove" \/ (c.op = "upgrade" /\ c.names = <<>>)
  BY <1>3, <1>4, <1>7 DEF ToLock, Covers
<1>8. CASE /\ c.op \notin {"install", "uninstall", "autoremove"}
           /\ ~(c.op = "upgrade" /\ c.names = <<>>)
  BY <1>1, <1>8 DEF ToLock, Covers
<1> QED BY <1>5, <1>6, <1>7, <1>8

LEMMA EnumerateKeeps ==
    ASSUME Inv, NEW p \in Procs, Enumerate(p)
    PROVE  Typed' /\ Own(p)' /\ World(p)'
<1>1. Typed /\ cmd[p] \in CommandType
  BY TypedFacts DEF Inv
<1>2. ToLock(cmd[p]) \in SUBSET Formulae /\ Covers(cmd[p], ToLock(cmd[p]))
  BY <1>1, ToLockFacts
<1>3. /\ locked' = [locked EXCEPT ![p] = ToLock(cmd[p])] /\ pc' = [pc EXCEPT ![p] = "lock"]
      /\ UNCHANGED <<rack, tapped, cmd, seen, todo>>
  BY DEF Enumerate
<1>4. locked'[p] = ToLock(cmd[p]) /\ pc'[p] = "lock" /\ cmd'[p] = cmd[p]
  BY <1>1, <1>3 DEF Typed
<1>5. Typed'
  BY <1>1, <1>2, <1>3 DEF Typed, Pcs
<1>6. Own(p)'
  BY <1>2, <1>4 DEF Own, At, Acting
<1>7. World(p)'
  BY <1>4 DEF World, Current, Poured, Untapped
<1> QED BY <1>5, <1>6, <1>7

LEMMA AcquireKeeps ==
    ASSUME Inv, NEW p \in Procs, Acquire(p)
    PROVE  Typed' /\ Own(p)' /\ World(p)'
<1>1. Typed /\ Own(p) /\ pc[p] = "lock"
  BY DEF Inv, Acquire
<1>2. pc' = [pc EXCEPT ![p] = "scan"] /\ UNCHANGED <<rack, tapped, cmd, locked, seen, todo>>
  BY DEF Acquire
<1>3. pc'[p] = "scan" /\ cmd'[p] = cmd[p] /\ locked'[p] = locked[p]
  BY <1>1, <1>2 DEF Typed
<1>4. Typed'
  BY <1>1, <1>2 DEF Typed, Pcs
<1>5. Own(p)'
  BY <1>1, <1>3 DEF Own, At, Acting
<1>6. World(p)'
  BY <1>3 DEF World, Current, Poured, Untapped
<1> QED BY <1>4, <1>5, <1>6

LEMMA ScanKeeps ==
    ASSUME Inv, NEW p \in Procs, Scan(p)
    PROVE  Typed' /\ Own(p)' /\ World(p)'
<1> DEFINE D == IF cmd[p].op = "untap" THEN Formulae ELSE locked[p]
           s == [f \in D |-> rack[f]]
<1>1. Typed /\ Own(p) /\ pc[p] = "scan"
  BY DEF Inv, Scan
<1>2. /\ seen' = [seen EXCEPT ![p] = s] /\ pc' = [pc EXCEPT ![p] = "decide"]
      /\ UNCHANGED <<rack, tapped, cmd, locked, todo>>
  BY DEF Scan
<1>3. D \in SUBSET Formulae /\ rack \in [Formulae -> Rack]
  BY <1>1, TypedFacts DEF Typed
<1>4. s \in [D -> Rack] /\ DOMAIN s = D /\ \A f \in D : s[f] = rack[f]
  BY <1>3
<1>d. cmd[p].op = "untap" => D = Formulae
  OBVIOUS
<1>e. locked[p] \subseteq D
  BY <1>1, TypedFacts
<1>f. D = IF cmd[p].op = "untap" THEN Formulae ELSE locked[p]
  OBVIOUS
<1> HIDE DEF D, s
<1>5. s \in Scans
  BY <1>3, <1>4 DEF Scans
<1>6. /\ seen'[p] = s /\ pc'[p] = "decide" /\ cmd'[p] = cmd[p] /\ locked'[p] = locked[p]
      /\ rack' = rack
  BY <1>1, <1>2 DEF Typed
<1>7. Typed'
  BY <1>1, <1>2, <1>5 DEF Typed, Pcs
<1>8. Own(p)'
  BY <1>1, <1>4, <1>6, <1>f DEF Own, At, Acting
<1>9. World(p)'
  <2>1. Relied(p)' = locked[p]
    BY <1>6 DEF Relied
  <2>2. Current(p)'
    BY <1>4, <1>6, <1>e, <2>1 DEF Current
  <2>3. Poured(p)'
    BY <1>6 DEF Poured
  <2>4. Untapped(p)'
    BY <1>4, <1>6, <1>d DEF Untapped
  <2> QED BY <2>2, <2>3, <2>4 DEF World
<1> QED BY <1>7, <1>8, <1>9

\* The plan that is made of what was selected.
LEMMA PlanMade ==
    ASSUME NEW c \in CommandType, IsInjective(c.names), NEW s, ~Refused(c, s),
           Selected(c, s) \in SUBSET Formulae,
           NEW t, t = IF c.op = "install" THEN Chosen(PourOrder(c), Selected(c, s))
                                          ELSE InOrder(Selected(c, s))
    PROVE  t \in Seq(Formulae) /\ Planned(c, s, t) /\ ToSet(t) = Selected(c, s)
<1> DEFINE S == Selected(c, s)
<1>1. CASE c.op = "install"
  <2> DEFINE o == PourOrder(c)
  <2>1. PourOrderIs(c, o)
    BY PourOrderFacts
  <2>2. S \subseteq Candidates(c)
    BY <1>1 DEF Selected, Unmet
  <2>3. t = Chosen(o, S)
    BY <1>1
  <2> HIDE DEF o, S
  <2>4. /\ o \in Seq(Formulae) /\ ToSet(o) = Candidates(c) /\ IsInjective(o)
        /\ \A i, j \in 1 .. Len(o) : i < j => o[j] \notin Needs[o[i]][Latest] \ Roots(c)
    BY <2>1 DEF PourOrderIs
  <2>5. IsChosen(Formulae, o, S, t)
    BY <2>3, <2>4, ChosenFacts
  <2>6. /\ t \in Seq(Formulae)
        /\ \A i \in 1 .. Len(t) : t[i] \in S
        /\ \A i \in 1 .. Len(o) : o[i] \in S => \E j \in 1 .. Len(t) : t[j] = o[i]
        /\ \A i, j \in 1 .. Len(t) : i # j => t[i] # t[j]
    BY <2>4, <2>5 DEF IsChosen
  <2>7. ToSet(t) = S
    <3>1. \A f \in S : \E i \in 1 .. Len(o) : o[i] = f
      BY <2>2, <2>4 DEF ToSet
    <3> QED BY <2>6, <3>1 DEF ToSet
  <2>8. IsInjective(t)
    BY <2>6 DEF IsInjective
  <2>9. ASSUME NEW i \in 1 .. Len(t), NEW j \in 1 .. Len(t), i < j
        PROVE  t[j] \notin Needs[t[i]][Latest] \ Roots(c)
    <3>1. o \in Seq(Formulae)
      BY <2>4
    <3>2. \E a, b \in 1 .. Len(o) : a < b /\ t[i] = o[a] /\ t[j] = o[b]
      BY ONLY <2>3, <2>9, <3>1, ChosenOrder
    <3>3. PICK a \in 1 .. Len(o), b \in 1 .. Len(o) : a < b /\ t[i] = o[a] /\ t[j] = o[b]
      BY <3>2
    <3> QED BY <2>4, <3>3
  <2>10. Ordered(c, t)
    BY <2>9 DEF Ordered
  <2> QED BY <1>1, <2>6, <2>7, <2>8, <2>10 DEF Planned, S
<1>2. CASE c.op # "install"
  <2>1. t \in Seq(Formulae) /\ ToSet(t) = S /\ IsInjective(t)
    BY <1>2, InOrderFacts
  <2> QED BY <1>2, <2>1 DEF Planned
<1> QED BY <1>1, <1>2

LEMMA DecideKeeps ==
    ASSUME Inv, NEW p \in Procs, Decide(p)
    PROVE  Typed' /\ Own(p)' /\ World(p)'
<1> DEFINE c == cmd[p]
           s == seen[p]
           t == IF c.op = "install" THEN Chosen(PourOrder(c), Selected(c, s))
                                    ELSE InOrder(Selected(c, s))
           at == CASE c.op \in {"install", "reinstall", "upgrade"} -> "pour"
                   [] c.op \in {"uninstall", "autoremove"} -> "remove"
                   [] OTHER -> c.op
<1>1. Typed /\ Own(p) /\ World(p) /\ pc[p] = "decide" /\ ~Refused(c, s)
  BY DEF Inv, Decide
<1>2. /\ todo' = [todo EXCEPT ![p] = t] /\ pc' = [pc EXCEPT ![p] = at]
      /\ UNCHANGED <<rack, tapped, cmd, locked, seen>>
  BY DEF Decide
<1>3. c \in CommandType /\ IsInjective(c.names) /\ locked[p] \in SUBSET Formulae
  BY <1>1, TypedFacts
<1>4. Selected(c, s) \subseteq locked[p] /\ Covers(c, locked[p])
  BY <1>1, OwnFacts
<1>5. t \in Seq(Formulae) /\ Planned(c, s, t) /\ ToSet(t) = Selected(c, s)
  BY <1>1, <1>3, <1>4, PlanMade
<1>6. c.op \in Ops
  BY <1>3 DEF CommandType
<1>7. at \in Acting /\ At(at, c)
  BY <1>6 DEF Acting, At, Ops
<1>8. at \in Pcs
  BY <1>7 DEF Acting, Pcs
<1> HIDE DEF t, at
<1>9. /\ todo'[p] = t /\ pc'[p] = at /\ cmd'[p] = cmd[p] /\ locked'[p] = locked[p]
      /\ seen'[p] = seen[p] /\ rack' = rack
  BY <1>1, <1>2 DEF Typed
<1>10. Typed'
  BY <1>1, <1>2, <1>5, <1>8 DEF Typed
<1>11. Own(p)'
  BY <1>1, <1>4, <1>5, <1>7, <1>9 DEF Own
<1>12. World(p)'
  <2>1. Relied(p) = locked[p] /\ Relied(p)' = locked[p]
    BY <1>1, <1>5, <1>9 DEF Relied
  <2>2. Current(p)'
    BY <1>1, <1>9, <2>1 DEF World, Current
  <2>3. Poured(p)'
    BY <1>5, <1>9 DEF Poured
  <2>4. Untapped(p)'
    BY <1>1, <1>9 DEF World, Untapped
  <2> QED BY <2>2, <2>3, <2>4 DEF World
<1> QED BY <1>10, <1>11, <1>12

\* A turn of a loop over the plan: the first formula's rack is changed.
Turn(p) ==
    LET f == Head(todo[p])
    IN  /\ todo[p] # <<>>
        /\ todo' = [todo EXCEPT ![p] = Tail(@)]
        /\ UNCHANGED <<tapped, cmd, pc, locked, seen>>
        /\ rack' \in [Formulae -> Rack]
        /\ \A g \in Formulae : g # f => rack'[g] = rack[g]

LEMMA TurnKeeps ==
    ASSUME Inv, NEW p \in Procs, pc[p] \in {"pour", "link", "unlink"}, Turn(p),
           pc[p] = "pour" => Installed(rack'[Head(todo[p])])
    PROVE  Typed' /\ Own(p)' /\ World(p)'
<1> DEFINE f == Head(todo[p])
<1>1. /\ Typed /\ Own(p) /\ World(p) /\ todo[p] # <<>> /\ todo[p] \in Seq(Formulae)
      /\ locked[p] \in SUBSET Formulae
  BY TypedFacts DEF Inv, Turn
<1>2. Planned(cmd[p], seen[p], todo[p]) /\ cmd[p].op \notin {"uninstall", "autoremove"}
  BY <1>1 DEF Own, Acting, At
<1>3. Selected(cmd[p], seen[p]) \subseteq locked[p]
  BY <1>1, OwnFacts DEF Acting
<1>4. /\ f \in Formulae /\ f \in ToSet(todo[p]) /\ Tail(todo[p]) \in Seq(Formulae)
      /\ ToSet(Tail(todo[p])) = ToSet(todo[p]) \ {f}
  BY <1>1, <1>2, TurnFacts DEF Planned
<1>5. f \in Selected(cmd[p], seen[p])
  BY <1>2, <1>4 DEF Planned
<1>6. Planned(cmd[p], seen[p], Tail(todo[p]))
  BY <1>1, <1>2, PlannedTurn
<1>7. /\ todo' = [todo EXCEPT ![p] = Tail(todo[p])]
      /\ UNCHANGED <<tapped, cmd, pc, locked, seen>>
      /\ rack' \in [Formulae -> Rack]
      /\ \A g \in Formulae : g # f => rack'[g] = rack[g]
  BY DEF Turn
<1> HIDE DEF f
<1>8. /\ todo'[p] = Tail(todo[p]) /\ pc'[p] = pc[p] /\ cmd'[p] = cmd[p]
      /\ locked'[p] = locked[p] /\ seen'[p] = seen[p]
  BY <1>1, <1>7 DEF Typed
<1>9. Typed'
  BY <1>1, <1>4, <1>7 DEF Typed
<1>10. Own(p)'
  BY <1>1, <1>6, <1>8 DEF Own
<1>11. Current(p)'
  <2>1. Relied(p)' \subseteq Relied(p) \ {f}
    BY <1>4, <1>5, <1>8 DEF Relied
  <2>2. Relied(p) \subseteq Formulae
    BY <1>1 DEF Relied
  <2>3. \A g \in Relied(p) : seen[p][g] = rack[g]
    BY <1>1 DEF World, Current
  <2>4. \A g \in Relied(p)' : seen[p][g] = rack'[g]
    BY <1>7, <2>1, <2>2, <2>3
  <2> QED BY <1>8, <2>4 DEF Current
<1>12. Poured(p)'
  <2> SUFFICES ASSUME pc[p] = "pour", cmd[p].op = "install",
                      NEW g \in Selected(cmd[p], seen[p]) \ ToSet(Tail(todo[p]))
               PROVE  Installed(rack'[g])
    BY <1>8 DEF Poured
  <2>1. CASE g = f
    BY <2>1 DEF f
  <2>2. CASE g # f
    <3>1. g \in Selected(cmd[p], seen[p]) \ ToSet(todo[p]) /\ g \in Formulae
      BY <1>1, <1>3, <1>4, <2>2
    <3>2. Installed(rack[g]) /\ rack'[g] = rack[g]
      BY <1>1, <1>7, <2>2, <3>1 DEF World, Poured
    <3> QED BY <3>2
  <2> QED BY <2>1, <2>2
<1>13. Untapped(p)'
  BY <1>8 DEF Untapped
<1> QED BY <1>9, <1>10, <1>11, <1>12, <1>13 DEF World

LEMMA PourKeeps ==
    ASSUME Inv, NEW p \in Procs, PourOne(p)
    PROVE  Typed' /\ Own(p)' /\ World(p)'
<1> DEFINE f == Head(todo[p])
<1>1. f \in locked[p] /\ f \in Formulae
  BY PourFacts, TypedFacts DEF Inv
<1>2. PICK k : PourIs(p, f, k)
  BY PourFacts
<1>3. rack \in [Formulae -> Rack] /\ Effect(p)
  BY PourEffect DEF Inv, Typed
<1>4. /\ rack'[f] = [kegs |-> k, linked |-> Latest, pinned |-> rack[f].pinned]
      /\ \A g \in Formulae : g # f => rack'[g] = rack[g]
  BY <1>1, <1>2, <1>3 DEF PourIs, With
<1>5. Installed(rack'[f])
  <2>1. rack'[f].kegs = k
    BY ONLY <1>4
  <2>2. Latest \in DOMAIN k
    BY ONLY <1>2 DEF PourIs
  <2> QED BY ONLY <2>1, <2>2 DEF Installed, Kegs
<1>6. Turn(p)
  BY <1>3, <1>4 DEF Turn, PourOne, Effect
<1> QED BY <1>5, <1>6, TurnKeeps DEF PourOne

LEMMA LinkKeeps ==
    ASSUME Inv, NEW p \in Procs, LinkOne(p) \/ UnlinkOne(p)
    PROVE  Typed' /\ Own(p)' /\ World(p)'
<1> DEFINE f == Head(todo[p])
<1>1. rack \in [Formulae -> Rack] /\ Effect(p)
  BY LinkEffect DEF Inv, Typed
<1>2. \A g \in Formulae : g # f => rack'[g] = rack[g]
  BY <1>1 DEF LinkOne, UnlinkOne
<1>3. Turn(p)
  BY <1>1, <1>2 DEF Turn, LinkOne, UnlinkOne, Effect
<1>4. pc[p] \in {"link", "unlink"}
  BY DEF LinkOne, UnlinkOne
<1> QED BY <1>3, <1>4, TurnKeeps

\* The autoremove that an uninstall ends with is a command.
LEMMA AutoremoveType ==
    ASSUME NEW r \in CommandType,
           NEW c, c = [r EXCEPT !.op = "autoremove", !.names = <<>>, !.ignore = FALSE]
    PROVE  c \in CommandType /\ c.names = <<>>
<1>1. /\ r = [op |-> r.op, names |-> r.names, taps |-> r.taps, force |-> r.force,
              ignore |-> r.ignore, autoremove |-> r.autoremove, noUpgrade |-> r.noUpgrade]
      /\ r.taps \in SUBSET Taps
      /\ r.force \in BOOLEAN /\ r.autoremove \in BOOLEAN /\ r.noUpgrade \in BOOLEAN
  BY DEF CommandType
<1>2. c = [op |-> "autoremove", names |-> <<>>, taps |-> r.taps, force |-> r.force,
           ignore |-> FALSE, autoremove |-> r.autoremove, noUpgrade |-> r.noUpgrade]
  BY <1>1
<1>3. "autoremove" \in Ops /\ <<>> \in Seq(Formulae) /\ FALSE \in BOOLEAN
  BY DEF Ops
<1> QED BY <1>1, <1>2, <1>3 DEF CommandType

LEMMA RemoveKeeps ==
    ASSUME Inv, NEW p \in Procs, RemoveAll(p)
    PROVE  Typed' /\ Own(p)' /\ World(p)'
<1>1. Typed /\ Own(p) /\ pc[p] = "remove" /\ Effect(p)
  BY RemoveEffect DEF Inv, RemoveAll
<1>2. cmd[p] \in CommandType /\ Covers(cmd[p], locked[p])
  BY <1>1, TypedFacts, OwnFacts DEF Acting
<1>3. /\ todo' = [todo EXCEPT ![p] = <<>>]
      /\ UNCHANGED <<tapped, locked, seen>>
  BY DEF RemoveAll
<1>4. CASE cmd[p].op = "uninstall" /\ cmd[p].autoremove
  <2> DEFINE c == [cmd[p] EXCEPT !.op = "autoremove", !.names = <<>>, !.ignore = FALSE]
  <2>1. cmd' = [cmd EXCEPT ![p] = c] /\ pc' = [pc EXCEPT ![p] = "enumerate"]
    BY <1>1, <1>4 DEF RemoveAll, Typed
  <2>c. c \in CommandType /\ c.names = <<>>
    BY <1>2, AutoremoveType
  <2> HIDE DEF c
  <2>2. /\ cmd' \in [Procs -> CommandType]
        /\ \A q \in Procs : cmd'[q].names = IF q = p THEN <<>> ELSE cmd[q].names
    BY <1>1, <2>1, <2>c DEF Typed
  <2>3. IsInjective(<<>>)
    BY DEF IsInjective
  <2>4. pc'[p] = "enumerate"
    BY <1>1, <2>1 DEF Typed
  <2>5. Typed'
    BY <1>1, <1>3, <2>1, <2>2, <2>3 DEF Typed, Effect, Pcs
  <2>6. Own(p)' /\ World(p)'
    BY <2>4 DEF Own, At, Acting, World, Current, Poured, Untapped
  <2> QED BY <2>5, <2>6
<1>5. CASE ~(cmd[p].op = "uninstall" /\ cmd[p].autoremove)
  <2>1. cmd' = cmd /\ pc' = [pc EXCEPT ![p] = "ok"]
    BY <1>5 DEF RemoveAll
  <2>2. pc'[p] = "ok" /\ cmd'[p] = cmd[p] /\ locked'[p] = locked[p]
    BY <1>1, <1>3, <2>1 DEF Typed
  <2>3. Typed'
    BY <1>1, <1>3, <2>1 DEF Typed, Effect, Pcs
  <2>4. Own(p)' /\ World(p)'
    BY <1>2, <2>2 DEF Own, At, Acting, World, Current, Poured, Untapped
  <2> QED BY <2>3, <2>4
<1> QED BY <1>4, <1>5

LEMMA UntapKeeps ==
    ASSUME Inv, NEW p \in Procs, UntapOne(p)
    PROVE  Typed' /\ Own(p)' /\ World(p)'
<1>1. Typed /\ Own(p) /\ World(p)
  BY DEF Inv
<1>2. tapped' \subseteq tapped /\ UNCHANGED <<rack, cmd, pc, locked, seen, todo>>
  BY DEF UntapOne
<1>3. Typed'
  BY <1>1, <1>2 DEF Typed
<1>4. Own(p)'
  BY <1>1, <1>2 DEF Own
<1>5. World(p)'
  BY <1>1, <1>2 DEF World, Current, Poured, Untapped, Relied
<1> QED BY <1>3, <1>4, <1>5

LEMMA EndKeeps ==
    ASSUME Inv, NEW p \in Procs, Done(p) \/ Fail(p)
    PROVE  Typed' /\ Own(p)' /\ World(p)'
<1>1. Typed /\ Own(p) /\ pc[p] # "enumerate"
  BY DEF Inv, Done, Fail
<1>2. PICK at \in {"ok", "failed"} : pc' = [pc EXCEPT ![p] = at]
  BY DEF Done, Fail
<1>3. UNCHANGED <<rack, tapped, cmd, locked, seen, todo>>
  BY DEF Done, Fail
<1>4. pc'[p] = at /\ cmd'[p] = cmd[p] /\ locked'[p] = locked[p]
  BY <1>1, <1>2, <1>3 DEF Typed
<1>5. Typed'
  BY <1>1, <1>2, <1>3 DEF Typed, Pcs
<1>6. Own(p)'
  BY <1>1, <1>4 DEF Own, At, Acting
<1>7. World(p)'
  BY <1>4 DEF World, Current, Poured, Untapped
<1> QED BY <1>5, <1>6, <1>7

LEMMA StepKeeps ==
    ASSUME Inv, NEW p \in Procs, Step(p) \/ Fail(p)
    PROVE  Typed' /\ Own(p)' /\ World(p)'
<1>1. CASE Enumerate(p) \/ Acquire(p)
  BY <1>1, EnumerateKeeps, AcquireKeeps
<1>2. CASE Scan(p) \/ Decide(p)
  BY <1>2, ScanKeeps, DecideKeeps
<1>3. CASE PourOne(p) \/ RemoveAll(p)
  BY <1>3, PourKeeps, RemoveKeeps
<1>4. CASE LinkOne(p) \/ UnlinkOne(p) \/ UntapOne(p)
  BY <1>4, LinkKeeps, UntapKeeps
<1>5. CASE Done(p) \/ Fail(p)
  BY <1>5, EndKeeps
<1> QED BY <1>1, <1>2, <1>3, <1>4, <1>5 DEF Step

\* Locks are exclusive, those of taps for untap.
LEMMA StepApart ==
    ASSUME Inv, NEW p \in Procs, Step(p) \/ Fail(p), NEW q \in Procs, q # p
    PROVE  Apart(p, q)' /\ Apart(q, p)'
<1>1. Typed /\ Apart(p, q) /\ Alone(p)
  BY StepAlone DEF Inv
<1>2. cmd'[q] = cmd[q] /\ pc'[q] = pc[q] /\ locked'[q] = locked[q]
  BY <1>1 DEF Alone
<1>3. Holds(q)' = Holds(q) /\ TapsToLock(q)' = TapsToLock(q)
  BY <1>2 DEF Holds, TapsToLock
<1>4. SUFFICES ASSUME Holds(p)', Holds(q) PROVE ~Clash(p, q)' /\ ~Clash(q, p)'
  BY <1>3 DEF Apart
<1>5. cmd'[p] = cmd[p] /\ locked'[p] = locked[p] /\ ~Clash(p, q)
  <2>1. CASE Acquire(p)
    BY <1>1, <1>4, <2>1 DEF Acquire, Typed
  <2>2. CASE Enumerate(p) \/ RemoveAll(p) \/ Done(p) \/ Fail(p)
    BY <1>1, <1>4, <2>2 DEF Enumerate, RemoveAll, Done, Fail, Typed, Holds
  <2>3. CASE Scan(p) \/ Decide(p) \/ PourOne(p) \/ LinkOne(p) \/ UnlinkOne(p) \/ UntapOne(p)
    BY <1>1, <1>4, <2>3 DEF Scan, Decide, PourOne, LinkOne, UnlinkOne, UntapOne, Apart, Holds
  <2> QED BY <2>1, <2>2, <2>3 DEF Step
<1>6. TapsToLock(p)' = TapsToLock(p)
  BY <1>5 DEF TapsToLock
<1> QED BY <1>2, <1>3, <1>5, <1>6 DEF Clash

LEMMA NextKeeps == Inv /\ [Next]_vars => Inv'
<1> SUFFICES ASSUME Inv, [Next]_vars PROVE Inv'
  OBVIOUS
<1>1. CASE \E p \in Procs : Step(p) \/ Fail(p)
  <2>1. PICK p \in Procs : Step(p) \/ Fail(p)
    BY <1>1
  <2>2. Typed' /\ Own(p)' /\ World(p)'
    BY <2>1, StepKeeps
  <2>3. Effect(p) /\ Alone(p)
    BY <2>1, StepEffect, StepAlone DEF Inv
  <2>4. \A q \in Procs : q # p => Own(q)' /\ World(q)'
    BY <2>3, OthersKeep
  <2>5. \A q \in Procs : q # p => Apart(p, q)' /\ Apart(q, p)'
    BY <2>1, StepApart
  <2>6. ASSUME NEW q \in Procs, NEW r \in Procs, q # p, r # p, q # r PROVE Apart(q, r)'
    BY <2>3, <2>6 DEF Inv, Alone, Apart, Holds, Clash, TapsToLock
  <2> QED BY <2>2, <2>4, <2>5, <2>6 DEF Inv
<1>2. CASE UNCHANGED vars
  BY <1>2 DEF Inv, vars, Typed, Own, World, Current, Poured, Untapped, Relied,
              Apart, Holds, Clash, TapsToLock
<1> QED BY <1>1, <1>2 DEF Next, AllDone
-----------------------------------------------------------------------------
LEMMA InitInv == Init => Inv
<1> SUFFICES ASSUME Init PROVE Inv
  OBVIOUS
<1>1. rack \in [Formulae -> Rack]
  <2>1. /\ rack \in [Formulae -> UNION {Racks[f] : f \in Formulae}]
        /\ \A f \in Formulae : rack[f] \in Racks[f]
    BY DEF Init
  <2>2. \A f \in Formulae : rack[f] \in Rack
    BY <2>1, RacksAssumption, IsInRack
  <2> QED BY <2>1, <2>2
<1>2. cmd \in [Procs -> CommandType] /\ \A p \in Procs : IsInjective(cmd[p].names)
  BY CommandsAssumption DEF Init, CommandType
<1>3. seen \in [Procs -> Scans]
  <2>1. [f \in {} |-> Absent] \in [{} -> Rack] /\ {} \in SUBSET Formulae
    OBVIOUS
  <2>2. [f \in {} |-> Absent] \in Scans
    BY <2>1 DEF Scans
  <2> QED BY <2>2 DEF Init
<1>4. Typed
  BY <1>1, <1>2, <1>3 DEF Init, Typed, Pcs
<1>5. \A p \in Procs : pc[p] = "enumerate"
  BY DEF Init
<1>6. \A p \in Procs : Own(p) /\ World(p)
  BY <1>5 DEF Own, At, Acting, World, Current, Poured, Untapped
<1>7. \A p, q \in Procs : Apart(p, q)
  BY <1>5 DEF Apart, Holds
<1> QED BY <1>4, <1>6, <1>7 DEF Inv

(* The invariant holds of every behaviour, whatever the commands are and    *)
(* however their steps interleave.                                          *)
THEOREM Invariant == Spec => []Inv
BY InitInv, NextKeeps, PTL DEF Spec

(* The racks are racks: a keg that is linked or pinned is there, its        *)
(* receipt says whether it was requested, and every plan is of formulae.    *)
THEOREM TypeCorrect == Spec => []TypeOK
<1>1. ASSUME Inv PROVE TypeOK
  <2>1. DOMAIN rack = Formulae /\ (\A f \in Formulae : IsRack(rack[f])) /\ tapped \subseteq Taps
    BY <1>1, IsInRack DEF Inv, Typed
  <2>2. ASSUME NEW p \in Procs
        PROVE  /\ cmd[p].op \in Ops
               /\ pc[p] \in {"enumerate", "lock", "scan", "decide", "pour", "remove",
                             "link", "unlink", "untap", "ok", "failed"}
               /\ locked[p] \subseteq Formulae
               /\ DOMAIN seen[p] \subseteq Formulae
               /\ todo[p] \in Seq(Formulae)
    <3>1. /\ cmd[p] \in CommandType /\ pc[p] \in Pcs /\ locked[p] \in SUBSET Formulae
          /\ DOMAIN seen[p] \in SUBSET Formulae /\ todo[p] \in Seq(Formulae)
      BY <1>1, TypedFacts DEF Inv
    <3> QED BY <3>1 DEF CommandType, Pcs
  <2> QED BY <2>1, <2>2 DEF TypeOK
<1> QED BY <1>1, Invariant, PTL

(* What a command decided on is still so when it acts: its scan is the      *)
(* state of every rack it locked and has not itself changed                 *)
(* (install.rs 90-92, uninstall.rs 41-58, upgrade.rs 118-150).              *)
THEOREM DecidesOnPresent == Spec => []ScanCurrent
<1>1. Inv => ScanCurrent
  BY DEF Inv, World, Current, ScanCurrent
<1> QED BY <1>1, Invariant, PTL

\* No formula needs itself.
LEMMA NeedsOthers == \A f \in Formulae : f \notin Needs[f][Latest]
<1>1. /\ Order \in Seq(Formulae) /\ IsInjective(Order) /\ ToSet(Order) = Formulae
      /\ \A a \in 1 .. Len(Order) :
            Needs[Order[a]][Latest] \subseteq {Order[b] : b \in 1 .. a - 1}
  BY OrderAssumption
<1> SUFFICES ASSUME NEW f \in Formulae, f \in Needs[f][Latest] PROVE FALSE
  OBVIOUS
<1>2. PICK a \in 1 .. Len(Order) : Order[a] = f
  BY <1>1 DEF ToSet
<1>3. PICK b \in 1 .. a - 1 : f = Order[b]
  BY <1>1, <1>2
<1>4. a \in DOMAIN Order /\ b \in DOMAIN Order /\ a # b
  BY <1>1, <1>2, <1>3
<1> QED BY <1>1, <1>2, <1>3, <1>4 DEF IsInjective

\* An install under way has what the next formula needs.
LEMMA PouredFirst ==
    ASSUME Inv, NEW p \in Procs, pc[p] = "pour", cmd[p].op = "install", todo[p] # <<>>,
           NEW g \in Needs[Head(todo[p])][Latest] \ Roots(cmd[p])
    PROVE  Installed(rack[g])
<1> DEFINE c == cmd[p]
           s == seen[p]
           f == Head(todo[p])
<1>1. /\ Typed /\ Own(p) /\ World(p) /\ c \in CommandType /\ todo[p] \in Seq(Formulae)
      /\ locked[p] \in SUBSET Formulae
  BY TypedFacts DEF Inv
<1>2. Planned(c, s, todo[p])
  BY <1>1 DEF Own, Acting
<1>3. /\ f \in Formulae /\ f \in ToSet(todo[p])
      /\ ToSet(Tail(todo[p])) = ToSet(todo[p]) \ {f}
  BY <1>2, <1>1, TurnFacts DEF Planned
<1>4. f \in Unmet(c, s) /\ Selected(c, s) = Unmet(c, s)
  BY <1>2, <1>3 DEF Planned, Selected
<1>5. g \in Candidates(c) /\ g \in locked[p] /\ g \in Formulae
  <2>1. f \in Candidates(c)
    BY <1>4 DEF Unmet
  <2>2. g \in Candidates(c)
    BY <1>1, <2>1, CandidatesFacts
  <2>3. Covers(c, locked[p])
    BY <1>1, OwnFacts DEF Acting
  <2> QED BY <1>1, <2>2, <2>3 DEF Covers
<1>6. g # f
  BY <1>3, NeedsOthers
<1>7. g \notin ToSet(todo[p])
  <2>1. Ordered(c, todo[p])
    BY <1>2 DEF Planned
  <2>2. \A h \in ToSet(Tail(todo[p])) : h \notin Needs[f][Latest] \ Roots(c)
    BY <1>1, <2>1, OrderedTurn
  <2> QED BY <1>3, <1>6, <2>2
<1>8. CASE g \in Unmet(c, s)
  BY <1>1, <1>4, <1>7, <1>8 DEF World, Poured
<1>9. CASE g \notin Unmet(c, s)
  <2>1. s[g].linked = Latest
    BY <1>5, <1>9 DEF Unmet
  <2>2. g \in Relied(p)
    BY <1>4, <1>5, <1>9 DEF Relied
  <2>3. s[g] = rack[g]
    BY <1>1, <2>2 DEF World, Current
  <2>4. rack[g] \in Rack
    BY <1>1, <1>5 DEF Typed
  <2>5. rack[g].linked \in Kegs(rack[g]) \cup {None}
    BY <2>4, RackFacts
  <2> QED BY <2>1, <2>3, <2>5 DEF Installed, Latest, None
<1> QED BY <1>8, <1>9

(* An install pours a formula only when the dependencies it was not itself  *)
(* asked to install are there, however other commands come and go: killed   *)
(* between two pours, it leaves no formula without them                     *)
(* (install.rs 60-92, 115-160).                                             *)
THEOREM PoursInOrder == Spec => DependenciesFirst
<1>1. Inv /\ [Next]_vars =>
        [\A p \in Procs, f \in Formulae : Pours(p, f) /\ cmd[p].op = "install" =>
            \A g \in Needs[f][Latest] \ Roots(cmd[p]) : Installed(rack[g])]_vars
  BY PouredFirst DEF Pours
<1> QED BY <1>1, Invariant, PTL DEF Spec, DependenciesFirst

(* untap removes no tap of its own with an installed formula, not even one  *)
(* that an install under way commits meanwhile (untap.rs 23-34).            *)
THEOREM UntapsUnused == Spec => UntapSafe
<1>1. ASSUME Inv, NEW p \in Procs, pc[p] = "untap", ~cmd[p].force,
             NEW f \in Formulae, TapOf[f] \in cmd[p].taps
      PROVE  ~Installed(rack[f])
  <2>1. Own(p) /\ World(p)
    BY <1>1 DEF Inv
  <2>2. cmd[p].op = "untap" /\ ~Refused(cmd[p], seen[p]) /\ DOMAIN seen[p] = Formulae
    BY <1>1, <2>1 DEF Own, At, Acting, Planned
  <2>3. ~Installed(seen[p][f])
    BY <1>1, <2>2 DEF Refused, Present
  <2> QED BY <1>1, <2>1, <2>2, <2>3 DEF World, Untapped
<1>2. Inv /\ [Next]_vars =>
        [\A p \in Procs : pc[p] = "untap" /\ ~cmd[p].force =>
            \A t \in cmd[p].taps \cap (tapped \ tapped') : \A f \in Formulae :
              TapOf[f] = t => ~Installed(rack[f])]_vars
  BY <1>1
<1> QED BY <1>2, Invariant, PTL DEF Spec, UntapSafe

\* Only p's own bulk removal ends its removing.
LEMMA WhoRemoves ==
    ASSUME Inv, [Next]_vars, NEW p \in Procs, Removes(p)
    PROVE  RemoveAll(p)
<1>1. pc[p] = "remove" /\ pc'[p] \notin {"remove", "failed"} /\ Typed
  BY DEF Removes, Inv
<1>2. PICK q \in Procs : Step(q) \/ Fail(q)
  BY <1>1 DEF Next, AllDone, vars
<1>3. q = p
  BY <1>1, <1>2, StepAlone DEF Alone
<1>4. ~Fail(p)
  BY <1>1 DEF Fail, Typed
<1>5. ~(Enumerate(p) \/ Acquire(p) \/ Scan(p) \/ Decide(p) \/ PourOne(p)
          \/ LinkOne(p) \/ UnlinkOne(p) \/ UntapOne(p) \/ Done(p))
  BY <1>1 DEF Enumerate, Acquire, Scan, Decide, PourOne, LinkOne, UnlinkOne, UntapOne, Done
<1> QED BY <1>2, <1>3, <1>4, <1>5 DEF Step

LEMMA KeepsWanted ==
    ASSUME Inv, NEW p \in Procs, RemoveAll(p)
    PROVE  /\ cmd[p].op = "autoremove" =>
                \A f \in Gone : \A v \in Kegs(rack[f]) : ~rack[f].kegs[v]
           /\ ~cmd[p].ignore =>
                \A f \in Gone, g \in locked[p] \ Roots(cmd[p]) :
                  \A v \in Kegs(rack'[g]) : f \notin Needs[g][v]
<1> DEFINE c == cmd[p]
           s == seen[p]
           S == Selected(c, s)
<1>1. /\ Typed /\ Own(p) /\ World(p) /\ pc[p] = "remove" /\ locked[p] \in SUBSET Formulae
      /\ rack \in [Formulae -> Rack]
  BY TypedFacts DEF Inv, RemoveAll, Typed
<1>2. /\ c.op \in {"uninstall", "autoremove"} /\ ~Refused(c, s)
      /\ ToSet(todo[p]) = S /\ DOMAIN s = locked[p]
  BY <1>1 DEF Own, At, Acting, Planned
<1>3. S \subseteq locked[p]
  BY <1>1, OwnFacts DEF Acting
<1>4. \A f \in locked[p] : s[f] = rack[f]
  BY <1>1 DEF World, Current, Relied
<1>5. rack' = [f \in Formulae |->
                 IF f \in S THEN Without(rack[f], Targets(p, f)) ELSE rack[f]]
  BY <1>2 DEF RemoveAll
<1>6. \A f \in Formulae : f \notin S => rack'[f] = rack[f]
  BY <1>5
<1>7. \A f \in S : Kegs(rack'[f]) = Kegs(rack[f]) \ Targets(p, f)
  BY <1>1, <1>3, <1>5, WithoutFacts
<1>8. Gone \subseteq S
  BY <1>6 DEF Gone
<1> HIDE DEF S
<1>9. CASE c.op = "uninstall"
  <2>1. S = Roots(c)
    BY <1>9 DEF S, Selected
  <2>2. ASSUME ~c.ignore, NEW f \in Gone, NEW g \in locked[p] \ Roots(c),
               NEW v \in Kegs(rack'[g]), f \in Needs[g][v]
        PROVE  FALSE
    <3>1. rack'[g] = s[g]
      BY <1>1, <1>4, <1>6, <2>1
    <3>2. g \in Present(s)
      BY <1>2, <2>2, <3>1 DEF Present, Installed
    <3>3. g \in Dependents(s, f)
      BY <2>2, <3>1, <3>2 DEF Dependents
    <3>4. f \in Roots(c)
      BY <1>8, <2>1
    <3> QED BY <1>2, <1>9, <2>2, <3>3, <3>4 DEF Refused, UninstallRefused
  <2> QED BY <1>9, <2>2
<1>10. CASE c.op = "autoremove"
  <2>1. S = Removable(s) /\ Spare(s, S)
    BY <1>10, RemovableFacts DEF S, Selected
  <2>2. ASSUME NEW f \in Gone, NEW v \in Kegs(rack[f])
        PROVE  ~rack[f].kegs[v]
    <3>1. ~Requested(s[f]) /\ s[f] = rack[f]
      BY <1>3, <1>4, <1>8, <2>1 DEF Spare
    <3> QED BY <3>1 DEF Requested
  <2>3. ASSUME NEW f \in Gone, NEW g \in locked[p], NEW v \in Kegs(rack'[g])
        PROVE  f \notin Needs[g][v]
    <3>1. CASE g \in S
      <4>1. Targets(p, g) = Kegs(rack[g])
        BY <1>4, <1>10 DEF Targets
      <4> QED BY <1>7, <2>3, <3>1, <4>1
    <3>2. CASE g \notin S
      <4>1. rack'[g] = s[g]
        BY <1>1, <1>4, <1>6, <3>2
      <4>2. g \in Present(s)
        BY <1>2, <2>3, <4>1 DEF Present, Installed
      <4>3. f \in Needs[g][v] => g \in Dependents(s, f)
        BY <2>3, <4>1, <4>2 DEF Dependents
      <4>4. Dependents(s, f) \subseteq S
        BY <1>8, <2>1 DEF Spare
      <4> QED BY <3>2, <4>3, <4>4
    <3> QED BY <3>1, <3>2
  <2> QED BY <1>10, <2>2, <2>3
<1> QED BY <1>2, <1>9, <1>10

(* A removal takes nothing that is still wanted.  autoremove never takes a  *)
(* formula some keg of which was installed on request; and one that checks  *)
(* dependents takes nothing that a formula it enumerated, and was not asked *)
(* to remove, still needs (uninstall.rs 180-232, autoremove.rs 69-112).     *)
THEOREM RemovesUnwanted == Spec => RemovalKeepsWanted
<1>1. Inv /\ [Next]_vars =>
        [\A p \in Procs : Removes(p) =>
            /\ cmd[p].op = "autoremove" =>
                 \A f \in Gone : \A v \in Kegs(rack[f]) : ~rack[f].kegs[v]
            /\ ~cmd[p].ignore =>
                 \A f \in Gone, g \in locked[p] \ Roots(cmd[p]) :
                   \A v \in Kegs(rack'[g]) : f \notin Needs[g][v]]_vars
  BY WhoRemoves, KeepsWanted
<1> QED BY <1>1, Invariant, PTL DEF Spec, RemovalKeepsWanted

-----------------------------------------------------------------------------
(* Taps.  For any number of processes, taps, commands and faults: a tap    *)
(* command that succeeds has done what it was asked to every tap, and no   *)
(* partial tap is left that nobody was told of.                            *)
(*                                                                         *)
(* The invariant: a process past its locks holds those of all its taps, so *)
(* no other changes them; the taps it is done with are gone; and a partial *)
(* tap was reported or is the one its lock's holder works on.              *)

Cloning == {"clone", "cloning", "rollback"}
Removing == {"untap", "removing", "parent", "rmdir"}
Locked == {"look"} \cup Cloning \cup Removing
Pulling == {"pull", "pulling"}
Over == {"ok", "failed", "killed"}

HasLocks(p) == tapPc[p] \in Locked \/ (tapPc[p] = "next" /\ task[p].op = "untap")

\* Types, and which commands are where.
TapsTyped ==
    /\ taps \in [TapNames -> {"none", "part", "whole", "other"}]
    /\ tapLock \in [TapNames -> TapProcs \cup {Nobody}]
    /\ DOMAIN task = TapProcs /\ DOMAIN tapAt = TapProcs
    /\ tapPc \in [TapProcs -> {"start", "locks", "next"} \cup Locked \cup Pulling \cup Over]
    /\ tapAt \in [TapProcs -> Nat \ {0}]

TaskTyped(p) ==
    /\ DOMAIN task[p] = {"op", "names", "remote", "force"}
    /\ task[p].op \in {"tap", "untap", "update"}
    /\ tapPc[p] \in Cloning => task[p].op = "tap"
    /\ tapPc[p] \in Removing => task[p].op = "untap"
    /\ tapPc[p] \in Pulling => task[p].op = "update"
    /\ tapPc[p] \in {"locks", "look"} => task[p].op # "update"
    /\ tapPc[p] = "next" => task[p].op # "tap"
    /\ tapPc[p] \in {"start", "locks", "look"} => tapAt[p] = 1
    /\ task[p].op # "update" =>
         /\ DOMAIN task[p].names = 1 .. Len(task[p].names) /\ Len(task[p].names) \in Nat \ {0}
         /\ tapAt[p] <= Len(task[p].names)
         /\ tapPc[p] \notin {"start"} \cup Over => AskedSet(p) \subseteq TapNames
    /\ task[p].op = "tap" => Len(task[p].names) = 1

Held(p) == HasLocks(p) => \A t \in AskedSet(p) : tapLock[t] = p

\* What an untap has behind it.
DoneUpTo(p) == IF tapPc[p] \in {"parent", "rmdir", "next"} THEN tapAt[p] ELSE tapAt[p] - 1
Behind(p) ==
    task[p].op = "untap" /\ tapPc[p] \in Removing \cup {"next"} =>
       /\ task[p].force \/ sources \cap AskedSet(p) = {}
       /\ \A i \in 1 .. DoneUpTo(p) : taps[Asked(p)[i]] = "none"

Told ==
    \A t \in TapNames : taps[t] = "part" =>
       \/ t \in tapLeft
       \/ \E p \in TapProcs : /\ tapLock[t] = p /\ Tap(p) = t
                              /\ tapPc[p] \in {"cloning", "rollback", "removing"}

TapsInv == /\ TapsTyped /\ Told
           /\ \A p \in TapProcs : TaskTyped(p) /\ Held(p) /\ Behind(p)

-----------------------------------------------------------------------------
\* What parses as a tap is one.
LEMMA Parsed == ASSUME NEW raw, TapName(raw) # Invalid PROVE TapName(raw) \in TapNames
  BY DEF TapName, TapNames

\* The tap a process is at is one of those it was asked for.
LEMMA AtAsked ==
    ASSUME TapsInv, NEW p \in TapProcs, task[p].op # "update"
    PROVE  /\ Tap(p) \in AskedSet(p) /\ tapAt[p] \in DOMAIN Asked(p)
           /\ DOMAIN Asked(p) = 1 .. Len(task[p].names)
           /\ \A i \in 1 .. Len(task[p].names) : Asked(p)[i] \in AskedSet(p)
           /\ task[p].op = "tap" => AskedSet(p) = {Tap(p)}
<1>1. TaskTyped(p) /\ tapAt[p] \in Nat \ {0}
  BY DEF TapsInv, TapsTyped
<1>2. DOMAIN Asked(p) = 1 .. Len(task[p].names) /\ tapAt[p] \in DOMAIN Asked(p)
  BY <1>1 DEF TaskTyped, Asked
<1>3. Tap(p) \in AskedSet(p) /\ \A i \in 1 .. Len(task[p].names) : Asked(p)[i] \in AskedSet(p)
  BY <1>2 DEF Tap, AskedSet
<1>4. task[p].op = "tap" => AskedSet(p) = {Tap(p)}
  <2> SUFFICES ASSUME task[p].op = "tap" PROVE AskedSet(p) = {Tap(p)}
    OBVIOUS
  <2>1. Len(task[p].names) = 1
    BY <1>1 DEF TaskTyped
  <2>2. DOMAIN Asked(p) = {1} /\ tapAt[p] = 1
    BY <1>1, <1>2, <2>1
  <2> QED
    BY <2>2 DEF AskedSet, Tap
<1> QED
  BY <1>2, <1>3, <1>4

LEMMA TapsInitInv == TapsInit => TapsInv
<1> SUFFICES ASSUME TapsInit PROVE TapsInv
  OBVIOUS
<1>1. TapsTyped
  BY DEF TapsInit, TapsTyped
<1>2. Told
  BY DEF TapsInit, Told
<1>3. ASSUME NEW p \in TapProcs PROVE TaskTyped(p) /\ Held(p) /\ Behind(p)
  <2>1. task[p] \in TapCommands /\ tapPc[p] = "start" /\ tapAt[p] = 1
    BY DEF TapsInit
  <2>2. TaskTyped(p)
    BY <2>1, TapsAssumption DEF TaskTyped, Cloning, Removing, Pulling
  <2> QED
    BY <2>1, <2>2 DEF Held, HasLocks, Behind, Locked, Cloning, Removing
<1> QED
  BY <1>1, <1>2, <1>3 DEF TapsInv

-----------------------------------------------------------------------------
(* One process's step, as the others see it.                               *)

\* Only p moves; it takes free locks, drops its own, and changes taps it has locked.
Framed(p) ==
    /\ sources' = sources /\ tapLeft \subseteq tapLeft'
    /\ \A q \in TapProcs \ {p} :
          tapPc'[q] = tapPc[q] /\ tapAt'[q] = tapAt[q] /\ task'[q] = task[q]
    /\ \A t \in TapNames : tapLock'[t] = tapLock[t] \/ tapLock[t] \in {p, Nobody}
    /\ \A t \in TapNames : taps'[t] = taps[t] \/ tapLock[t] = p

Works(p, t) == tapLock[t] = p /\ Tap(p) = t /\ tapPc[p] \in {"cloning", "rollback", "removing"}

\* A tap that is partial after the step and that p answers for.
ToldBy(p) ==
    \A t \in TapNames :
       taps'[t] = "part" /\ (taps[t] # "part" \/ Works(p, t)) => t \in tapLeft' \/ Works(p, t)'

LEMMA OtherTapsKeep ==
    ASSUME TapsInv, NEW p \in TapProcs, Framed(p), NEW q \in TapProcs, q # p
    PROVE  (TaskTyped(q) /\ Held(q) /\ Behind(q))'
<1>1. TaskTyped(q) /\ Held(q) /\ Behind(q) /\ TapsTyped
  BY DEF TapsInv
<1>2. tapPc'[q] = tapPc[q] /\ tapAt'[q] = tapAt[q] /\ task'[q] = task[q] /\ sources' = sources
  BY DEF Framed
<1>3. Asked(q)' = Asked(q)
  BY <1>2 DEF Asked
<1>4. AskedSet(q)' = AskedSet(q)
  BY <1>3 DEF AskedSet
<1>5. TaskTyped(q)'
  BY <1>1, <1>2, <1>4 DEF TaskTyped
<1>6. ASSUME HasLocks(q), task[q].op # "update", NEW t \in AskedSet(q)
      PROVE  tapLock[t] = q /\ tapLock'[t] = q /\ taps'[t] = taps[t]
  <2>1. t \in TapNames
    BY <1>1, <1>6 DEF TaskTyped, HasLocks, Locked, Cloning, Removing, Over
  <2>2. tapLock[t] = q /\ q # Nobody
    BY <1>1, <1>6, TapsAssumption DEF Held, Nobody
  <2> QED
    BY <2>1, <2>2 DEF Framed
<1>7. HasLocks(q)' = HasLocks(q)
  BY <1>2 DEF HasLocks
<1>8. HasLocks(q) => task[q].op # "update"
  BY <1>1 DEF HasLocks, TaskTyped, Locked
<1>9. Held(q)'
  BY <1>4, <1>6, <1>7, <1>8 DEF Held
<1>10. Behind(q)'
  <2> SUFFICES ASSUME task[q].op = "untap", tapPc[q] \in Removing \cup {"next"}
               PROVE  /\ task[q].force \/ sources \cap AskedSet(q) = {}
                      /\ \A i \in 1 .. DoneUpTo(q) : taps'[Asked(q)[i]] = "none"
    BY <1>2, <1>3, <1>4 DEF Behind, DoneUpTo
  <2>1. HasLocks(q)
    BY DEF HasLocks, Locked
  <2>2. \A i \in 1 .. DoneUpTo(q) : taps[Asked(q)[i]] = "none"
    BY <1>1 DEF Behind
  <2>3. \A i \in 1 .. DoneUpTo(q) : Asked(q)[i] \in AskedSet(q)
    <3>1. DoneUpTo(q) <= tapAt[q] /\ DoneUpTo(q) \in Int /\ tapAt[q] \in Nat
      BY <1>1 DEF TapsTyped, DoneUpTo
    <3>2. tapAt[q] <= Len(task[q].names) /\ Len(task[q].names) \in Nat
      BY <1>1 DEF TaskTyped
    <3>3. \A i \in 1 .. Len(task[q].names) : Asked(q)[i] \in AskedSet(q)
      BY AtAsked
    <3> QED
      BY <3>1, <3>2, <3>3
  <2>4. \A i \in 1 .. DoneUpTo(q) : taps'[Asked(q)[i]] = taps[Asked(q)[i]]
    BY <1>6, <2>1, <2>3
  <2> QED
    BY <1>1, <2>2, <2>4 DEF Behind
<1> QED
  BY <1>5, <1>9, <1>10

\* So a step preserves the invariant when it does for its process.
LEMMA TapStepKeeps ==
    ASSUME TapsInv, NEW p \in TapProcs, Framed(p), TapsTyped', ToldBy(p),
           (TaskTyped(p) /\ Held(p) /\ Behind(p))'
    PROVE  TapsInv'
<1>1. \A q \in TapProcs : (TaskTyped(q) /\ Held(q) /\ Behind(q))'
  BY OtherTapsKeep
<1>2. ASSUME NEW t \in TapNames, taps'[t] = "part", t \notin tapLeft'
      PROVE  \E h \in TapProcs : Works(h, t)'
  <2>1. CASE taps[t] # "part" \/ Works(p, t)
    BY <1>2, <2>1 DEF ToldBy
  <2>2. CASE taps[t] = "part" /\ ~Works(p, t)
    <3>1. t \notin tapLeft
      BY <1>2 DEF Framed
    <3>2. PICK h \in TapProcs : Works(h, t)
      BY <2>2, <3>1 DEF TapsInv, Told, Works
    <3>3. h # p /\ h # Nobody /\ tapLock[t] = h
      BY <2>2, <3>2, TapsAssumption DEF Works, Nobody
    <3>4. tapLock'[t] = h /\ tapPc'[h] = tapPc[h] /\ tapAt'[h] = tapAt[h] /\ task'[h] = task[h]
      BY <3>3 DEF Framed
    <3>5. Tap(h)' = Tap(h)
      BY <3>4 DEF Tap, Asked
    <3> QED
      BY <3>2, <3>4, <3>5 DEF Works
  <2> QED
    BY <2>1, <2>2
<1>3. Told'
  BY <1>2 DEF Told, Works
<1> QED
  BY <1>1, <1>3 DEF TapsInv

\* Dropping its own locks, a process frames the others.
LEMMA FinishFrames ==
    ASSUME TapsInv, NEW p \in TapProcs, NEW r \in Over, Finish(p, r),
           sources' = sources, task' = task, tapAt' = tapAt, tapLeft \subseteq tapLeft',
           taps' \in [TapNames -> {"none", "part", "whole", "other"}],
           \A t \in TapNames : taps'[t] = taps[t] \/ tapLock[t] = p
    PROVE  Framed(p) /\ TapsTyped' /\ (TaskTyped(p) /\ Held(p) /\ Behind(p))'
<1>1. TapsTyped /\ TaskTyped(p)
  BY DEF TapsInv
<1>2. /\ tapPc' = [tapPc EXCEPT ![p] = r]
      /\ tapLock' = [t \in TapNames |-> IF tapLock[t] = p THEN Nobody ELSE tapLock[t]]
  BY DEF Finish, Goto, Unlocked
<1>3. Framed(p)
  BY <1>1, <1>2 DEF Framed, TapsTyped
<1>4. TapsTyped'
  BY <1>1, <1>2 DEF TapsTyped
<1>5. tapPc'[p] = r
  BY <1>1, <1>2 DEF TapsTyped
<1>6. TaskTyped(p)'
  BY <1>1, <1>5 DEF TaskTyped, Over, Cloning, Removing, Pulling
<1>7. Held(p)' /\ Behind(p)'
  BY <1>5 DEF Held, HasLocks, Behind, Over, Locked, Cloning, Removing
<1> QED
  BY <1>3, <1>4, <1>6, <1>7

\* Where a command may be.
Fits(op, b) ==
    /\ b \in Cloning => op = "tap"
    /\ b \in Removing => op = "untap"
    /\ b \in Pulling => op = "update"
    /\ b = "next" => op # "tap"

\* Going on under its locks, or an update without, a process frames the others.
LEMMA MoveFrames ==
    ASSUME TapsInv, NEW p \in TapProcs, NEW b \in (Locked \ {"look"}) \cup Pulling \cup {"next"}, Goto(p, b),
           Fits(task[p].op, b), task[p].op = "update" \/ HasLocks(p),
           tapLock' = tapLock, sources' = sources, task' = task, tapAt' = tapAt,
           tapLeft \subseteq tapLeft',
           taps' \in [TapNames -> {"none", "part", "whole", "other"}],
           \A t \in TapNames : taps'[t] = taps[t] \/ tapLock[t] = p
    PROVE  /\ Framed(p) /\ TapsTyped' /\ (TaskTyped(p) /\ Held(p))'
           /\ tapPc'[p] = b /\ AskedSet(p)' = AskedSet(p) /\ Asked(p)' = Asked(p)
<1>1. TapsTyped /\ TaskTyped(p) /\ Held(p)
  BY DEF TapsInv
<1>2. tapPc' = [tapPc EXCEPT ![p] = b]
  BY DEF Goto
<1>3. Framed(p) /\ TapsTyped' /\ tapPc'[p] = b
  BY <1>1, <1>2 DEF Framed, TapsTyped
<1>4. AskedSet(p)' = AskedSet(p) /\ Asked(p)' = Asked(p)
  BY DEF AskedSet, Asked
<1>5. TaskTyped(p)'
  <2>1. task[p].op # "update" => AskedSet(p) \subseteq TapNames
    BY <1>1 DEF TaskTyped, HasLocks, Locked, Cloning, Removing, Over
  <2> QED
    BY <1>1, <1>3, <1>4, <2>1 DEF TaskTyped, Fits, Locked, Cloning, Removing, Pulling
<1>6. Held(p)'
  <2>1. CASE HasLocks(p)
    BY <1>1, <1>4, <2>1 DEF Held
  <2>2. CASE task[p].op = "update"
    BY <1>3, <2>2 DEF Held, HasLocks, Fits, Locked, Pulling
  <2> QED
    BY <2>1, <2>2
<1> QED
  BY <1>3, <1>4, <1>5, <1>6

-----------------------------------------------------------------------------
(* The steps.                                                              *)

LEMMA StartKeeps == ASSUME TapsInv, NEW p \in TapProcs, StartTask(p) PROVE TapsInv'
<1>1. TapsTyped /\ TaskTyped(p)
  BY DEF TapsInv
<1>2. PICK b \in {"failed", "locks"} :
        tapPc' = [tapPc EXCEPT ![p] = b] /\ (b = "locks" => Invalid \notin AskedSet(p))
  BY DEF StartTask, Goto
<1>3. tapPc'[p] = b /\ tapPc[p] = "start" /\ task[p].op # "update"
  BY <1>1, <1>2 DEF TapsTyped, StartTask
<1>4. Framed(p) /\ TapsTyped'
  BY <1>1, <1>2 DEF StartTask, Framed, TapsTyped, Over
<1>5. AskedSet(p)' = AskedSet(p)
  BY DEF StartTask, AskedSet, Asked
<1>6. b = "locks" => AskedSet(p) \subseteq TapNames
  BY <1>2, Parsed DEF AskedSet, Asked
<1>7. TaskTyped(p)'
  BY <1>1, <1>3, <1>5, <1>6 DEF StartTask, TaskTyped, Over, Cloning, Removing, Pulling
<1>8. (Held(p) /\ Behind(p))'
  BY <1>3 DEF Held, HasLocks, Behind, Locked, Cloning, Removing
<1>9. ToldBy(p)
  BY <1>3 DEF StartTask, ToldBy, Works
<1> QED
  BY <1>4, <1>7, <1>8, <1>9, TapStepKeeps

LEMMA ListKeeps == ASSUME TapsInv, NEW p \in TapProcs, ListTaps(p) PROVE TapsInv'
<1>1. TapsTyped /\ TaskTyped(p)
  BY DEF TapsInv
<1> DEFINE there == SelectSeq(task[p].names, LAMBDA raw : TapThere(TapName(raw)))
           b == IF there = <<>> THEN "ok" ELSE "pull"
<1>2. /\ task' = [task EXCEPT ![p].names = there] /\ tapPc' = [tapPc EXCEPT ![p] = b]
      /\ tapPc[p] = "start" /\ task[p].op = "update"
      /\ UNCHANGED <<taps, userDirs, tapLock, sources, tapAt, tapLeft, tapFaults>>
  BY Zenon DEF ListTaps, Goto
<1>0. b \in {"ok", "pull"}
  BY Zenon
<1> HIDE DEF there, b
<1>3. tapPc'[p] = b /\ tapPc[p] = "start" /\ task[p].op = "update"
  BY <1>1, <1>2 DEF TapsTyped
<1>4. Framed(p) /\ TapsTyped'
  BY <1>1, <1>2, <1>0 DEF Framed, TapsTyped, Over, Pulling
<1>5. /\ DOMAIN task'[p] = {"op", "names", "remote", "force"}
      /\ task'[p].op = "update"
  BY <1>1, <1>2, <1>3 DEF TapsTyped, TaskTyped
<1>6. TaskTyped(p)'
  BY <1>0, <1>3, <1>5 DEF TaskTyped, Cloning, Removing, Pulling
<1>7. (Held(p) /\ Behind(p))'
  BY <1>0, <1>3, <1>5 DEF Held, HasLocks, Behind, Locked, Cloning, Removing
<1>8. ToldBy(p)
  BY <1>2, <1>3 DEF ToldBy, Works
<1> QED
  BY <1>4, <1>6, <1>7, <1>8, TapStepKeeps

LEMMA LockKeeps == ASSUME TapsInv, NEW p \in TapProcs, LockTaps(p) PROVE TapsInv'
<1>1. TapsTyped /\ TaskTyped(p)
  BY DEF TapsInv
<1>2. AskedSet(p) \subseteq TapNames /\ AskedSet(p)' = AskedSet(p)
  BY <1>1 DEF LockTaps, TaskTyped, Over, AskedSet, Asked
<1>3. PICK b \in {"look", "failed"} :
        /\ tapPc' = [tapPc EXCEPT ![p] = b]
        /\ b = "failed" => tapLock' = tapLock
        /\ b = "look" =>
             /\ \A t \in AskedSet(p) : tapLock[t] = Nobody
             /\ tapLock' = [t \in TapNames |-> IF t \in AskedSet(p) THEN p ELSE tapLock[t]]
  BY DEF LockTaps, Goto
<1>4. tapPc'[p] = b /\ tapPc[p] = "locks"
  BY <1>1, <1>3 DEF TapsTyped, LockTaps
<1>5. Framed(p) /\ TapsTyped'
  BY <1>1, <1>3 DEF LockTaps, Framed, TapsTyped, Over, Locked
<1>6. TaskTyped(p)'
  BY <1>1, <1>2, <1>4 DEF LockTaps, TaskTyped, Over, Cloning, Removing, Pulling
<1>7. Held(p)' /\ Behind(p)'
  BY <1>2, <1>3, <1>4 DEF Held, HasLocks, Behind, Locked, Cloning, Removing
<1>8. ToldBy(p)
  BY <1>4 DEF LockTaps, ToldBy, Works
<1> QED
  BY <1>5, <1>6, <1>7, <1>8, TapStepKeeps

LEMMA PrepareKeeps == ASSUME TapsInv, NEW p \in TapProcs, PrepareParent(p) PROVE TapsInv'
<1>1. TapsTyped /\ TaskTyped(p)
  BY DEF TapsInv
<1>2. /\ tapPc[p] = "look" /\ task[p].op = "tap"
      /\ taps' = taps /\ sources' = sources /\ task' = task /\ tapAt' = tapAt /\ tapLeft' = tapLeft
  BY DEF PrepareParent
<1>3. ToldBy(p)
  BY <1>2 DEF ToldBy, Works
<1>4. CASE Finish(p, "failed")
  BY <1>1, <1>2, <1>3, <1>4, FinishFrames, TapStepKeeps DEF TapsTyped, Over
<1>5. CASE Goto(p, "clone") /\ tapLock' = tapLock
  <2>1. /\ Framed(p) /\ TapsTyped' /\ (TaskTyped(p) /\ Held(p))' /\ tapPc'[p] = "clone"
    BY <1>1, <1>2, <1>5, MoveFrames
       DEF TapsTyped, Fits, HasLocks, Locked, Cloning, Removing, Pulling
  <2>2. Behind(p)'
    BY <1>2 DEF Behind
  <2> QED
    BY <1>3, <2>1, <2>2, TapStepKeeps
<1> QED
  BY <1>4, <1>5 DEF PrepareParent

LEMMA BeginCloneKeeps == ASSUME TapsInv, NEW p \in TapProcs, BeginClone(p) PROVE TapsInv'
<1>1. TapsTyped /\ TaskTyped(p) /\ Held(p)
  BY DEF TapsInv
<1>2. /\ tapPc[p] = "clone" /\ task[p].op = "tap"
      /\ taps' = [taps EXCEPT ![Tap(p)] = "part"] /\ tapLock' = tapLock
      /\ sources' = sources /\ task' = task /\ tapAt' = tapAt /\ tapLeft' = tapLeft
      /\ Goto(p, "cloning")
  BY <1>1 DEF BeginClone, TaskTyped, Cloning
<1>3. tapLock[Tap(p)] = p
  BY <1>1, <1>2, AtAsked DEF Held, HasLocks, Locked, Cloning
<1>4. /\ Framed(p) /\ TapsTyped' /\ (TaskTyped(p) /\ Held(p))' /\ tapPc'[p] = "cloning"
  <2>1. /\ taps' \in [TapNames -> {"none", "part", "whole", "other"}]
        /\ \A t \in TapNames : taps'[t] = taps[t] \/ tapLock[t] = p
    BY <1>1, <1>2, <1>3 DEF TapsTyped
  <2> QED
    BY <1>2, <2>1, MoveFrames DEF Fits, HasLocks, Locked, Cloning, Removing, Pulling
<1>5. Behind(p)'
  BY <1>2 DEF Behind
<1>6. ToldBy(p)
  <2>1. Tap(p)' = Tap(p)
    BY <1>2 DEF Tap, Asked
  <2> QED
    BY <1>1, <1>2, <1>3, <1>4, <2>1 DEF ToldBy, Works, TapsTyped
<1> QED
  BY <1>4, <1>5, <1>6, TapStepKeeps

LEMMA EndCloneKeeps == ASSUME TapsInv, NEW p \in TapProcs, EndClone(p) PROVE TapsInv'
<1>1. TapsTyped /\ TaskTyped(p) /\ Held(p)
  BY DEF TapsInv
<1>2. /\ tapPc[p] = "cloning" /\ task[p].op = "tap"
      /\ sources' = sources /\ task' = task /\ tapAt' = tapAt /\ tapLeft' = tapLeft
  BY <1>1 DEF EndClone, TaskTyped, Cloning
<1>3. tapLock[Tap(p)] = p
  BY <1>1, <1>2, AtAsked DEF Held, HasLocks, Locked, Cloning
<1>4. /\ taps' \in [TapNames -> {"none", "part", "whole", "other"}]
      /\ \A t \in TapNames : taps'[t] = taps[t] \/ tapLock[t] = p
  BY <1>1, <1>3 DEF EndClone, TapsTyped
<1>5. Behind(p)'
  BY <1>2 DEF Behind
<1>6. CASE /\ taps' = [taps EXCEPT ![Tap(p)] = "whole"]
           /\ Finish(p, "ok") \/ Finish(p, "failed")
  <2>1. ToldBy(p)
    BY <1>1, <1>6 DEF ToldBy, Works, TapsTyped
  <2> QED
    BY <1>1, <1>2, <1>4, <1>6, <2>1, FinishFrames, TapStepKeeps DEF Over
<1>7. CASE /\ taps' \in {taps, [taps EXCEPT ![Tap(p)] = "none"]}
           /\ Goto(p, "rollback") /\ tapLock' = tapLock
  <2>1. Framed(p) /\ TapsTyped' /\ (TaskTyped(p) /\ Held(p))' /\ tapPc'[p] = "rollback"
    BY <1>2, <1>4, <1>7, MoveFrames DEF Fits, HasLocks, Locked, Cloning, Removing, Pulling
  <2>2. ToldBy(p)
    <3>1. Tap(p)' = Tap(p)
      BY <1>2 DEF Tap, Asked
    <3> QED
      BY <1>1, <1>2, <1>7, <2>1, <3>1 DEF ToldBy, Works, TapsTyped
  <2> QED
    BY <1>5, <2>1, <2>2, TapStepKeeps
<1> QED
  BY <1>6, <1>7 DEF EndClone

LEMMA RollbackKeeps == ASSUME TapsInv, NEW p \in TapProcs, RollbackClone(p) PROVE TapsInv'
<1>1. TapsTyped /\ TaskTyped(p) /\ Held(p)
  BY DEF TapsInv
<1>2. /\ tapPc[p] = "rollback" /\ task[p].op = "tap" /\ Finish(p, "failed")
      /\ sources' = sources /\ task' = task /\ tapAt' = tapAt /\ tapLeft \subseteq tapLeft'
  BY <1>1 DEF RollbackClone, TaskTyped, Cloning
<1>3. tapLock[Tap(p)] = p
  BY <1>1, <1>2, AtAsked DEF Held, HasLocks, Locked, Cloning
<1>4. \/ taps' = [taps EXCEPT ![Tap(p)] = "none"]
      \/ taps' = taps /\ Tap(p) \in tapLeft'
  BY DEF RollbackClone
<1>5. /\ taps' \in [TapNames -> {"none", "part", "whole", "other"}]
      /\ \A t \in TapNames : taps'[t] = taps[t] \/ tapLock[t] = p
  BY <1>1, <1>3, <1>4 DEF TapsTyped
<1>6. ToldBy(p)
  BY <1>1, <1>4 DEF ToldBy, Works, TapsTyped
<1> QED
  BY <1>2, <1>5, <1>6, FinishFrames, TapStepKeeps DEF Over

LEMMA CheckKeeps == ASSUME TapsInv, NEW p \in TapProcs, CheckDependents(p) PROVE TapsInv'
<1>1. TapsTyped /\ TaskTyped(p)
  BY DEF TapsInv
<1>2. /\ tapPc[p] = "look" /\ task[p].op = "untap"
      /\ taps' = taps /\ sources' = sources /\ task' = task /\ tapAt' = tapAt /\ tapLeft' = tapLeft
  BY DEF CheckDependents
<1>3. ToldBy(p)
  BY <1>2 DEF ToldBy, Works
<1>4. CASE Finish(p, "failed")
  BY <1>1, <1>2, <1>3, <1>4, FinishFrames, TapStepKeeps DEF TapsTyped, Over
<1>5. CASE /\ Goto(p, "untap") /\ tapLock' = tapLock
           /\ task[p].force \/ sources \cap AskedSet(p) = {}
  <2>1. /\ Framed(p) /\ TapsTyped' /\ (TaskTyped(p) /\ Held(p))' /\ tapPc'[p] = "untap"
        /\ AskedSet(p)' = AskedSet(p)
    BY <1>1, <1>2, <1>5, MoveFrames
       DEF TapsTyped, Fits, HasLocks, Locked, Cloning, Removing, Pulling
  <2>2. tapAt[p] = 1
    BY <1>1, <1>2 DEF TaskTyped
  <2>3. Behind(p)'
    BY <1>2, <1>5, <2>1, <2>2 DEF Behind, DoneUpTo
  <2> QED
    BY <1>3, <2>1, <2>3, TapStepKeeps
<1> QED
  BY <1>4, <1>5 DEF CheckDependents

LEMMA BeginRemoveKeeps == ASSUME TapsInv, NEW p \in TapProcs, BeginRemove(p) PROVE TapsInv'
<1>1. TapsTyped /\ TaskTyped(p) /\ Held(p) /\ Behind(p)
  BY DEF TapsInv
<1>2. /\ tapPc[p] = "untap" /\ task[p].op = "untap"
      /\ sources' = sources /\ task' = task /\ tapAt' = tapAt /\ tapLeft' = tapLeft
  BY <1>1 DEF BeginRemove, TaskTyped, Removing
<1>3. tapLock[Tap(p)] = p
  BY <1>1, <1>2, AtAsked DEF Held, HasLocks, Locked, Removing
<1>4. CASE taps' = taps /\ Finish(p, "failed")
  <2>1. ToldBy(p)
    BY <1>2, <1>4 DEF ToldBy, Works
  <2> QED
    BY <1>1, <1>2, <1>4, <2>1, FinishFrames, TapStepKeeps DEF TapsTyped, Over
<1>5. CASE /\ TapThere(Tap(p)) /\ taps' = [taps EXCEPT ![Tap(p)] = "part"]
           /\ Goto(p, "removing") /\ tapLock' = tapLock
  <2>1. /\ taps' \in [TapNames -> {"none", "part", "whole", "other"}]
        /\ \A t \in TapNames : taps'[t] = taps[t] \/ tapLock[t] = p
        /\ \A t \in TapNames : t # Tap(p) => taps'[t] = taps[t]
    BY <1>1, <1>3, <1>5 DEF TapsTyped
  <2>2. /\ Framed(p) /\ TapsTyped' /\ (TaskTyped(p) /\ Held(p))' /\ tapPc'[p] = "removing"
        /\ AskedSet(p)' = AskedSet(p) /\ Asked(p)' = Asked(p)
    BY <1>2, <1>5, <2>1, MoveFrames DEF Fits, HasLocks, Locked, Cloning, Removing, Pulling
  <2>3. Behind(p)'
    <3>1. ASSUME NEW i \in 1 .. (tapAt[p] - 1) PROVE taps'[Asked(p)[i]] = "none"
      <4>1. taps[Asked(p)[i]] = "none"
        BY <1>1, <1>2 DEF Behind, DoneUpTo, Removing
      <4>2. Asked(p)[i] # Tap(p)
        BY <1>5, <4>1 DEF TapThere
      <4>3. i \in 1 .. Len(task[p].names)
        BY <1>1, <1>2 DEF TaskTyped, TapsTyped
      <4>4. Asked(p)[i] \in TapNames
        BY <1>1, <1>2, <4>3, AtAsked DEF TaskTyped, Over
      <4> QED
        BY <2>1, <4>1, <4>2, <4>4
    <3>2. DoneUpTo(p)' = tapAt[p] - 1
      BY <1>2, <2>2 DEF DoneUpTo
    <3>3. task[p].force \/ sources \cap AskedSet(p) = {}
      BY <1>1, <1>2 DEF Behind, Removing
    <3> QED
      BY <1>2, <2>2, <3>1, <3>2, <3>3 DEF Behind
  <2>4. ToldBy(p)
    <3>1. Tap(p)' = Tap(p)
      BY <1>2 DEF Tap, Asked
    <3> QED
      BY <1>2, <1>3, <1>5, <2>1, <2>2, <3>1 DEF ToldBy, Works
  <2> QED
    BY <2>2, <2>3, <2>4, TapStepKeeps
<1> QED
  BY <1>4, <1>5 DEF BeginRemove

LEMMA EndRemoveKeeps == ASSUME TapsInv, NEW p \in TapProcs, EndRemove(p) PROVE TapsInv'
<1>1. TapsTyped /\ TaskTyped(p) /\ Held(p) /\ Behind(p)
  BY DEF TapsInv
<1>2. /\ tapPc[p] = "removing" /\ task[p].op = "untap"
      /\ sources' = sources /\ task' = task /\ tapAt' = tapAt /\ tapLeft \subseteq tapLeft'
  BY <1>1 DEF EndRemove, TaskTyped, Removing
<1>3. tapLock[Tap(p)] = p /\ Tap(p) \in TapNames
  BY <1>1, <1>2, AtAsked DEF Held, HasLocks, Locked, Removing, TaskTyped, Over
<1>4. CASE taps' = taps /\ Finish(p, "failed") /\ Tap(p) \in tapLeft'
  <2>1. ToldBy(p)
    BY <1>2, <1>4 DEF ToldBy, Works
  <2> QED
    BY <1>1, <1>2, <1>4, <2>1, FinishFrames, TapStepKeeps DEF TapsTyped, Over
<1>5. CASE taps' = [taps EXCEPT ![Tap(p)] = "none"] /\ Goto(p, "parent") /\ tapLock' = tapLock
  <2>1. /\ taps' \in [TapNames -> {"none", "part", "whole", "other"}]
        /\ \A t \in TapNames : taps'[t] = taps[t] \/ tapLock[t] = p
        /\ \A t \in TapNames : taps[t] = "none" => taps'[t] = "none"
        /\ taps'[Tap(p)] = "none"
    BY <1>1, <1>3, <1>5 DEF TapsTyped
  <2>2. /\ Framed(p) /\ TapsTyped' /\ (TaskTyped(p) /\ Held(p))' /\ tapPc'[p] = "parent"
        /\ AskedSet(p)' = AskedSet(p) /\ Asked(p)' = Asked(p)
    BY <1>2, <1>5, <2>1, MoveFrames DEF Fits, HasLocks, Locked, Cloning, Removing, Pulling
  <2>3. Behind(p)'
    <3>1. ASSUME NEW i \in 1 .. tapAt[p] PROVE taps'[Asked(p)[i]] = "none"
      <4>1. CASE i = tapAt[p]
        BY <2>1, <4>1 DEF Tap
      <4>2. CASE i # tapAt[p]
        <5>1. i \in 1 .. (tapAt[p] - 1) /\ i \in 1 .. Len(task[p].names)
          BY <1>1, <1>2, <4>2 DEF TaskTyped, TapsTyped
        <5>2. taps[Asked(p)[i]] = "none"
          BY <1>1, <1>2, <5>1 DEF Behind, DoneUpTo, Removing
        <5>3. Asked(p)[i] \in TapNames
          BY <1>1, <1>2, <5>1, AtAsked DEF TaskTyped, Over
        <5> QED
          BY <2>1, <5>2, <5>3
      <4> QED
        BY <4>1, <4>2
    <3>2. DoneUpTo(p)' = tapAt[p]
      BY <1>2, <2>2 DEF DoneUpTo
    <3>3. task[p].force \/ sources \cap AskedSet(p) = {}
      BY <1>1, <1>2 DEF Behind, Removing
    <3> QED
      BY <1>2, <2>2, <3>1, <3>2, <3>3 DEF Behind
  <2>4. ToldBy(p)
    BY <1>1, <1>5 DEF ToldBy, Works, TapsTyped
  <2> QED
    BY <2>2, <2>3, <2>4, TapStepKeeps
<1> QED
  BY <1>4, <1>5 DEF EndRemove

LEMMA ParentKeeps ==
    ASSUME TapsInv, NEW p \in TapProcs, LookAtParent(p) \/ RemoveParent(p) PROVE TapsInv'
<1>1. TapsTyped /\ TaskTyped(p) /\ Held(p) /\ Behind(p)
  BY DEF TapsInv
<1>2. /\ tapPc[p] \in {"parent", "rmdir"} /\ task[p].op = "untap" /\ taps' = taps
      /\ sources' = sources /\ task' = task /\ tapAt' = tapAt /\ tapLeft' = tapLeft
  BY <1>1 DEF LookAtParent, RemoveParent, TaskTyped, Removing
<1>3. ToldBy(p)
  BY <1>2 DEF ToldBy, Works
<1>4. CASE Finish(p, "failed")
  BY <1>1, <1>2, <1>3, <1>4, FinishFrames, TapStepKeeps DEF TapsTyped, Over
<1>5. ASSUME NEW b \in {"rmdir", "next"}, Goto(p, b), tapLock' = tapLock PROVE TapsInv'
  <2>1. /\ Framed(p) /\ TapsTyped' /\ (TaskTyped(p) /\ Held(p))' /\ tapPc'[p] = b
        /\ AskedSet(p)' = AskedSet(p) /\ Asked(p)' = Asked(p)
    <3>1. b \in (Locked \ {"look"}) \cup Pulling \cup {"next"} /\ Fits(task[p].op, b) /\ HasLocks(p)
      BY <1>2 DEF Fits, HasLocks, Locked, Cloning, Removing, Pulling
    <3> QED
      BY <1>1, <1>2, <1>5, <3>1, MoveFrames DEF TapsTyped
  <2>2. DoneUpTo(p)' = DoneUpTo(p)
    BY <1>2, <2>1 DEF DoneUpTo
  <2>3. Behind(p)'
    BY <1>1, <1>2, <2>1, <2>2 DEF Behind, Removing
  <2> QED
    BY <1>3, <2>1, <2>3, TapStepKeeps
<1> QED
  BY <1>4, <1>5 DEF LookAtParent, RemoveParent

LEMMA NextTapKeeps == ASSUME TapsInv, NEW p \in TapProcs, NextTap(p) PROVE TapsInv'
<1>1. TapsTyped /\ TaskTyped(p) /\ Held(p) /\ Behind(p)
  BY DEF TapsInv
<1>2. /\ tapPc[p] = "next" /\ task[p].op \in {"untap", "update"} /\ taps' = taps
      /\ sources' = sources /\ task' = task /\ tapLeft' = tapLeft
  BY <1>1 DEF NextTap, TaskTyped
<1>3. ToldBy(p)
  BY <1>2 DEF ToldBy, Works
<1>4. CASE Finish(p, "ok") /\ tapAt' = tapAt
  BY <1>1, <1>2, <1>3, <1>4, FinishFrames, TapStepKeeps DEF TapsTyped, Over
<1>5. CASE /\ tapAt[p] < Len(task[p].names) /\ tapAt' = [tapAt EXCEPT ![p] = @ + 1]
           /\ Goto(p, IF task[p].op = "update" THEN "pull" ELSE "untap")
           /\ tapLock' = tapLock
  <2>1. /\ tapPc'[p] = (IF task[p].op = "update" THEN "pull" ELSE "untap")
        /\ tapAt'[p] = tapAt[p] + 1 /\ tapAt[p] \in Nat
    BY <1>1, <1>5 DEF TapsTyped, Goto
  <2>2. Framed(p) /\ TapsTyped'
    BY <1>1, <1>2, <1>5 DEF Framed, TapsTyped, Goto, Locked, Removing, Pulling
  <2>3. AskedSet(p)' = AskedSet(p) /\ Asked(p)' = Asked(p)
    BY <1>2 DEF AskedSet, Asked
  <2>4. CASE task[p].op = "update"
    <3>1. TaskTyped(p)'
      BY <1>1, <1>2, <2>1, <2>4 DEF TaskTyped, Cloning, Removing, Pulling
    <3>2. Held(p)' /\ Behind(p)'
      BY <1>2, <2>1, <2>4 DEF Held, HasLocks, Behind, Locked, Cloning, Removing
    <3> QED
      BY <1>3, <2>2, <3>1, <3>2, TapStepKeeps
  <2>5. CASE task[p].op = "untap"
    <3>1. AskedSet(p) \subseteq TapNames /\ Len(task[p].names) \in Nat
      BY <1>1, <1>2, <2>5 DEF TaskTyped, Over
    <3>2. TaskTyped(p)'
      BY <1>1, <1>2, <1>5, <2>1, <2>3, <2>5, <3>1 DEF TaskTyped, Cloning, Removing, Pulling
    <3>3. Held(p)'
      BY <1>1, <1>2, <1>5, <2>3, <2>5 DEF Held, HasLocks
    <3>4. DoneUpTo(p)' = DoneUpTo(p)
      BY <1>2, <2>1, <2>5 DEF DoneUpTo
    <3>5. Behind(p)'
      BY <1>1, <1>2, <2>3, <2>5, <3>4 DEF Behind
    <3> QED
      BY <1>3, <2>2, <3>2, <3>3, <3>5, TapStepKeeps
  <2> QED
    BY <1>2, <2>4, <2>5
<1> QED
  BY <1>4, <1>5 DEF NextTap

LEMMA PullKeeps ==
    ASSUME TapsInv, NEW p \in TapProcs, BeginPull(p) \/ EndPull(p) PROVE TapsInv'
<1>1. TapsTyped /\ TaskTyped(p)
  BY DEF TapsInv
<1>2. /\ tapPc[p] \in Pulling /\ task[p].op = "update" /\ taps' = taps /\ tapLock' = tapLock
      /\ sources' = sources /\ task' = task /\ tapAt' = tapAt /\ tapLeft' = tapLeft
  BY <1>1 DEF BeginPull, EndPull, TaskTyped, Pulling
<1>3. PICK b \in {"pulling", "next"} : Goto(p, b)
  BY DEF BeginPull, EndPull
<1>4. b \in (Locked \ {"look"}) \cup Pulling \cup {"next"} /\ Fits(task[p].op, b)
  BY <1>2 DEF Fits, Locked, Cloning, Removing, Pulling
<1>5. Framed(p) /\ TapsTyped' /\ (TaskTyped(p) /\ Held(p))'
  BY <1>1, <1>2, <1>3, <1>4, MoveFrames DEF TapsTyped
<1>6. Behind(p)' /\ ToldBy(p)
  BY <1>2 DEF Behind, ToldBy, Works, Pulling
<1> QED
  BY <1>5, <1>6, TapStepKeeps

LEMMA KillKeeps == ASSUME TapsInv, NEW p \in TapProcs, KillTask(p) PROVE TapsInv'
<1>1. TapsTyped /\ TaskTyped(p)
  BY DEF TapsInv
<1>2. /\ Finish(p, "killed") /\ taps' = taps
      /\ sources' = sources /\ task' = task /\ tapAt' = tapAt
      /\ tapLeft' = tapLeft \cup {t \in AskedSet(p) : taps[t] = "part"}
  BY DEF KillTask
<1>3. ToldBy(p)
  <2> SUFFICES ASSUME NEW t \in TapNames, taps[t] = "part", Works(p, t) PROVE t \in tapLeft'
    BY <1>2 DEF ToldBy
  <2>1. task[p].op # "update"
    BY <1>1 DEF Works, TaskTyped, Cloning, Removing
  <2> QED
    BY <1>2, <2>1, AtAsked DEF Works
<1> QED
  BY <1>1, <1>2, <1>3, FinishFrames, TapStepKeeps DEF TapsTyped, Over

LEMMA TapsStepsKeep == TapsInv /\ [TapsNext]_tapVars => TapsInv'
<1> SUFFICES ASSUME TapsInv, [TapsNext]_tapVars PROVE TapsInv'
  OBVIOUS
<1>1. CASE UNCHANGED tapVars
  <2>1. \A p \in TapProcs : Asked(p)' = Asked(p) /\ AskedSet(p)' = AskedSet(p) /\ Tap(p)' = Tap(p)
    BY <1>1 DEF tapVars, Asked, AskedSet, Tap
  <2>2. TapsTyped' /\ Told'
    BY <1>1, <2>1 DEF tapVars, TapsInv, TapsTyped, Told
  <2>3. ASSUME NEW p \in TapProcs PROVE (TaskTyped(p) /\ Held(p) /\ Behind(p))'
    <3>1. TaskTyped(p) /\ Held(p) /\ Behind(p)
      BY DEF TapsInv
    <3>2. TaskTyped(p)'
      BY <1>1, <2>1, <3>1 DEF tapVars, TaskTyped
    <3>3. Held(p)'
      BY <1>1, <2>1, <3>1 DEF tapVars, Held, HasLocks
    <3>4. Behind(p)'
      BY <1>1, <2>1, <3>1 DEF tapVars, Behind, DoneUpTo
    <3> QED
      BY <3>2, <3>3, <3>4
  <2> QED
    BY <2>2, <2>3 DEF TapsInv
<1>2. ASSUME NEW p \in TapProcs, TapStep(p) \/ KillTask(p) PROVE TapsInv'
  BY <1>2, StartKeeps, ListKeeps, LockKeeps, PrepareKeeps, BeginCloneKeeps, EndCloneKeeps,
     RollbackKeeps, CheckKeeps, BeginRemoveKeeps, EndRemoveKeeps, ParentKeeps, NextTapKeeps,
     PullKeeps, KillKeeps DEF TapStep
<1> QED
  BY <1>1, <1>2 DEF TapsNext

-----------------------------------------------------------------------------
\* Every tap directory, lock and command is where the code can have it.
THEOREM TapsSafe == TapsSpec => []TapsInv
  BY TapsInitInv, TapsStepsKeep, PTL DEF TapsSpec

\* A partial tap is being worked on under its lock, or somebody was told of it.
THEOREM NoSilentPart == TapsSpec => []PartialTold
<1>1. TapsInv => PartialTold
  BY TapsAssumption DEF TapsInv, Told, PartialTold, Nobody
<1> QED
  BY <1>1, TapsSafe, PTL

\* A step moves one process, and three of the steps end a command with success.
LEMMA OneMoves ==
    ASSUME NEW q \in TapProcs, TapStep(q) \/ KillTask(q)
    PROVE  \E b : tapPc' = [tapPc EXCEPT ![q] = b]
<1>1. CASE ListTaps(q)
  BY <1>1, Zenon DEF ListTaps, Goto
<1>2. CASE \/ StartTask(q) \/ LockTaps(q) \/ PrepareParent(q) \/ BeginClone(q) \/ EndClone(q)
           \/ RollbackClone(q) \/ CheckDependents(q)
  BY <1>2 DEF StartTask, LockTaps, PrepareParent, BeginClone, EndClone, RollbackClone,
              CheckDependents, Goto, Finish
<1>3. CASE \/ BeginRemove(q) \/ EndRemove(q) \/ LookAtParent(q) \/ RemoveParent(q) \/ NextTap(q)
           \/ BeginPull(q) \/ EndPull(q) \/ KillTask(q)
  BY <1>3 DEF BeginRemove, EndRemove, LookAtParent, RemoveParent, NextTap, BeginPull, EndPull,
              KillTask, Goto, Finish
<1> QED
  BY <1>1, <1>2, <1>3 DEF TapStep

LEMMA WhoSucceeds ==
    ASSUME TapsTyped, NEW p \in TapProcs, TapStep(p) \/ KillTask(p), tapPc'[p] = "ok"
    PROVE  \/ EndClone(p) /\ taps' = [taps EXCEPT ![Tap(p)] = "whole"]
           \/ NextTap(p) /\ tapAt[p] >= Len(task[p].names)
           \/ ListTaps(p)
<1> DEFINE To(b) == tapPc' = [tapPc EXCEPT ![p] = b]
<1>1. ASSUME NEW b, To(b) PROVE b = "ok"
  BY <1>1 DEF TapsTyped
<1>2. CASE EndClone(p)
  BY <1>1, <1>2 DEF EndClone, Finish, Goto
<1>3. CASE NextTap(p)
  <2>1. ~(tapAt[p] < Len(task[p].names))
    BY <1>1, <1>3 DEF NextTap, Goto
  <2> QED
    BY <1>3, <2>1 DEF NextTap, TapsTyped
<1>4. CASE \/ StartTask(p) \/ LockTaps(p) \/ PrepareParent(p) \/ BeginClone(p)
           \/ RollbackClone(p) \/ CheckDependents(p)
  BY <1>1, <1>4 DEF StartTask, LockTaps, PrepareParent, BeginClone, RollbackClone,
                    CheckDependents, Goto, Finish
<1>5. CASE \/ BeginRemove(p) \/ EndRemove(p) \/ LookAtParent(p) \/ RemoveParent(p)
           \/ BeginPull(p) \/ EndPull(p) \/ KillTask(p)
  BY <1>1, <1>5 DEF BeginRemove, EndRemove, LookAtParent, RemoveParent, BeginPull, EndPull,
                    KillTask, Goto, Finish
<1> QED
  BY <1>2, <1>3, <1>4, <1>5 DEF TapStep

\* A tap or untap that succeeds has made or removed every tap it was asked for,
\* and no unforced untap has taken a tap that an installed formula came from.
THEOREM SuccessDone == TapsSpec => SuccessIsDone
<1>1. ASSUME TapsInv, [TapsNext]_tapVars, NEW p \in TapProcs PROVE DoesAsAsked(p)
  <2> SUFFICES ASSUME tapPc[p] # "ok", tapPc'[p] = "ok", NEW t \in AskedSet(p)
               PROVE  /\ task[p].op = "tap" => taps'[t] = "whole"
                      /\ task[p].op = "untap" => taps'[t] = "none"
                                                 /\ (task[p].force \/ t \notin sources)
    BY DEF DoesAsAsked
  <2>1. TapsTyped /\ TaskTyped(p) /\ Behind(p)
    BY <1>1 DEF TapsInv
  <2>2. PICK q \in TapProcs : TapStep(q) \/ KillTask(q)
    BY <1>1 DEF tapVars, TapsNext
  <2>3. q = p
    <3>1. \E b : tapPc' = [tapPc EXCEPT ![q] = b]
      BY <2>2, OneMoves
    <3> QED
      BY <2>1, <3>1 DEF TapsTyped
  <2>4. \/ EndClone(p) /\ taps' = [taps EXCEPT ![Tap(p)] = "whole"]
        \/ NextTap(p) /\ tapAt[p] >= Len(task[p].names)
        \/ ListTaps(p)
    BY <2>1, <2>2, <2>3, WhoSucceeds
  <2>5. CASE EndClone(p) /\ taps' = [taps EXCEPT ![Tap(p)] = "whole"]
    <3>1. task[p].op = "tap" /\ AskedSet(p) \subseteq TapNames
      BY <2>1, <2>5 DEF EndClone, TaskTyped, Cloning, Over
    <3> QED
      BY <1>1, <2>1, <2>5, <3>1, AtAsked DEF TapsTyped
  <2>6. CASE NextTap(p) /\ tapAt[p] >= Len(task[p].names)
    <3>1. taps' = taps /\ tapPc[p] = "next" /\ task[p].op # "tap"
      BY <2>1, <2>6 DEF NextTap, TaskTyped
    <3> SUFFICES ASSUME task[p].op = "untap"
                 PROVE  taps'[t] = "none" /\ (task[p].force \/ t \notin sources)
      BY <3>1
    <3>2. DoneUpTo(p) = Len(task[p].names) /\ DOMAIN Asked(p) = 1 .. Len(task[p].names)
      BY <1>1, <2>1, <2>6, <3>1, AtAsked DEF TaskTyped, TapsTyped, DoneUpTo
    <3> QED
      BY <2>1, <3>1, <3>2 DEF Behind, AskedSet
  <2>7. CASE ListTaps(p)
    BY <2>7 DEF ListTaps
  <2> QED
    BY <2>4, <2>5, <2>6, <2>7
<1>2. TapsInv /\ [TapsNext]_tapVars => [\A p \in TapProcs : DoesAsAsked(p)]_tapVars
  BY <1>1
<1> QED
  BY <1>2, TapsSafe, PTL DEF SuccessIsDone, TapsSpec

\* Both promises of the tap commands: no partial tap that nobody works on or was told
\* of, and no success that did not do all that was asked.
THEOREM TapsKeep == TapsSpec => TapsKept
BY NoSilentPart, SuccessDone, PTL DEF TapsKept

-----------------------------------------------------------------------------
(* Services.  A command is a tree of calls, each of which can fail with or *)
(* without its effect; its ends are the leaves.  The lemmas follow the     *)
(* tree: what every end of a call is (HostFits), and then of a command.        *)

Hosts == [files : SUBSET Files, active : SUBSET Units, enabled : SUBSET Units,
          job : [ServiceNames -> {"none", "agent", "transient"}], faults : Nat]

\* Each manager has files of its own, and only systemd enables units.
HostFits(h) ==
    /\ h \in Hosts
    /\ Linux => h.files \subseteq Units
    /\ ~Linux => h.enabled = {}
ServicesInv == HostFits(Host)

\* What the calls of a command leave alone: on systemd nothing disables a unit, on
\* launchd nothing removes the agent but the end of `run'.
Adds(h, g) == /\ HostFits(g)
              /\ h.files \subseteq g.files /\ h.enabled \subseteq g.enabled
Keeps(h, g) == Adds(h, g) /\ g.enabled = h.enabled

\* What `run' may have changed for good when it failed with this status.
TakenBack(h, g, n, status) ==
    /\ g.job[n] = h.job[n]
    /\ g.files \ {Transient(n)} = h.files \ {Transient(n)}
    /\ Transient(n) \in g.files => Transient(n) \in h.files \/ status = "unwritten"
Unsuccessful == {"failed", "unwritten"}

LEMMA FilesOf ==
    ASSUME NEW n \in ServiceNames
    PROVE  /\ Unit(n) \in Units /\ Units \subseteq Files
           /\ Agent(n) \in Files /\ Transient(n) \in Files
           /\ Agent(n) \notin Units /\ Transient(n) \notin Units /\ Agent(n) # Transient(n)
           /\ Agent(n)[1] = "agent" /\ Transient(n)[1] = "transient"
           /\ Agent(n)[2] = n /\ Transient(n)[2] = n /\ Unit(n)[2] = n
BY DEF Unit, Units, Files, Agent, Transient

LEMMA UnitsOf ==
    ASSUME NEW n \in ServiceNames
    PROVE  <<"service", n>> \in Units /\ <<"timer", n>> \in Units
BY DEF Units

LEMMA FailingEnds ==
    ASSUME NEW h, NEW S, NEW e \in Failing(h, S)
    PROVE  \E g \in S : e = EndAt(Faulty(g), "failed")
BY DEF Failing

LEMMA FaultyFits ==
    ASSUME NEW h, HostFits(h)
    PROVE  /\ HostFits(Faulty(h)) /\ Keeps(h, Faulty(h))
           /\ Faulty(h).files = h.files /\ Faulty(h).job = h.job /\ Faulty(h).active = h.active
BY DEF HostFits, Faulty, Hosts, Keeps, Adds

LEMMA CallEnds ==
    ASSUME NEW can, NEW h, NEW g, NEW e \in Call(can, h, g)
    PROVE  \/ e.host = g /\ e.status = "ok"
           \/ e.status = "failed" /\ e.host \in {h, Faulty(g), Faulty(h)}
BY FailingEnds DEF Call, EndAt

LEMMA WriteEnds ==
    ASSUME NEW h, NEW f, NEW e \in Write(h, f)
    PROVE  LET g == [h EXCEPT !.files = @ \cup {f}]
           IN  \/ e.host = g /\ e.status = "ok"
               \/ e.host \in {Faulty(h), Faulty(g)} /\ e.status = "unwritten"
<1> DEFINE g == [h EXCEPT !.files = @ \cup {f}]
<1>1. e = EndAt(g, "ok") \/ \E x \in Failing(h, {h, g}) : e = EndAt(x.host, "unwritten")
  BY DEF Write
<1> HIDE DEF g
<1>2. ASSUME NEW x \in Failing(h, {h, g}) PROVE x.host \in {Faulty(h), Faulty(g)}
  <2>1. \E k \in {h, g} : x = EndAt(Faulty(k), "failed")
    BY FailingEnds
  <2> QED
    BY <2>1 DEF EndAt
<1>3. \/ e.host = g /\ e.status = "ok"
      \/ e.host \in {Faulty(h), Faulty(g)} /\ e.status = "unwritten"
  BY <1>1, <1>2 DEF EndAt
<1> QED
  BY <1>3 DEF g

LEMMA EraseEnds ==
    ASSUME NEW h, NEW f, NEW e \in Erase(h, f)
    PROVE  \/ e.host = [h EXCEPT !.files = @ \ {f}] /\ e.status = "ok"
           \/ e.host = Faulty(h) /\ e.status = "failed"
<1> DEFINE g == [h EXCEPT !.files = @ \ {f}]
<1>1. e = EndAt(g, "ok") \/ e \in Failing(h, {h})
  BY DEF Erase
<1>2. e \in Failing(h, {h}) => e = EndAt(Faulty(h), "failed")
  BY FailingEnds
<1> HIDE DEF g
<1>3. (e.host = g /\ e.status = "ok") \/ (e.host = Faulty(h) /\ e.status = "failed")
  BY <1>1, <1>2 DEF EndAt
<1> QED
  BY <1>3 DEF g

\* The ends of the calls of systemd.
LEMMA SystemdCalls ==
    ASSUME NEW h, HostFits(h), Linux, NEW n \in ServiceNames
    PROVE  /\ \A e \in WriteUnits(h, n) : Keeps(h, e.host)
           /\ \A e \in Reload(h) : Keeps(h, e.host)
           /\ \A e \in Enable(h, n) : Adds(h, e.host)
           /\ \A e \in StartUnit(h, n) : Keeps(h, e.host)
           /\ \A e \in StopUnit(h, n) : Keeps(h, e.host)
<1>1. \A g : HostFits(g) => HostFits(Faulty(g)) /\ Keeps(g, Faulty(g))
  BY FaultyFits
<1>2. \A e \in WriteUnits(h, n) : Keeps(h, e.host)
  <2>1. ASSUME NEW g, HostFits(g), NEW f \in Units, NEW e \in Write(g, f) PROVE Keeps(g, e.host)
    <3> DEFINE k == [g EXCEPT !.files = @ \cup {f}]
    <3>1. Keeps(g, k)
      <4>1. f \in Files /\ g \in Hosts
        BY <2>1 DEF Units, Files, HostFits
      <4>2. g.files \cup {f} \in SUBSET Files
        BY <4>1 DEF Hosts
      <4>3. k.files = g.files \cup {f} /\ k.enabled = g.enabled /\ k \in Hosts
        BY <4>1, <4>2 DEF Hosts
      <4> QED
        BY <2>1, <4>3 DEF HostFits, Keeps, Adds
    <3>2. e.host \in {k, Faulty(g), Faulty(k)}
      BY WriteEnds
    <3> HIDE DEF k
    <3>3. Keeps(g, Faulty(g)) /\ Keeps(k, Faulty(k))
      BY <1>1, <2>1, <3>1 DEF Keeps, Adds
    <3> QED
      BY <3>1, <3>2, <3>3 DEF Keeps, Adds
  <2> DEFINE W == Write(h, <<"service", n>>)
             Timer(g) == IF n \in timed THEN Write(g, <<"timer", n>>) ELSE {EndAt(g, "ok")}
  <2>2. ASSUME NEW e \in WriteUnits(h, n) PROVE e \in W \/ \E d \in W : e \in Timer(d.host)
    BY <2>2 DEF WriteUnits, After
  <2>3. \A d \in W : Keeps(h, d.host)
    BY <2>1, UnitsOf
  <2>4. ASSUME NEW g, HostFits(g), NEW e \in Timer(g) PROVE Keeps(g, e.host)
    <3>1. CASE n \in timed
      BY <2>1, <2>4, <3>1, UnitsOf
    <3>2. CASE n \notin timed
      <4>1. e.host = g
        BY <2>4, <3>2 DEF EndAt
      <4> QED
        BY <2>4, <4>1 DEF Keeps, Adds
    <3> QED
      BY <3>1, <3>2
  <2> HIDE DEF W, Timer
  <2> QED
    BY <2>2, <2>3, <2>4 DEF Keeps, Adds
<1>3. ASSUME NEW can, NEW g, Adds(h, g), NEW e \in Call(can, h, g)
      PROVE  Adds(h, e.host) /\ (Keeps(h, g) => Keeps(h, e.host))
  <2>1. Keeps(h, h) /\ Keeps(h, Faulty(h)) /\ Keeps(g, Faulty(g))
    BY <1>1, <1>3 DEF Keeps, Adds
  <2> QED
    BY <1>3, <2>1, CallEnds DEF Keeps, Adds
<1>4. Keeps(h, h)
  BY DEF Keeps, Adds
<1>5. Adds(h, [h EXCEPT !.enabled = @ \cup {Unit(n)}])
  BY FilesOf DEF HostFits, Hosts, Adds
<1>6. Keeps(h, [h EXCEPT !.active = @ \cup {Unit(n)}])
  BY FilesOf DEF HostFits, Hosts, Adds, Keeps
<1>7. Keeps(h, [h EXCEPT !.active = @ \ {Unit(n)}])
  BY FilesOf DEF HostFits, Hosts, Adds, Keeps
<1>8. /\ \A e \in Reload(h) : Keeps(h, e.host)
      /\ \A e \in StartUnit(h, n) : Keeps(h, e.host)
      /\ \A e \in StopUnit(h, n) : Keeps(h, e.host)
  <2>1. ASSUME NEW can, NEW g, Keeps(h, g), NEW e \in Call(can, h, g) PROVE Keeps(h, e.host)
    BY <1>3, <2>1 DEF Keeps
  <2> QED
    BY <2>1, <1>4, <1>6, <1>7 DEF Reload, StartUnit, StopUnit
<1>9. \A e \in Enable(h, n) : Adds(h, e.host)
  BY <1>3, <1>5 DEF Enable
<1> QED
  BY <1>2, <1>8, <1>9

\* What the commands do on systemd: only start, and a restart of what is enabled,
\* enable anything.
LEMMA SystemdCommands ==
    ASSUME NEW h, HostFits(h), Linux, NEW n \in ServiceNames
    PROVE  /\ \A e \in StartEnds(h, n) \cup RestartEnds(h, n) : Adds(h, e.host)
           /\ \A e \in StopEnds(h, n) \cup RunEnds(h, n) \cup KillEnds(h, n) : Keeps(h, e.host)
           /\ Unit(n) \in h.files \ h.enabled => \A e \in RestartEnds(h, n) : Keeps(h, e.host)
<1>1. Keeps(h, h) /\ Adds(h, h)
  BY DEF Keeps, Adds
<1>2. ASSUME NEW g, NEW k, Adds(h, g), Adds(g, k)
      PROVE  Adds(h, k) /\ (Keeps(h, g) /\ Keeps(g, k) => Keeps(h, k))
  BY <1>2 DEF Keeps, Adds
<1>3. \A g : HostFits(g) =>
        /\ \A e \in WriteUnits(g, n) : Keeps(g, e.host)
        /\ \A e \in Reload(g) : Keeps(g, e.host)
        /\ \A e \in Enable(g, n) : Adds(g, e.host)
        /\ \A e \in StartUnit(g, n) : Keeps(g, e.host)
        /\ \A e \in StopUnit(g, n) : Keeps(g, e.host)
  BY SystemdCalls
<1>4. \A g, k : /\ Adds(g, k) => HostFits(k)
                /\ Keeps(g, k) => Adds(g, k) /\ HostFits(k)
  BY DEF Keeps, Adds
<1>5. ASSUME NEW g, HostFits(g), NEW e \in After(WriteUnits(g, n), Reload)
      PROVE  Keeps(g, e.host)
  <2>1. e \in WriteUnits(g, n) \/ \E d \in WriteUnits(g, n) : e \in Reload(d.host)
    BY <1>5 DEF After
  <2>2. ASSUME NEW d \in WriteUnits(g, n), e \in Reload(d.host) PROVE Keeps(g, e.host)
    <3>1. Keeps(g, d.host) /\ HostFits(d.host)
      BY <1>3, <1>4, <1>5
    <3>2. Keeps(d.host, e.host)
      BY <1>3, <2>2, <3>1
    <3> QED
      BY <3>1, <3>2 DEF Keeps, Adds
  <2> QED
    BY <1>3, <1>5, <2>1, <2>2
<1>6. ASSUME NEW g, HostFits(g), NEW e \in WriteAndEnable(g, n) PROVE Adds(g, e.host)
  <2> DEFINE W == After(WriteUnits(g, n), Reload)
  <2>1. e \in W \/ \E d \in W : e \in Enable(d.host, n)
    BY <1>6 DEF WriteAndEnable, After
  <2> HIDE DEF W
  <2>2. ASSUME NEW d \in W PROVE Keeps(g, d.host) /\ HostFits(d.host)
    BY <1>4, <1>5, <1>6, <2>2 DEF W
  <2>3. ASSUME NEW d \in W, e \in Enable(d.host, n) PROVE Adds(g, e.host)
    <3>1. Adds(d.host, e.host)
      BY <1>3, <2>2, <2>3
    <3> QED
      BY <2>2, <2>3, <3>1 DEF Keeps, Adds
  <2> QED
    BY <1>4, <2>1, <2>2, <2>3
<1>7. ASSUME NEW g, HostFits(g), NEW e \in After(WriteAndEnable(g, n), LAMBDA k : StartUnit(k, n))
      PROVE  Adds(g, e.host)
  <2>1. e \in WriteAndEnable(g, n) \/ \E d \in WriteAndEnable(g, n) : e \in StartUnit(d.host, n)
    BY <1>7 DEF After
  <2>2. ASSUME NEW d \in WriteAndEnable(g, n), e \in StartUnit(d.host, n) PROVE Adds(g, e.host)
    <3>1. Adds(g, d.host) /\ HostFits(d.host)
      BY <1>4, <1>6, <1>7
    <3>2. Adds(d.host, e.host)
      BY <1>3, <1>4, <2>2, <3>1
    <3> QED
      BY <3>1, <3>2 DEF Adds
  <2> QED
    BY <1>6, <1>7, <2>1, <2>2
<1>8. ASSUME NEW g, HostFits(g), NEW e \in StartEnds(g, n) PROVE Adds(g, e.host)
  <2>1. \/ e = EndAt(g, "ok") \/ e \in WriteAndEnable(g, n)
        \/ e \in After(WriteAndEnable(g, n), LAMBDA k : StartUnit(k, n))
    BY <1>8, Linux DEF StartEnds
  <2>2. e = EndAt(g, "ok") => Adds(g, e.host)
    BY <1>8 DEF EndAt, Adds
  <2> QED
    BY <1>6, <1>7, <1>8, <2>1, <2>2
<1>9. ASSUME NEW g, HostFits(g), NEW e \in RunEnds(g, n) PROVE Keeps(g, e.host)
  <2> DEFINE W == After(WriteUnits(g, n), Reload)
  <2>1. e = EndAt(g, "ok") \/ e \in After(W, LAMBDA k : StartUnit(k, n))
    BY <1>9, Linux DEF RunEnds
  <2>2. \A d \in W : Keeps(g, d.host) /\ HostFits(d.host)
    BY <1>4, <1>5, <1>9
  <2> HIDE DEF W
  <2>3. e = EndAt(g, "ok") \/ e \in W \/ \E d \in W : e \in StartUnit(d.host, n)
    BY <2>1 DEF After
  <2>4. ASSUME NEW d \in W, e \in StartUnit(d.host, n) PROVE Keeps(g, e.host)
    <3>1. Keeps(d.host, e.host)
      BY <1>3, <2>2, <2>4
    <3> QED
      BY <2>2, <2>4, <3>1 DEF Keeps, Adds
  <2>5. e = EndAt(g, "ok") => Keeps(g, e.host)
    BY <1>9 DEF EndAt, Keeps, Adds
  <2> QED
    BY <2>2, <2>3, <2>4, <2>5
<1>10. ASSUME NEW e \in StopEnds(h, n) \cup KillEnds(h, n) PROVE Keeps(h, e.host)
  <2>1. e = EndAt(h, "ok") \/ e \in StopUnit(h, n)
    BY <1>10, Linux DEF StopEnds, KillEnds
  <2>2. e = EndAt(h, "ok") => Keeps(h, e.host)
    BY <1>1 DEF EndAt
  <2> QED
    BY <1>3, <2>1, <2>2
<1>11. ASSUME NEW e \in RestartEnds(h, n)
       PROVE  Adds(h, e.host) /\ (Unit(n) \in h.files \ h.enabled => Keeps(h, e.host))
  <2> DEFINE S == StopEnds(h, n)
             transient == Unit(n) \in h.files \ h.enabled
             Again(g) == IF transient THEN RunEnds(g, n)
                         ELSE After(WriteAndEnable(g, n), LAMBDA k : StartUnit(k, n))
  <2>1. e \in S \/ \E d \in S : e \in Again(d.host)
    BY <1>11, Linux DEF RestartEnds, After
  <2>2. \A d \in S : Keeps(h, d.host) /\ HostFits(d.host)
    BY <1>4, <1>10
  <2>3. ASSUME NEW d \in S, e \in Again(d.host)
        PROVE  Adds(d.host, e.host) /\ (transient => Keeps(d.host, e.host))
    <3>1. CASE transient
      BY <1>4, <1>9, <2>2, <2>3, <3>1
    <3>2. CASE ~transient
      BY <1>7, <2>2, <2>3, <3>2
    <3> QED
      BY <3>1, <3>2
  <2> HIDE DEF S, Again, transient
  <2>4. Adds(h, e.host) /\ (transient => Keeps(h, e.host))
    <3>1. CASE e \in S
      BY <1>4, <2>2, <3>1
    <3>2. ASSUME NEW d \in S, e \in Again(d.host)
          PROVE  Adds(h, e.host) /\ (transient => Keeps(h, e.host))
      <4>1. /\ Keeps(h, d.host) /\ Adds(h, d.host) /\ Adds(d.host, e.host)
            /\ transient => Keeps(d.host, e.host)
        BY <1>4, <2>2, <2>3, <3>2
      <4> QED
        BY <4>1, <1>2
    <3> QED
      BY <2>1, <3>1, <3>2
  <2> QED
    BY <2>4 DEF transient
<1> QED
  BY <1>8, <1>9, <1>10, <1>11
-----------------------------------------------------------------------------
\* The calls of launchd: none but Write and Erase changes a file.
Loads(h, g) == HostFits(g) /\ g.files = h.files

\* The ends of Unload and of a failing call are records of a host and a status.
LEMMA EndRecords ==
    /\ \A h, x : EndAt(h, x).host = h /\ EndAt(h, x).status = x
    /\ \A h, S : \A e \in Failing(h, S) : e = EndAt(e.host, e.status)
    /\ \A h, f : \A e \in Unload(h, f) : e = EndAt(e.host, e.status)
    /\ \A h, x, y : [EndAt(h, x) EXCEPT !.status = y] = EndAt(h, y)
<1>1. \A h, x : EndAt(h, x).host = h /\ EndAt(h, x).status = x
  BY DEF EndAt
<1>2. \A h, S : \A e \in Failing(h, S) : e = EndAt(e.host, e.status)
  <2> TAKE h, S
  <2> TAKE e \in Failing(h, S)
  <2>1. PICK g \in S : e = EndAt(Faulty(g), "failed")
    BY FailingEnds
  <2> QED
    BY <2>1, <1>1
<1>3. \A h, f : \A e \in Unload(h, f) : e = EndAt(e.host, e.status)
  <2> TAKE h, f
  <2> TAKE e \in Unload(h, f)
  <2>1. \/ \E x : e = EndAt(h, x)
        \/ \E g : e = EndAt(g, "ok")
        \/ \E S : e \in Failing(h, S)
    BY DEF Unload, Call
  <2> QED
    BY <2>1, <1>1, <1>2
<1>4. \A h, x, y : [EndAt(h, x) EXCEPT !.status = y] = EndAt(h, y)
  BY DEF EndAt
<1> QED
  BY <1>1, <1>2, <1>3, <1>4


LEMMA JobEnds ==
    ASSUME NEW h, HostFits(h), NEW n \in ServiceNames, NEW k \in {"none", "agent", "transient"}
    PROVE  Loads(h, [h EXCEPT !.job[n] = k]) /\ [h EXCEPT !.job[n] = k].job[n] = k
BY DEF HostFits, Hosts, Loads

LEMMA CallLoads ==
    ASSUME NEW h, HostFits(h), NEW can, NEW g, Loads(h, g), NEW e \in Call(can, h, g)
    PROVE  /\ Loads(h, e.host)
           /\ e.status = "ok" => e.host = g
           /\ g = h => e.host.job = h.job
<1>1. \A x : HostFits(x) => Loads(x, Faulty(x)) /\ Faulty(x).job = x.job
  BY FaultyFits DEF Loads
<1>2. Loads(h, h) /\ HostFits(g)
  BY DEF Loads
<1> QED
  BY <1>1, <1>2, CallEnds DEF Loads

LEMMA WorkingCall ==
    ASSUME NEW h, NEW e \in Call(TRUE, h, h)
    PROVE  e.host \in {h, Faulty(h)}
<1>1. e = EndAt(h, "ok") \/ e \in Failing(h, {h, h})
  BY DEF Call
<1>2. e \in Failing(h, {h, h}) => e = EndAt(Faulty(h), "failed")
  BY FailingEnds
<1> QED
  BY <1>1, <1>2, EndRecords

LEMMA LoadEnds ==
    ASSUME NEW h, HostFits(h), NEW n \in ServiceNames, NEW f \in {Agent(n), Transient(n)},
           NEW e \in Load(h, f)
    PROVE  Loads(h, e.host)
<1>1. f[2] = n /\ f[1] \in {"none", "agent", "transient"}
  BY FilesOf
<1> DEFINE g == [h EXCEPT !.job[f[2]] = f[1]]
           can == f \in h.files /\ h.job[f[2]] = "none"
<1>2. e \in Call(can, h, g)
  BY DEF Load
<1>3. Loads(h, g)
  <2> DEFINE k == f[1]
  <2>1. k \in {"none", "agent", "transient"} /\ g = [h EXCEPT !.job[n] = k]
    BY <1>1
  <2> HIDE DEF g, k
  <2> QED
    BY <2>1, JobEnds
<1> HIDE DEF g, can
<1> QED
  BY <1>2, <1>3, CallLoads

LEMMA UnloadEnds ==
    ASSUME NEW h, HostFits(h), NEW n \in ServiceNames, NEW f \in {Agent(n), Transient(n)},
           NEW e \in Unload(h, f)
    PROVE  Loads(h, e.host) /\ (e.status = "ok" => e.host.job[n] = "none")
<1>1. f[2] = n
  BY FilesOf
<1> DEFINE g == [h EXCEPT !.job[n] = "none"]
           can == f \in h.files
<1>2. CASE h.job[n] = "none"
  <2>1. e.host = h
    BY <1>1, <1>2, EndRecords DEF Unload
  <2> QED
    BY <1>2, <2>1 DEF Loads
<1>3. CASE h.job[n] # "none"
  <2>1. e \in Call(can, h, g)
    BY <1>1, <1>3 DEF Unload
  <2>2. Loads(h, g) /\ g.job[n] = "none"
    BY JobEnds
  <2> HIDE DEF g, can
  <2>3. Loads(h, e.host) /\ (e.status = "ok" => e.host = g)
    BY <2>1, <2>2, CallLoads
  <2> QED
    BY <2>2, <2>3
<1> QED
  BY <1>2, <1>3

LEMMA StartLabelEnds ==
    ASSUME NEW h, HostFits(h), NEW n \in ServiceNames, NEW e \in StartLabel(h, n)
    PROVE  Loads(h, e.host) /\ e.host.job = h.job
<1> DEFINE can == h.job[n] # "none"
<1>1. e \in Call(can, h, h)
  BY DEF StartLabel
<1>2. Loads(h, h)
  BY DEF Loads
<1> HIDE DEF can
<1> QED
  BY <1>1, <1>2, CallLoads

LEMMA FileEnds ==
    ASSUME NEW h, HostFits(h), ~Linux, NEW n \in ServiceNames, NEW f \in {Agent(n), Transient(n)},
           NEW e \in Write(h, f) \cup Erase(h, f)
    PROVE  HostFits(e.host) /\ e.host.job = h.job
<1>1. f \in Files
  BY FilesOf
<1>2. /\ HostFits([h EXCEPT !.files = @ \cup {f}]) /\ [h EXCEPT !.files = @ \cup {f}].job = h.job
      /\ HostFits([h EXCEPT !.files = @ \ {f}]) /\ [h EXCEPT !.files = @ \ {f}].job = h.job
  BY <1>1 DEF HostFits, Hosts
<1>3. \/ e.host = [h EXCEPT !.files = @ \cup {f}]
      \/ e.host = [h EXCEPT !.files = @ \ {f}]
      \/ e.host = Faulty(h)
      \/ e.host = Faulty([h EXCEPT !.files = @ \cup {f}])
  BY WriteEnds, EraseEnds
<1> QED
  BY <1>2, <1>3, FaultyFits

\* A rollback that says that it left nothing has unloaded the job and removed its file.
LEMMA RollbackEnds ==
    ASSUME NEW h, HostFits(h), ~Linux, NEW n \in ServiceNames, NEW loaded \in BOOLEAN,
           NEW e \in RollbackTransient(h, n, loaded)
    PROVE  /\ HostFits(e.host) /\ e.status \in {"failed", "leftovers"}
           /\ e.host.files \subseteq h.files
           /\ e.host.files \ {Transient(n)} = h.files \ {Transient(n)}
           /\ e.status = "failed" => e.host.job[n] = "none" /\ Transient(n) \notin e.host.files
<1> DEFINE T == Transient(n)
           probed == IF loaded THEN {EndAt(h, "unload")}
                     ELSE {EndAt(h, IF h.job[n] # "none" THEN "unload" ELSE "gone")}
                          \cup {[x EXCEPT !.status = "unknown"] : x \in Failing(h, {h})}
           Tried(p) == {[x EXCEPT !.status = IF @ = "ok" THEN "gone" ELSE "loaded"] : x \in Unload(p.host, T)}
           unloaded == UNION {IF p.status = "unload" THEN Tried(p) ELSE {p} : p \in probed}
<1>0. PICK u \in unloaded : \E r \in Erase(u.host, T) :
         e = EndAt(r.host, IF u.status = "gone" /\ r.status = "ok" THEN "failed" ELSE "leftovers")
  BY DEF RollbackTransient
<1>1. PICK r \in Erase(u.host, T) :
         e = EndAt(r.host, IF u.status = "gone" /\ r.status = "ok" THEN "failed" ELSE "leftovers")
  BY <1>0
<1>2. PICK p \in probed : u \in (IF p.status = "unload" THEN Tried(p) ELSE {p})
  BY <1>0
<1>3. Loads(h, p.host) /\ (p.status = "gone" => p.host.job[n] = "none")
  <2>1. \/ p = EndAt(h, "unload")
        \/ p = EndAt(h, "gone") /\ h.job[n] = "none"
        \/ \E x \in Failing(h, {h}) : p = [x EXCEPT !.status = "unknown"]
    BY <1>2
  <2>2. ASSUME NEW x \in Failing(h, {h}), p = [x EXCEPT !.status = "unknown"]
        PROVE  p = EndAt(Faulty(h), "unknown")
    <3>1. x = EndAt(Faulty(h), "failed")
      BY FailingEnds
    <3> QED
      BY <2>2, <3>1, EndRecords
  <2>3. Loads(h, h) /\ Loads(h, Faulty(h))
    BY FaultyFits DEF Loads
  <2>4. \/ p \in {EndAt(h, "unload"), EndAt(Faulty(h), "unknown")}
        \/ p = EndAt(h, "gone") /\ h.job[n] = "none"
    BY <2>1, <2>2
  <2> HIDE DEF probed
  <2> QED
    BY <2>3, <2>4, EndRecords
<1>4. Loads(h, u.host) /\ (u.status = "gone" => u.host.job[n] = "none")
  <2>1. CASE p.status # "unload"
    BY <1>2, <1>3, <2>1
  <2>2. CASE p.status = "unload"
    <3>1. PICK x \in Unload(p.host, T) : u = [x EXCEPT !.status = IF @ = "ok" THEN "gone" ELSE "loaded"]
      BY <1>2, <2>2
    <3>2. x = EndAt(x.host, x.status)
      BY EndRecords
    <3>3. u = EndAt(x.host, IF x.status = "ok" THEN "gone" ELSE "loaded")
      <4> DEFINE y == IF x.status = "ok" THEN "gone" ELSE "loaded"
      <4>1. u = [x EXCEPT !.status = y]
        BY <3>1
      <4> HIDE DEF y
      <4>2. u = EndAt(x.host, y)
        BY <3>2, <4>1, EndRecords
      <4> QED
        BY <4>2 DEF y
    <3>4. HostFits(p.host)
      BY <1>3 DEF Loads
    <3>5. Loads(p.host, x.host) /\ (x.status = "ok" => x.host.job[n] = "none")
        BY <3>4, UnloadEnds
    <3>6. Loads(h, x.host)
      BY <1>3, <3>5 DEF Loads
    <3>7. u.host = x.host /\ (u.status = "gone" => x.status = "ok")
      BY <3>3, EndRecords
    <3> QED
      BY <3>5, <3>6, <3>7
  <2> QED
    BY <2>1, <2>2
<1> HIDE DEF unloaded, probed, Tried
<1>5. /\ HostFits(r.host) /\ r.host.job = u.host.job
      /\ \/ r.status = "ok" /\ r.host.files = h.files \ {T}
         \/ r.status = "failed" /\ r.host.files = h.files
  <2>1. HostFits(u.host) /\ u.host.files = h.files
    BY <1>4 DEF Loads
  <2>2. HostFits(r.host) /\ r.host.job = u.host.job
    BY <1>1, <2>1, FileEnds
  <2>3. [u.host EXCEPT !.files = @ \ {T}].files = h.files \ {T} /\ Faulty(u.host).files = h.files
    BY <2>1, FaultyFits DEF HostFits, Hosts
  <2> QED
    BY <1>1, <2>1, <2>2, <2>3, EraseEnds
<1>6. /\ e.host = r.host
      /\ e.status = IF u.status = "gone" /\ r.status = "ok" THEN "failed" ELSE "leftovers"
  BY <1>1, EndRecords
<1> QED
  BY <1>4, <1>5, <1>6

\* `run' on launchd: the transient file is all that it may leave, with its job, and it
\* removes the agent only when everything else went well.
LEMMA RunTransientEnds ==
    ASSUME NEW h, HostFits(h), ~Linux, NEW n \in ServiceNames, h.job[n] = "none",
           NEW e \in RunTransient(h, n)
    PROVE  /\ HostFits(e.host)
           /\ Agent(n) \in e.host.files => Agent(n) \in h.files
           /\ e.status \in Unsuccessful => TakenBack(h, e.host, n, e.status)
<1> DEFINE T == Transient(n)
           Undo(g, l) == RollbackTransient(g, n, l)
           Final(s) == UNION {IF r.status = "ok" THEN {r} ELSE Undo(r.host, TRUE) : r \in Erase(s.host, Agent(n))}
           Third(l) == UNION {IF s.status # "ok" THEN Undo(s.host, TRUE) ELSE Final(s) : s \in StartLabel(l.host, n)}
           Second(w) == UNION {IF l.status # "ok" THEN Undo(l.host, FALSE) ELSE Third(l) : l \in Load(w.host, T)}
<1>1. PICK w \in Write(h, T) : e \in (IF w.status # "ok" THEN {w} ELSE Second(w))
  BY DEF RunTransient
\* So far only the transient file is there in addition, and its job.
<1> DEFINE Ahead(g) == HostFits(g) /\ g.files = h.files \cup {T}
<1>2. CASE w.status # "ok"
  <2> DEFINE g == [h EXCEPT !.files = @ \cup {T}]
  <2>1. e = w /\ w.status = "unwritten" /\ w.host \in {Faulty(h), Faulty(g)} /\ HostFits(w.host)
    BY <1>1, <1>2, WriteEnds, FileEnds
  <2>2. HostFits(g) /\ g.files = h.files \cup {T} /\ g.job = h.job
    BY FilesOf DEF HostFits, Hosts
  <2> HIDE DEF g
  <2>3. w.host.job = h.job /\ w.host.files \in {h.files, h.files \cup {T}}
    BY <2>1, <2>2, FaultyFits
  <2> QED
    BY <2>1, <2>3, FilesOf DEF TakenBack
<1>3. CASE w.status = "ok"
  <2>1. Ahead(w.host)
    <3>1. w.host = [h EXCEPT !.files = @ \cup {T}]
      BY <1>3, WriteEnds
    <3>2. HostFits(w.host)
      BY FileEnds
    <3> QED
      BY <3>1, <3>2 DEF HostFits, Hosts
  <2>2. ASSUME NEW g, Ahead(g), NEW l \in BOOLEAN, NEW x \in Undo(g, l)
        PROVE  /\ HostFits(x.host)
               /\ Agent(n) \in x.host.files => Agent(n) \in h.files
               /\ x.status \in Unsuccessful => TakenBack(h, x.host, n, x.status)
    <3>1. /\ HostFits(x.host) /\ x.host.files \subseteq g.files
          /\ x.host.files \ {T} = g.files \ {T}
          /\ x.status \in {"failed", "leftovers"}
          /\ x.status = "failed" => x.host.job[n] = "none" /\ T \notin x.host.files
      BY <2>2, RollbackEnds
    <3> QED
      BY <2>2, <3>1, FilesOf DEF TakenBack, Unsuccessful
  <2> HIDE DEF Undo
  <2>3. PICK l \in Load(w.host, T) : e \in (IF l.status # "ok" THEN Undo(l.host, FALSE) ELSE Third(l))
    BY <1>1, <1>3
  <2>4. Ahead(l.host)
    <3>1. Loads(w.host, l.host)
      BY <2>1, LoadEnds
    <3> QED
      BY <2>1, <3>1 DEF Loads
  <2>5. CASE l.status # "ok"
    BY <2>2, <2>3, <2>4, <2>5
  <2>6. CASE l.status = "ok"
    <3>1. PICK s \in StartLabel(l.host, n) : e \in (IF s.status # "ok" THEN Undo(s.host, TRUE) ELSE Final(s))
      BY <2>3, <2>6
    <3>2. Ahead(s.host)
      BY <2>4, StartLabelEnds DEF Loads
    <3>3. CASE s.status # "ok"
      BY <2>2, <3>1, <3>2, <3>3
    <3>4. CASE s.status = "ok"
      <4>1. PICK r \in Erase(s.host, Agent(n)) : e \in (IF r.status = "ok" THEN {r} ELSE Undo(r.host, TRUE))
        BY <3>1, <3>4
      <4>2. CASE r.status = "ok"
        <5>1. e = r /\ r.host = [s.host EXCEPT !.files = @ \ {Agent(n)}] /\ HostFits(r.host)
          BY <3>2, <4>1, <4>2, EraseEnds, FileEnds
        <5>2. Agent(n) \notin r.host.files
          BY <3>2, <5>1 DEF HostFits, Hosts
        <5> QED
          BY <4>2, <5>1, <5>2 DEF Unsuccessful
      <4>3. CASE r.status # "ok"
        <5>1. r.host = Faulty(s.host)
          BY <4>3, EraseEnds
        <5>2. Ahead(r.host)
          BY <3>2, <5>1, FaultyFits
        <5> QED
          BY <2>2, <4>1, <4>3, <5>2
      <4> QED
        BY <4>2, <4>3
    <3> QED
      BY <3>3, <3>4
  <2> QED
    BY <2>5, <2>6
<1> QED
  BY <1>2, <1>3
\* What the commands do on launchd.
LEMMA LaunchdCommands ==
    ASSUME NEW h, HostFits(h), ~Linux, NEW n \in ServiceNames
    PROVE  /\ \A e \in StartEnds(h, n) \cup StopEnds(h, n) \cup KillEnds(h, n) : HostFits(e.host)
           /\ \A e \in RunEnds(h, n) :
                 HostFits(e.host) /\ (e.status \in Unsuccessful => TakenBack(h, e.host, n, e.status))
           /\ \A e \in RestartEnds(h, n) :
                 /\ HostFits(e.host)
                 /\ {Agent(n), Transient(n)} \cap h.files # {}
                       => (Agent(n) \in e.host.files <=> Agent(n) \in h.files)
<1> DEFINE A == Agent(n)
           T == Transient(n)
<1>1. ASSUME NEW g, HostFits(g), NEW e \in StartEnds(g, n)
      PROVE  /\ HostFits(e.host)
             /\ A \in g.files => A \in e.host.files
  <2>1. e = EndAt(g, "ok") \/ e \in After(Write(g, A), LAMBDA k : Load(k, A))
    BY <1>1, ~Linux DEF StartEnds
  <2>2. e = EndAt(g, "ok") \/ e \in Write(g, A) \/ \E w \in Write(g, A) : e \in Load(w.host, A)
    BY <2>1 DEF After
  <2>3. ASSUME NEW w \in Write(g, A) PROVE HostFits(w.host) /\ (A \in g.files => A \in w.host.files)
    <3>1. HostFits(w.host)
      BY <1>1, FileEnds
    <3> DEFINE k == [g EXCEPT !.files = @ \cup {A}]
    <3>2. HostFits(k) /\ g.files \subseteq k.files
      BY <1>1, FilesOf DEF HostFits, Hosts
    <3>3. w.host \in {k, Faulty(g), Faulty(k)}
      BY WriteEnds
    <3> HIDE DEF k
    <3>4. Faulty(g).files = g.files /\ Faulty(k).files = k.files
      BY <1>1, <3>2, FaultyFits
    <3> QED
      BY <3>1, <3>2, <3>3, <3>4
  <2>4. ASSUME NEW w \in Write(g, A), e \in Load(w.host, A) PROVE Loads(w.host, e.host)
    BY <2>3, <2>4, LoadEnds
  <2> QED
    <3>1. e = EndAt(g, "ok") => e.host = g
      BY EndRecords
    <3>2. ASSUME NEW w \in Write(g, A), e \in Load(w.host, A)
          PROVE  HostFits(e.host) /\ (A \in g.files => A \in e.host.files)
      BY <2>3, <2>4, <3>2 DEF Loads
    <3> QED
      BY <1>1, <2>2, <2>3, <3>1, <3>2
<1>2. ASSUME NEW e \in StopEnds(h, n) PROVE Loads(h, e.host)
  <2>1. e = EndAt(h, "ok") \/ e \in Unload(h, A) \cup Unload(h, T)
    BY <1>2, ~Linux DEF StopEnds, PlistPath
  <2> QED
    BY <2>1, UnloadEnds, EndRecords DEF Loads
<1>3. ASSUME NEW e \in KillEnds(h, n) PROVE HostFits(e.host)
  <2>1. e = EndAt(h, "ok") \/ e \in Call(TRUE, h, h)
    BY <1>3, ~Linux DEF KillEnds
  <2>2. e \in Call(TRUE, h, h) => e.host \in {h, Faulty(h)}
    BY WorkingCall
  <2>3. e.host \in {h, Faulty(h)}
    BY <2>1, <2>2, EndRecords, Zenon
  <2> QED
    BY <2>3, FaultyFits
<1>4. ASSUME NEW g, HostFits(g), NEW e \in RunEnds(g, n)
      PROVE  /\ HostFits(e.host)
             /\ A \in e.host.files => A \in g.files
             /\ e.status \in Unsuccessful => TakenBack(g, e.host, n, e.status)
  <2>1. \/ e = EndAt(g, "ok")
        \/ g.job[n] = "none" /\ e \in RunTransient(g, n)
    BY <1>4, ~Linux DEF RunEnds, Active
  <2> QED
    BY <1>4, <2>1, EndRecords, RunTransientEnds DEF Unsuccessful
<1>5. ASSUME NEW e \in RestartEnds(h, n)
      PROVE  /\ HostFits(e.host)
             /\ {A, T} \cap h.files # {} => (A \in e.host.files <=> A \in h.files)
  <2> DEFINE S == StopEnds(h, n)
             transient == A \notin h.files /\ T \in h.files
             Again(g) == IF transient THEN RunEnds(g, n) ELSE StartEnds(g, n)
  <2>1. e \in S \/ \E d \in S : e \in Again(d.host)
    BY <1>5, ~Linux DEF RestartEnds, After
  <2>2. \A d \in S : HostFits(d.host) /\ d.host.files = h.files
    BY <1>2 DEF Loads
  <2>3. ASSUME NEW d \in S, e \in Again(d.host)
        PROVE  /\ HostFits(e.host)
               /\ {A, T} \cap h.files # {} => (A \in e.host.files <=> A \in h.files)
    <3>1. CASE transient
      BY <1>4, <2>2, <2>3, <3>1
    <3>2. CASE ~transient
      <4>1. HostFits(e.host) /\ (A \in d.host.files => A \in e.host.files)
        BY <1>1, <2>2, <2>3, <3>2
      <4> QED
        BY <2>2, <3>2, <4>1
    <3> QED
      BY <3>1, <3>2
  <2> QED
    BY <2>1, <2>2, <2>3
<1> QED
  BY <1>1, <1>2, <1>3, <1>4, <1>5 DEF Loads

LEMMA CleanupFits == ASSUME NEW h, HostFits(h), NEW e \in CleanupEnds(h) PROVE HostFits(e.host)
<1> DEFINE Spared(fs) == [h EXCEPT !.files = @ \ fs]
<1>1. \A fs : HostFits(Spared(fs))
  BY DEF HostFits, Hosts
<1>2. \/ e \in Reload(Spared(Unused(h))) \/ e = EndAt(Spared(Unused(h)), "ok")
      \/ e \in Failing(h, {Spared(fs) : fs \in SUBSET Unused(h)})
      \/ \E fs : e = EndAt(Spared(fs), "failed")
  BY DEF CleanupEnds
<1>3. \A g : HostFits(g) => HostFits(Faulty(g))
  BY FaultyFits
<1> HIDE DEF Spared
<1>4. ASSUME NEW g, e \in Reload(g) PROVE e.host \in {g, Faulty(g)}
  BY <1>4, WorkingCall DEF Reload
<1>5. ASSUME e \in Failing(h, {Spared(fs) : fs \in SUBSET Unused(h)})
      PROVE  \E fs : e = EndAt(Faulty(Spared(fs)), "failed")
  BY <1>5, FailingEnds
<1> QED
  BY <1>1, <1>2, <1>3, <1>4, <1>5, EndRecords

-----------------------------------------------------------------------------
\* Every command, by either manager.
LEMMA CommandFits ==
    ASSUME ServicesInv, NEW n \in ServiceNames,
           NEW verb \in {"start", "stop", "restart", "run", "kill"}, NEW e \in Ends(verb, Host, n)
    PROVE  HostFits(e.host)
<1>1. e \in StartEnds(Host, n) \cup StopEnds(Host, n) \cup RestartEnds(Host, n)
            \cup RunEnds(Host, n) \cup KillEnds(Host, n)
  BY DEF Ends
<1>2. \A g : Adds(Host, g) \/ Keeps(Host, g) => HostFits(g)
  BY DEF Adds, Keeps
<1>3. CASE Linux
  BY <1>1, <1>2, <1>3, SystemdCommands DEF ServicesInv
<1>4. CASE ~Linux
  BY <1>1, <1>4, LaunchdCommands DEF ServicesInv
<1> QED
  BY <1>3, <1>4

LEMMA BecomesFits ==
    ASSUME NEW verb, NEW n, NEW e, HostFits(e.host), Becomes(verb, n, e)
    PROVE  ServicesInv'
<1>1. Host' = e.host
  BY DEF Becomes, Host, HostFits, Hosts
<1>2. Linux' <=> Linux
  BY DEF Becomes, Linux
<1> QED
  BY <1>1, <1>2 DEF ServicesInv, HostFits

LEMMA ServicesNextKeeps == ServicesInv /\ [ServicesNext]_serviceVars => ServicesInv'
<1> SUFFICES ASSUME ServicesInv, [ServicesNext]_serviceVars PROVE ServicesInv'
  OBVIOUS
<1> DEFINE Around == /\ UNCHANGED <<platform, files, enabled, svcFaults>>
                     /\ active' \subseteq Units
                     /\ job' \in [ServiceNames -> {"none", "agent", "transient"}]
<1>1. ASSUME Around PROVE ServicesInv'
  BY <1>1 DEF ServicesInv, HostFits, Hosts, Host, Linux
<1>2. /\ active \subseteq Units /\ enabled \subseteq Units
      /\ job \in [ServiceNames -> {"none", "agent", "transient"}]
  BY DEF ServicesInv, HostFits, Hosts, Host
<1>3. ASSUME NEW n \in ServiceNames, NEW verb \in {"start", "stop", "restart", "run", "kill"},
             Command(verb, n)
      PROVE  ServicesInv'
  BY <1>3, CommandFits, BecomesFits DEF Command
<1>4. ASSUME NEW n \in ServiceNames, Comes(n) \/ Goes(n) \/ Reschedules(n)
      PROVE  ServicesInv'
  BY <1>1, <1>2, <1>4 DEF Comes, Goes, Reschedules, Elsewhere
<1>5. ASSUME NEW u \in active, Exits(u) PROVE ServicesInv'
  BY <1>1, <1>2, <1>5 DEF Exits, Elsewhere
<1>6. CASE Cleanup
  BY <1>6, CleanupFits, BecomesFits DEF Cleanup, ServicesInv
<1>7. CASE Login
  BY <1>1, <1>2, <1>7 DEF Login, Elsewhere
<1>8. CASE UNCHANGED serviceVars
  BY <1>1, <1>2, <1>8 DEF serviceVars
<1> QED
  BY <1>3, <1>4, <1>5, <1>6, <1>7, <1>8 DEF ServicesNext

\* Every host that the commands leave is one its manager can have.
THEOREM ServicesTyped == ServicesSpec => []ServicesInv
<1>1. ServicesInit => ServicesInv
  BY ServicesAssumption DEF ServicesInit, ServicesInv, HostFits, Hosts, Host
<1> QED
  BY <1>1, ServicesNextKeeps, PTL DEF ServicesSpec
\* Which step is a command's, by what it reports.
LEMMA ReportedBy ==
    ASSUME [ServicesNext]_serviceVars, done' # done, done'[1] \in {"run", "restart"}
    PROVE  \E n \in ServiceNames : \E e \in Ends(done'[1], Host, n) :
               Becomes(done'[1], n, e) /\ done'[2] = n /\ done'[3] = e.status
<1>1. ~Cleanup
  BY DEF Cleanup, Becomes
<1>2. ~Login /\ (\A n \in ServiceNames : ~(Comes(n) \/ Goes(n) \/ Reschedules(n)))
      /\ \A u \in active : ~Exits(u)
  BY DEF Login, Comes, Goes, Reschedules, Exits, Elsewhere
<1>3. PICK n \in ServiceNames, verb \in {"start", "stop", "restart", "run", "kill"} : Command(verb, n)
  BY <1>1, <1>2 DEF ServicesNext, serviceVars
<1>4. PICK e \in Ends(verb, Host, n) : Becomes(verb, n, e)
  BY <1>3 DEF Command
<1>5. done'[1] = verb /\ done'[2] = n /\ done'[3] = e.status
  BY <1>4 DEF Becomes
<1> QED
  BY <1>4, <1>5

\* A `run' that failed on macOS and reports no leftovers has left none, and a restart
\* keeps a service registered or transient, however many calls fail on the way.
THEOREM ServicesSafe == ServicesSpec => ServicesKept
<1> DEFINE RunClean ==
             done' # done /\ done'[1] = "run" /\ done'[3] \in {"failed", "unwritten"} /\ ~Linux =>
                LET n == done'[2] IN
                /\ job'[n] = job[n]
                /\ files' \ {Transient(n)} = files \ {Transient(n)}
                /\ Transient(n) \in files' => Transient(n) \in files \/ done'[3] = "unwritten"
           Restarted(n) ==
             /\ done' # done /\ done'[1] = "restart" /\ done'[2] = n
             /\ IF Linux THEN Unit(n) \in files ELSE {Agent(n), Transient(n)} \cap files # {}
<1>1. ASSUME ServicesInv, [ServicesNext]_serviceVars PROVE RunClean
  <2> SUFFICES ASSUME done' # done, done'[1] = "run", done'[3] \in Unsuccessful, ~Linux
               PROVE  TakenBack(Host, Host', done'[2], done'[3])
    BY DEF TakenBack, Host, Unsuccessful
  <2>1. PICK n \in ServiceNames : \E e \in Ends("run", Host, n) :
            Becomes("run", n, e) /\ done'[2] = n /\ done'[3] = e.status
    BY <1>1, ReportedBy
  <2>2. PICK e \in RunEnds(Host, n) : Becomes("run", n, e) /\ done'[2] = n /\ done'[3] = e.status
    BY <2>1 DEF Ends
  <2>3. TakenBack(Host, e.host, n, e.status)
    BY <1>1, <2>2, LaunchdCommands DEF ServicesInv
  <2> QED
    BY <2>2, <2>3 DEF TakenBack, Becomes, Host
<1>2. ASSUME ServicesInv, [ServicesNext]_serviceVars, NEW n \in ServiceNames, Restarted(n)
      PROVE  Registered(n)' = Registered(n)
  <2>1. PICK e \in RestartEnds(Host, n) : Becomes("restart", n, e)
    BY <1>2, ReportedBy DEF Ends
  <2>2. Host' = e.host /\ (Linux' <=> Linux) /\ HostFits(Host) /\ ServicesInv'
    <3>1. HostFits(e.host)
      BY <1>2, CommandFits DEF Ends
    <3> QED
      BY <1>2, <2>1, <3>1, BecomesFits DEF ServicesInv, Becomes, Host, HostFits, Hosts, Linux
  <2>3. /\ Host.files = files /\ Host.enabled = enabled
        /\ e.host.files = files' /\ e.host.enabled = enabled'
    BY <2>1 DEF Host, Becomes
  <2>4. CASE Linux
    <3>1. Agent(n) \notin files /\ Agent(n) \notin files'
      BY <2>2, <2>4, FilesOf DEF ServicesInv, HostFits, Host
    <3>2. Adds(Host, e.host) /\ (Unit(n) \in files \ enabled => Keeps(Host, e.host))
      BY <2>1, <2>2, <2>3, <2>4, SystemdCommands
    <3>3. enabled \subseteq enabled' /\ (Unit(n) \in files \ enabled => enabled' = enabled)
      BY <2>3, <3>2 DEF Adds, Keeps
    <3>4. Unit(n) \in files /\ Unit(n)[2] = n
      BY <1>2, <2>4, FilesOf
    <3> QED
      BY <3>1, <3>3, <3>4 DEF Registered, Agent
  <2>5. CASE ~Linux
    <3>1. enabled = {} /\ enabled' = {}
      BY <2>2, <2>5 DEF ServicesInv, HostFits, Host
    <3>2. {Agent(n), Transient(n)} \cap files # {}
      BY <1>2, <2>5
    <3>3. Agent(n) \in files' <=> Agent(n) \in files
      BY <2>1, <2>2, <2>3, <2>5, <3>2, LaunchdCommands
    <3> QED
      BY <3>1, <3>3 DEF Registered, Agent
  <2> QED
    BY <2>4, <2>5
<1>3. ServicesInv /\ [ServicesNext]_serviceVars
         => [RunClean]_serviceVars /\ [\A n \in ServiceNames : Restarted(n) => Registered(n)' = Registered(n)]_serviceVars
  BY <1>1, <1>2
<1> QED
  BY <1>3, ServicesTyped, PTL DEF ServicesSpec, ServicesKept, RunFailsClean, RestartKeepsRegistration
-----------------------------------------------------------------------------
(* Cleanup.  Of the prefix: whatever becomes empty is planned from the     *)
(* start (Foreseen), and nothing else, so in the order from the bottom up  *)
(* no planned directory is found full.  Of the Cellar and the cache: the   *)
(* plan is made while kegs and cache are what they were before, and takes  *)
(* both files of a download or neither.                                    *)

Paths == PrefixRoots \cup PrefixDirs \cup LinkPaths
NoLinkBelow(d, kinds) == \A p \in LinkPaths : Below(d, p) => links[p] \in kinds

\* The linked and pinned kegs stay, and one of the version of the catalog.
KegsSpared(rest) ==
    /\ rest \subseteq before.kegs
    /\ rest # before.kegs =>
          \E k \in before.kegs : /\ k.version = listing[1].version
                                 /\ k.scheme >= listing[1].scheme => k \in rest
    /\ \A k \in before.kegs : k.version \in {linkedKeg, pinnedKeg} => k \in rest

Pair(e) == {f \in before.cache : f.name \in {"alias", "download"} /\ f.version = e.version}
Needed(e) == \/ listing # <<>> /\ listing[1].version = e.version
             \/ ~excluded /\ \E k \in before.kegs : k.version = e.version
\* Of a download and its alias both go or neither does, and neither when it is needed.
PairsSpared(gone, together) ==
    options.prune = <<>> =>
       \A e \in before.cache : e \in Pair(e) /\ Cardinality(Pair(e)) = 2 =>
          /\ together => Pair(e) \cap gone = {} \/ Pair(e) \subseteq gone
          /\ Needed(e) => Pair(e) \cap gone = {}

Working == {"kegs", "cache", "links", "dirs"}
Stages == {"look"} \cup Working \cup {"clean", "incomplete"}

CleanTyped ==
    /\ cleanPc \in Stages
    /\ cleanFaults \in Nat
    /\ links \in [LinkPaths -> {"none", "live", "broken", "file"}]
    /\ prefixDirs \subseteq PrefixRoots \cup PrefixDirs
    /\ toLink \subseteq LinkPaths
    /\ linking = <<>> \/ \E p \in LinkPaths : linking = <<p>>
    /\ disturbed \in BOOLEAN
    /\ plan.links \subseteq LinkPaths
    /\ plan.dirs \subseteq (PrefixRoots \cup PrefixDirs) \ PrefixRoots
    /\ plan = [kegs |-> plan.kegs, cache |-> plan.cache, links |-> plan.links, dirs |-> plan.dirs]

StoreInv ==
    /\ IsFiniteSet(before.cache)
    /\ \A e, f \in before.cache : e.name = f.name /\ e.version = f.version => e = f
    /\ before.kegs \subseteq [version : KegVersions, scheme : Nat]
    /\ listing \in Seq([version : Nat, scheme : Nat])
    /\ before = [kegs |-> before.kegs, cache |-> before.cache]
    /\ cleanPc \in {"look", "kegs"} => kegs = before.kegs
    /\ cleanPc = "kegs" => KegsSpared(before.kegs \ plan.kegs)
    /\ cleanPc \notin {"look", "kegs"} => KegsSpared(kegs)
    /\ cleanPc \in {"look", "kegs", "cache"} => cache = before.cache
    /\ cleanPc \in {"kegs", "cache"} => PairsSpared(plan.cache, TRUE) /\ plan.cache \subseteq before.cache
    /\ cleanPc \in {"links", "dirs", "clean", "incomplete"} =>
          PairsSpared(before.cache \ cache, failed = {}) /\ cache \subseteq before.cache
    /\ cleanPc = "clean" => failed = {}
    /\ cleanPc = "look" => failed = {}

\* Nobody disturbed the cleanup and nothing failed so far.
Calm == cleanPc # "look" /\ ~disturbed /\ cleanFaults = 0
Foreseen == \A d \in prefixDirs \ PrefixRoots : NoLinkBelow(d, {"none", "broken"}) => d \in plan.dirs
PrefixInv ==
    Calm =>
      /\ failed = {} /\ cleanPc # "incomplete"
      /\ Foreseen
      /\ \A d \in plan.dirs : NoLinkBelow(d, {"none", "broken"})
      /\ cleanPc \in {"kegs", "cache", "links"} => BrokenLinks = plan.links
      /\ cleanPc \in {"dirs", "clean"} => BrokenLinks = {}
      /\ cleanPc = "clean" => plan.dirs = {}

CleanInv == CleanTyped /\ StoreInv /\ PrefixInv

-----------------------------------------------------------------------------
\* A directory is below another when it is longer and begins with it.
LEMMA BelowOrder ==
    ASSUME NEW c \in Paths, NEW d \in Paths, NEW e \in Paths
    PROVE  /\ Len(c) \in Nat
           /\ Below(c, d) => Len(c) < Len(d)
           /\ Below(c, d) /\ Below(d, e) => Below(c, e)
<1> DEFINE N == UNION {Range(p) : p \in Paths}
           Starts(x, y) == Len(x) < Len(y) /\ \A i \in 1 .. Len(x) : x[i] = y[i]
<1>1. \A x \in Paths : x \in Seq(N)
  <2> TAKE x \in Paths
  <2>1. x \in Seq(Range(x))
    BY CleanupAssumption DEF Paths
  <2>2. \A i \in 1 .. Len(x) : x[i] \in N
    BY <2>1
  <2> QED
    BY <2>1, <2>2
<1> HIDE DEF N
<1>2. ASSUME NEW x \in Paths, NEW y \in Paths PROVE Below(x, y) <=> Starts(x, y)
  <2>1. x \in Seq(N) /\ y \in Seq(N)
    BY <1>1
  <2>2. Len(x) <= Len(y) =>
          (SubSeq(x, 1, Len(x)) = SubSeq(y, 1, Len(x)) <=> \A i \in 1 .. Len(x) : x[i] = y[i])
    BY <2>1
  <2>3. x = y <=> Len(x) = Len(y) /\ \A i \in 1 .. Len(x) : x[i] = y[i]
    BY <2>1
  <2> QED
    BY <2>1, <2>2, <2>3 DEF Below, IsStrictPrefix, IsPrefix
<1>3. Len(c) \in Nat /\ Len(d) \in Nat /\ Len(e) \in Nat
  BY <1>1
<1> QED
  BY <1>2, <1>3

\* A pair is a download and its alias.
LEMMA PairNames ==
    ASSUME StoreInv, NEW e \in before.cache, e \in Pair(e), Cardinality(Pair(e)) = 2
    PROVE  /\ \E f \in Pair(e) : f.name = "alias"
           /\ \E f \in Pair(e) : f.name = "download"
<1>1. ASSUME NEW x \in {"alias", "download"}, \A f \in Pair(e) : f.name # x PROVE FALSE
  <2>1. \A f \in Pair(e) : f.name = e.name /\ f.version = e.version /\ f \in before.cache
    BY <1>1 DEF Pair
  <2>2. Pair(e) = {e}
    BY <2>1 DEF StoreInv
  <2>3. Cardinality({e}) = 1
    BY FS_Singleton
  <2> QED
    BY <2>2, <2>3
<1> QED
  BY <1>1

\* What cleanup plans to take of the cache spares the pairs.
LEMMA CandidatesSpare ==
    ASSUME StoreInv, cache = before.cache, kegs = before.kegs
    PROVE  PairsSpared(CacheCandidates, TRUE)
<1> SUFFICES ASSUME options.prune = <<>>, NEW e \in before.cache, e \in Pair(e), Cardinality(Pair(e)) = 2
             PROVE  /\ Pair(e) \cap CacheCandidates = {} \/ Pair(e) \subseteq CacheCandidates
                    /\ Needed(e) => Pair(e) \cap CacheCandidates = {}
  BY DEF PairsSpared
<1>1. Cached("alias", e.version) /\ Cached("download", e.version)
  BY PairNames DEF Cached, Pair
<1>2. ASSUME NEW f \in Pair(e) PROVE f \in CacheCandidates <=> StaleBottle(e)
  <2>1. f \in cache /\ f.name \in {"alias", "download"} /\ f.version = e.version
    BY DEF Pair
  <2>2. e.name \in {"alias", "download"}
    BY DEF Pair
  <2>3. f \in Referenced /\ ~Dangling(f) /\ f.name # "incomplete"
    BY <1>1, <2>1 DEF Referenced, Dangling
  <2>4. ~Aged(f)
    BY <2>3 DEF Aged
  <2>5. StaleBottle(f) <=> StaleBottle(e)
    BY <2>1, <2>2 DEF StaleBottle
  <2> QED
    BY <2>1, <2>3, <2>4, <2>5 DEF CacheCandidates
<1>3. Needed(e) => ~StaleBottle(e)
  BY DEF Needed, StaleBottle, LookedAt
<1> QED
  BY <1>2, <1>3

\* What cleanup plans to take of the Cellar spares the kegs that must stay.
LEMMA CandidateKegsSpare ==
    ASSUME StoreInv, kegs = before.kegs
    PROVE  KegsSpared(before.kegs \ FormulaCandidates) /\ KegsSpared(before.kegs)
<1>1. \A k \in before.kegs : k.version \in {linkedKeg, pinnedKeg} => k \notin FormulaCandidates
  BY DEF FormulaCandidates
<1>2. ASSUME FormulaCandidates # {}
      PROVE  \E k \in before.kegs : /\ k.version = listing[1].version
                                    /\ k.scheme >= listing[1].scheme => k \notin FormulaCandidates
  <2>1. listing # <<>> /\ \E k \in kegs : k.version = listing[1].version
    BY <1>2 DEF FormulaCandidates, LatestInstalled
  <2>2. PICK k \in before.kegs : k.version = listing[1].version
    BY <2>1
  <2>3. listing[1].version \in Nat /\ listing[1].scheme \in Nat
    <3>1. listing \in Seq([version : Nat, scheme : Nat]) /\ listing # <<>>
      BY <2>1 DEF StoreInv
    <3>2. listing[1] \in [version : Nat, scheme : Nat]
      <4> DEFINE R == [version : Nat, scheme : Nat]
      <4> HIDE DEF R
      <4>1. listing \in Seq(R) /\ listing # <<>>
        BY <3>1 DEF R
      <4>2. Len(listing) \in Nat \ {0}
        BY ONLY <4>1, EmptySeq
      <4>3. 1 \in 1 .. Len(listing)
        BY <4>2
      <4>4. listing[1] \in R
        BY ONLY <4>1, <4>3, ElementOfSeq
      <4> QED
        BY <4>4 DEF R
    <3> QED
      BY <3>2
  <2>4. k.version \in Nat /\ k.scheme \in Nat
    BY <2>2, <2>3 DEF StoreInv
  <2>5. k.scheme >= listing[1].scheme => ~OldKeg(k)
    BY <2>2, <2>3, <2>4 DEF OldKeg
  <2> QED
    BY <2>2, <2>5 DEF FormulaCandidates
<1> QED
  BY <1>1, <1>2 DEF KegsSpared

LEMMA CleanInitInv == CleanupInit => CleanInv
<1> SUFFICES ASSUME CleanupInit PROVE CleanInv
  OBVIOUS
<1>1. PICK s \in CleanupStates :
          /\ kegs = s.kegs /\ linkedKeg = s.linked /\ pinnedKeg = s.pinned
          /\ listing = s.listing /\ excluded = s.excluded /\ cache = s.cache
          /\ prefixDirs = PrefixRoots \cup s.dirs /\ links = s.links /\ options = s.options
          /\ toLink = s.to_link
  BY DEF CleanupInit
<1>2. /\ plan = Nothing /\ before = [kegs |-> kegs, cache |-> cache]
      /\ cleanPc = "look" /\ failed = {} /\ cleanFaults = 0
      /\ linking = <<>> /\ disturbed = FALSE
  BY DEF CleanupInit
<1>3. CleanTyped
  BY <1>1, <1>2, CleanupAssumption DEF CleanTyped, Stages, Working, Nothing
<1>4. StoreInv
  BY <1>1, <1>2, CleanupAssumption DEF StoreInv
<1>5. PrefixInv
  BY <1>2 DEF PrefixInv, Calm
<1> QED
  BY <1>3, <1>4, <1>5 DEF CleanInv
-----------------------------------------------------------------------------
\* What stands still when only the prefix changes.
StoreStill == UNCHANGED <<kegs, linkedKeg, pinnedKeg, listing, excluded, cache, options, before>>

LEMMA SparedStill ==
    ASSUME UNCHANGED <<linkedKeg, pinnedKeg, listing, excluded, options, before>>
    PROVE  /\ \A S : KegsSpared(S)' <=> KegsSpared(S)
           /\ \A S, b : PairsSpared(S, b)' <=> PairsSpared(S, b)
BY DEF KegsSpared, PairsSpared, Pair, Needed

LEMMA LookAroundKeeps == ASSUME CleanInv, LookAround PROVE CleanInv'
<1>1. CleanTyped /\ StoreInv /\ cleanPc = "look"
  BY DEF CleanInv, LookAround
<1>2. /\ plan'.links = BrokenLinks /\ plan'.dirs = EmptyDirectories
      /\ plan'.kegs \in {{}, FormulaCandidates} /\ plan'.cache \in {{}, CacheCandidates}
      /\ plan' = [kegs |-> plan'.kegs, cache |-> plan'.cache, links |-> plan'.links, dirs |-> plan'.dirs]
  BY DEF LookAround, Nothing
<1>3. /\ StoreStill /\ UNCHANGED <<prefixDirs, links, failed, cleanFaults, toLink, linking>>
      /\ disturbed' = FALSE /\ cleanPc' = "kegs"
  BY DEF LookAround, storeVars, prefixVars, StoreStill
<1>4. CleanTyped'
  BY <1>1, <1>2, <1>3 DEF CleanTyped, Stages, Working, BrokenLinks, EmptyDirectories
<1>5. StoreInv'
  <2>1. KegsSpared(before.kegs \ plan'.kegs)
    <3>1. before.kegs \ {} = before.kegs
      OBVIOUS
    <3> QED
      BY <1>1, <1>2, <3>1, CandidateKegsSpare DEF StoreInv
  <2>2. PairsSpared(plan'.cache, TRUE) /\ plan'.cache \subseteq before.cache
    <3>1. PairsSpared({}, TRUE)
      BY DEF PairsSpared
    <3>2. PairsSpared(CacheCandidates, TRUE) /\ CacheCandidates \subseteq before.cache
      BY <1>1, CandidatesSpare DEF StoreInv, CacheCandidates
    <3> QED
      BY <1>2, <3>1, <3>2
  <2>3. KegsSpared(before.kegs \ plan.kegs)' /\ PairsSpared(plan.cache, TRUE)'
    BY <1>3, <2>1, <2>2, SparedStill DEF StoreStill
  <2> QED
    BY <1>1, <1>3, <2>2, <2>3 DEF StoreInv, StoreStill
<1>6. PrefixInv'
  <2> SUFFICES ASSUME Calm' PROVE PrefixInv'
    BY DEF PrefixInv
  <2>1. failed' = {} /\ cleanPc' = "kegs" /\ BrokenLinks' = BrokenLinks
    BY <1>1, <1>3 DEF StoreInv, BrokenLinks
  <2>2. \A d \in prefixDirs \ PrefixRoots : NoLinkBelow(d, {"none", "broken"}) <=> d \in EmptyDirectories
    BY DEF NoLinkBelow, EmptyDirectories
  <2>3. \A d, k : NoLinkBelow(d, k)' <=> NoLinkBelow(d, k)
    BY <1>3 DEF NoLinkBelow
  <2>4. EmptyDirectories \subseteq prefixDirs \ PrefixRoots
    BY DEF EmptyDirectories
  <2>5. Foreseen'
    BY <1>2, <1>3, <2>2, <2>3 DEF Foreseen, NoLinkBelow
  <2>6. (\A d \in plan.dirs : NoLinkBelow(d, {"none", "broken"}))'
    BY <1>2, <1>3, <2>2, <2>4 DEF NoLinkBelow
  <2> QED
    BY <1>2, <2>1, <2>5, <2>6 DEF PrefixInv
<1> QED
  BY <1>4, <1>5, <1>6 DEF CleanInv

LEMMA RemoveKegsKeeps == ASSUME CleanInv, RemoveKegs PROVE CleanInv'
<1>1. CleanTyped /\ StoreInv /\ PrefixInv /\ cleanPc = "kegs"
  BY DEF CleanInv, RemoveKegs
<1>2. /\ plan' = [plan EXCEPT !.kegs = {}] /\ cleanPc' = "cache"
      /\ UNCHANGED <<linkedKeg, pinnedKeg, listing, excluded, cache, options, prefixDirs, links,
                     before, toLink, linking, disturbed>>
  BY DEF RemoveKegs, prefixVars
<1>3. /\ plan'.links = plan.links /\ plan'.dirs = plan.dirs /\ plan'.cache = plan.cache
      /\ plan' = [kegs |-> plan'.kegs, cache |-> plan'.cache, links |-> plan'.links, dirs |-> plan'.dirs]
  BY <1>1, <1>2 DEF CleanTyped
<1>4. \/ kegs' = kegs \ plan.kegs /\ UNCHANGED <<failed, cleanFaults>>
      \/ /\ kegs' = kegs /\ cleanFaults' = cleanFaults + 1
  BY DEF RemoveKegs
<1>5. CleanTyped'
  BY <1>1, <1>2, <1>3, <1>4 DEF CleanTyped, Stages, Working
<1>6. StoreInv'
  <2>1. KegsSpared(before.kegs \ plan.kegs) /\ KegsSpared(before.kegs) /\ kegs = before.kegs
    BY <1>1, CandidateKegsSpare DEF StoreInv
  <2>2. KegsSpared(kegs')
    BY <1>4, <2>1
  <2>3. PairsSpared(plan'.cache, TRUE)
    BY <1>1, <1>3 DEF StoreInv
  <2>4. KegsSpared(kegs)' /\ PairsSpared(plan.cache, TRUE)'
    BY <1>2, <2>2, <2>3, SparedStill
  <2> QED
    BY <1>1, <1>2, <1>3, <2>4 DEF StoreInv
<1>7. PrefixInv'
  BY <1>1, <1>2, <1>3, <1>4 DEF CleanTyped, PrefixInv, Calm, Foreseen, NoLinkBelow, BrokenLinks
<1> QED
  BY <1>5, <1>6, <1>7 DEF CleanInv

\* A set of failures that counts for nothing is empty.
LEMMA NoFailure ==
    ASSUME NEW bad, IsFiniteSet(bad)
    PROVE  Cardinality(bad) \in Nat /\ (Cardinality(bad) = 0 => bad = {})
BY FS_CardinalityType, FS_EmptySet

LEMMA RemoveCachedKeeps == ASSUME CleanInv, RemoveCached PROVE CleanInv'
<1>1. CleanTyped /\ StoreInv /\ PrefixInv /\ cleanPc = "cache"
  BY DEF CleanInv, RemoveCached
<1>2. /\ plan' = [plan EXCEPT !.cache = {}] /\ cleanPc' = "links"
      /\ UNCHANGED <<kegs, linkedKeg, pinnedKeg, listing, excluded, options, prefixDirs, links,
                     before, toLink, linking, disturbed>>
  BY DEF RemoveCached, prefixVars
<1>3. /\ plan'.links = plan.links /\ plan'.dirs = plan.dirs
      /\ plan' = [kegs |-> plan'.kegs, cache |-> plan'.cache, links |-> plan'.links, dirs |-> plan'.dirs]
  BY <1>1, <1>2 DEF CleanTyped
<1>4. PICK bad \in Failures(plan.cache) : cache' = cache \ (plan.cache \ bad) /\ Count(bad)
  BY DEF RemoveCached
<1>5. /\ bad \subseteq plan.cache /\ plan.cache \subseteq before.cache /\ cache = before.cache
      /\ failed' = failed \cup bad /\ cleanFaults' = cleanFaults + Cardinality(bad)
  BY <1>1, <1>4 DEF StoreInv, Failures, Count
<1>6. Cardinality(bad) \in Nat /\ (Cardinality(bad) = 0 => bad = {})
  <2>1. IsFiniteSet(bad)
    BY <1>1, <1>5, FS_Subset DEF StoreInv
  <2> QED
    BY <2>1, NoFailure
<1>7. CleanTyped'
  BY <1>1, <1>2, <1>3, <1>5, <1>6 DEF CleanTyped, Stages, Working
<1>8. StoreInv'
  <2>1. PairsSpared(before.cache \ cache', failed' = {})
    <3>1. before.cache \ cache' = plan.cache \ bad
      BY <1>4, <1>5
    <3>2. failed' = {} => bad = {}
      BY <1>5
    <3>3. PairsSpared(plan.cache, TRUE)
      BY <1>1 DEF StoreInv
    <3>4. ASSUME NEW e \in before.cache, NEW P,
                 P \cap plan.cache = {} \/ P \subseteq plan.cache
          PROVE  /\ failed' = {} => P \cap (plan.cache \ bad) = {} \/ P \subseteq plan.cache \ bad
                 /\ P \cap plan.cache = {} => P \cap (plan.cache \ bad) = {}
      BY <3>2, <3>4
    <3> QED
      BY <3>1, <3>3, <3>4 DEF PairsSpared
  <2>2. PairsSpared(before.cache \ cache, failed = {})'
    BY <1>2, <2>1 DEF PairsSpared, Pair, Needed
  <2>3. KegsSpared(kegs)'
    BY <1>1, <1>2, SparedStill DEF StoreInv
  <2> QED
    BY <1>1, <1>2, <1>4, <1>5, <2>2, <2>3 DEF StoreInv
<1>9. PrefixInv'
  <2>1. Calm' => Calm /\ failed' = failed /\ BrokenLinks' = BrokenLinks
    BY <1>1, <1>2, <1>5, <1>6 DEF CleanTyped, Calm, BrokenLinks
  <2> QED
    BY <1>1, <1>2, <1>3, <2>1 DEF PrefixInv, Foreseen, NoLinkBelow
<1> QED
  BY <1>7, <1>8, <1>9 DEF CleanInv
LEMMA RemoveLinkKeeps == ASSUME CleanInv, RemoveLink PROVE CleanInv'
<1>1. CleanTyped /\ StoreInv /\ PrefixInv /\ cleanPc = "links"
  BY DEF CleanInv, RemoveLink
<1>2. StoreStill /\ UNCHANGED <<prefixDirs, cleanPc, toLink, linking, disturbed>>
  BY DEF RemoveLink, storeVars, StoreStill
<1>3. PICK p \in plan.links :
         /\ \E bad \in Failures({p}) :
               /\ links' = IF bad = {} THEN [links EXCEPT ![p] = "none"] ELSE links
               /\ Count(bad)
         /\ plan' = [plan EXCEPT !.links = @ \ {p}]
  BY DEF RemoveLink
<1>4. PICK bad \in SUBSET {p} :
         /\ links' = IF bad = {} THEN [links EXCEPT ![p] = "none"] ELSE links
         /\ failed' = failed \cup bad /\ cleanFaults' = cleanFaults + Cardinality(bad)
  BY <1>3 DEF Failures, Count
<1>5. Cardinality(bad) \in Nat /\ (Cardinality(bad) = 0 => bad = {})
  BY FS_Singleton, FS_Subset, NoFailure
<1>6. /\ plan'.links = plan.links \ {p} /\ plan'.dirs = plan.dirs
      /\ plan' = [kegs |-> plan'.kegs, cache |-> plan'.cache, links |-> plan'.links, dirs |-> plan'.dirs]
      /\ p \in LinkPaths
  BY <1>1, <1>3 DEF CleanTyped
<1>7. CleanTyped'
  BY <1>1, <1>2, <1>4, <1>5, <1>6 DEF CleanTyped
<1>8. StoreInv'
  <2>1. PairsSpared(before.cache \ cache, failed' = {})
    BY <1>1, <1>4 DEF StoreInv, PairsSpared
  <2>2. PairsSpared(before.cache \ cache, failed = {})'
    BY <1>2, <2>1 DEF StoreStill, PairsSpared, Pair, Needed
  <2>3. KegsSpared(kegs)'
    BY <1>1, <1>2, SparedStill DEF StoreInv, StoreStill
  <2> QED
    BY <1>1, <1>2, <2>2, <2>3 DEF StoreInv, StoreStill
<1>9. PrefixInv'
  <2> SUFFICES ASSUME Calm' PROVE PrefixInv'
    BY DEF PrefixInv
  <2>1. Calm /\ bad = {} /\ failed' = failed /\ links' = [links EXCEPT ![p] = "none"]
    BY <1>1, <1>2, <1>4, <1>5 DEF CleanTyped, Calm
  <2>2. \A q \in LinkPaths : links'[q] = IF q = p THEN "none" ELSE links[q]
    BY <1>1, <1>6, <2>1 DEF CleanTyped
  <2>3. BrokenLinks' = plan'.links
    BY <1>1, <1>6, <2>1, <2>2 DEF PrefixInv, BrokenLinks
  <2>4. \A d : NoLinkBelow(d, {"none", "broken"}) => NoLinkBelow(d, {"none", "broken"})'
    BY <2>2 DEF NoLinkBelow
  <2>5. Foreseen'
    <3> SUFFICES ASSUME NEW d \in prefixDirs \ PrefixRoots, NoLinkBelow(d, {"none", "broken"})'
                 PROVE  d \in plan.dirs
      BY <1>2, <1>6 DEF Foreseen
    <3>1. ASSUME NEW q \in LinkPaths, Below(d, q) PROVE links[q] \in {"none", "broken"}
      <4>1. CASE q # p
        BY <2>2, <3>1, <4>1 DEF NoLinkBelow
      <4>2. CASE q = p
        BY <1>1, <2>1, <4>2 DEF PrefixInv, BrokenLinks
      <4> QED
        BY <4>1, <4>2
    <3> QED
      BY <1>1, <2>1, <3>1 DEF PrefixInv, Foreseen, NoLinkBelow
  <2> QED
    BY <1>1, <1>2, <1>6, <2>1, <2>3, <2>4, <2>5 DEF PrefixInv
<1> QED
  BY <1>7, <1>8, <1>9 DEF CleanInv
LEMMA LinksRemovedKeeps == ASSUME CleanInv, LinksRemoved PROVE CleanInv'
<1>1. CleanTyped /\ StoreInv /\ PrefixInv /\ cleanPc = "links" /\ plan.links = {}
  BY DEF CleanInv, LinksRemoved
<1>2. /\ cleanPc' = "dirs"
      /\ StoreStill /\ UNCHANGED <<prefixDirs, links, plan, failed, cleanFaults, toLink, linking, disturbed>>
  BY DEF LinksRemoved, storeVars, prefixVars, StoreStill
<1>3. CleanTyped'
  BY <1>1, <1>2 DEF CleanTyped, Stages, Working
<1>4. StoreInv'
  <2>1. KegsSpared(kegs)'
    BY <1>1, <1>2, SparedStill DEF StoreInv, StoreStill
  <2>2. PairsSpared(before.cache \ cache, failed = {})'
    BY <1>1, <1>2 DEF StoreInv, StoreStill, PairsSpared, Pair, Needed
  <2> QED
    BY <1>1, <1>2, <2>1, <2>2 DEF StoreInv, StoreStill
<1>5. PrefixInv'
  BY <1>1, <1>2 DEF PrefixInv, Calm, Foreseen, NoLinkBelow, BrokenLinks
<1> QED
  BY <1>3, <1>4, <1>5 DEF CleanInv

\* In a calm cleanup the directory whose turn it is holds nothing.
LEMMA TurnEmpty ==
    ASSUME CleanTyped, PrefixInv, Calm, cleanPc = "dirs", NEW d \in NextDirectory, d \in prefixDirs
    PROVE  Empty(d)
<1>1. d \in plan.dirs /\ (\A e \in plan.dirs : Len(d) >= Len(e)) /\ d \in PrefixDirs \ PrefixRoots
  BY DEF NextDirectory, CleanTyped
<1>2. NoLinkBelow(d, {"none", "broken"}) /\ BrokenLinks = {}
  BY <1>1 DEF PrefixInv
<1>3. \A p \in LinkPaths : Below(d, p) => links[p] = "none"
  BY <1>2 DEF NoLinkBelow, BrokenLinks
<1>4. ASSUME NEW e \in prefixDirs, Below(d, e) PROVE FALSE
  <2>1. e \in PrefixRoots \cup PrefixDirs
    BY DEF CleanTyped
  <2>2. e \notin PrefixRoots
    BY <1>1, <1>4, CleanupAssumption DEF Below
  <2>3. Len(d) \in Nat /\ Len(e) \in Nat /\ Len(d) < Len(e)
    BY <1>1, <1>4, <2>1, BelowOrder DEF Paths
  <2>4. \A p \in LinkPaths : Below(e, p) => Below(d, p)
    BY <1>1, <1>4, <2>1, BelowOrder DEF Paths
  <2>5. NoLinkBelow(e, {"none", "broken"})
    BY <1>3, <2>4 DEF NoLinkBelow
  <2>6. e \in plan.dirs
    BY <2>2, <2>5 DEF PrefixInv, Foreseen
  <2> QED
    BY <1>1, <2>3, <2>6
<1> QED
  BY <1>3, <1>4 DEF Empty

LEMMA RemoveDirectoryKeeps == ASSUME CleanInv, RemoveDirectory PROVE CleanInv'
<1>1. CleanTyped /\ StoreInv /\ PrefixInv /\ cleanPc = "dirs"
  BY DEF CleanInv, RemoveDirectory
<1>2. StoreStill /\ UNCHANGED <<links, cleanPc, toLink, linking, disturbed>>
  BY DEF RemoveDirectory, storeVars, StoreStill
<1>3. PICK d \in NextDirectory :
         /\ IF d \notin prefixDirs THEN UNCHANGED <<prefixDirs, failed, cleanFaults>>
            ELSE IF ~Empty(d)
            THEN failed' = failed \cup {d} /\ UNCHANGED <<prefixDirs, cleanFaults>>
            ELSE \E bad \in Failures({d}) : prefixDirs' = prefixDirs \ ({d} \ bad) /\ Count(bad)
         /\ plan' = [plan EXCEPT !.dirs = @ \ {d}]
  BY DEF RemoveDirectory
<1>4. /\ prefixDirs' \in {prefixDirs, prefixDirs \ {d}} /\ failed \subseteq failed'
      /\ cleanFaults' \in Nat
      /\ Calm' => Calm /\ failed' = failed /\ d \notin prefixDirs'
  <2>1. CASE d \notin prefixDirs
    BY <1>1, <1>2, <1>3, <2>1 DEF CleanTyped, Calm
  <2>2. CASE d \in prefixDirs /\ ~Empty(d)
    <3>1. ~Calm
      BY <1>1, <2>2, TurnEmpty
    <3>2. failed' = failed \cup {d} /\ prefixDirs' = prefixDirs /\ cleanFaults' = cleanFaults
      BY <1>3, <2>2
    <3>3. ~Calm'
      BY <1>2, <3>1, <3>2 DEF Calm
    <3>4. prefixDirs' = prefixDirs /\ failed \subseteq failed' /\ cleanFaults' \in Nat
      BY <1>1, <3>2 DEF CleanTyped
    <3>5. prefixDirs' \in {prefixDirs, prefixDirs \ {d}}
      BY <3>4
    <3>6. Calm' => Calm /\ failed' = failed /\ d \notin prefixDirs'
      BY <3>3, Zenon
    <3>7. failed \subseteq failed' /\ cleanFaults' \in Nat
      BY <3>4
    <3> QED
      BY <3>5, <3>6, <3>7, Zenon
  <2>3. CASE d \in prefixDirs /\ Empty(d)
    <3>1. PICK bad \in SUBSET {d} :
             /\ prefixDirs' = prefixDirs \ ({d} \ bad)
             /\ failed' = failed \cup bad /\ cleanFaults' = cleanFaults + Cardinality(bad)
      BY <1>3, <2>3 DEF Failures, Count
    <3>2. Cardinality(bad) \in Nat /\ (Cardinality(bad) = 0 => bad = {})
      BY FS_Singleton, FS_Subset, NoFailure
    <3>3. bad = {} \/ bad = {d}
      BY <3>1
    <3>4. Calm' => cleanFaults = 0 /\ Cardinality(bad) = 0
      BY <1>1, <3>1, <3>2 DEF CleanTyped, Calm
    <3>5. prefixDirs' \in {prefixDirs, prefixDirs \ {d}}
      BY <3>1, <3>3
    <3>6. failed \subseteq failed' /\ cleanFaults' \in Nat
      BY <1>1, <3>1, <3>2 DEF CleanTyped
    <3>7. ASSUME Cardinality(bad) = 0 PROVE failed' = failed /\ d \notin prefixDirs'
      BY <3>1, <3>2, <3>7
    <3>8. Calm' => Calm
      BY <1>2, <3>4 DEF Calm
    <3>9. Calm' => Calm /\ failed' = failed /\ d \notin prefixDirs'
      BY <3>4, <3>7, <3>8, Zenon
    <3> QED
      BY <3>5, <3>6, <3>9, Zenon
  <2> QED
    BY <2>1, <2>2, <2>3
<1>5. /\ plan'.dirs = plan.dirs \ {d} /\ plan'.links = plan.links
      /\ plan' = [kegs |-> plan'.kegs, cache |-> plan'.cache, links |-> plan'.links, dirs |-> plan'.dirs]
  BY <1>1, <1>3 DEF CleanTyped
<1>6. CleanTyped'
  BY <1>1, <1>2, <1>4, <1>5 DEF CleanTyped
<1>7. StoreInv'
  <2>1. PairsSpared(before.cache \ cache, failed' = {})
    BY <1>1, <1>4 DEF StoreInv, PairsSpared
  <2>2. PairsSpared(before.cache \ cache, failed = {})'
    BY <1>2, <2>1 DEF StoreStill, PairsSpared, Pair, Needed
  <2>3. KegsSpared(kegs)'
    BY <1>1, <1>2, SparedStill DEF StoreInv, StoreStill
  <2> QED
    BY <1>1, <1>2, <2>2, <2>3 DEF StoreInv, StoreStill
<1>8. PrefixInv'
  BY <1>1, <1>2, <1>4, <1>5 DEF PrefixInv, Foreseen, NoLinkBelow, BrokenLinks
<1> QED
  BY <1>6, <1>7, <1>8 DEF CleanInv

LEMMA CleanedKeeps == ASSUME CleanInv, Cleaned PROVE CleanInv'
<1>1. CleanTyped /\ StoreInv /\ PrefixInv /\ cleanPc = "dirs" /\ plan.dirs = {}
  BY DEF CleanInv, Cleaned
<1>2. /\ cleanPc' = IF failed = {} THEN "clean" ELSE "incomplete"
      /\ StoreStill /\ UNCHANGED <<prefixDirs, links, plan, failed, cleanFaults, toLink, linking, disturbed>>
  BY DEF Cleaned, storeVars, prefixVars, StoreStill
<1>3. CleanTyped'
  BY <1>1, <1>2 DEF CleanTyped, Stages, Working
<1>4. StoreInv'
  <2>1. KegsSpared(kegs)'
    BY <1>1, <1>2, SparedStill DEF StoreInv, StoreStill
  <2>2. PairsSpared(before.cache \ cache, failed = {})'
    BY <1>1, <1>2 DEF StoreInv, StoreStill, PairsSpared, Pair, Needed
  <2> QED
    BY <1>1, <1>2, <2>1, <2>2 DEF StoreInv, StoreStill
<1>5. PrefixInv'
  BY <1>1, <1>2 DEF PrefixInv, Calm, Foreseen, NoLinkBelow, BrokenLinks
<1> QED
  BY <1>3, <1>4, <1>5 DEF CleanInv

\* What an install does disturbs, and leaves Cellar and cache alone.
LEMMA InstallKeeps == ASSUME CleanInv, MakeDirectories \/ MakeLink PROVE CleanInv'
<1>1. CleanTyped /\ StoreInv
  BY DEF CleanInv
<1>2. /\ StoreStill /\ UNCHANGED <<plan, cleanPc, failed, cleanFaults>>
      /\ disturbed' = TRUE
  BY DEF MakeDirectories, MakeLink, storeVars, StoreStill
<1>3. CleanTyped'
  <2>1. CASE MakeDirectories
    BY <1>1, <1>2, <2>1 DEF MakeDirectories, CleanTyped
  <2>2. CASE MakeLink
    <3>1. links' \in [LinkPaths -> {"none", "live", "broken", "file"}]
      BY <1>1, <2>2 DEF MakeLink, CleanTyped
    <3> QED
      BY <1>1, <1>2, <2>2, <3>1 DEF MakeLink, CleanTyped
  <2> QED
    BY <2>1, <2>2
<1>4. StoreInv'
  <2>1. KegsSpared(kegs)' <=> KegsSpared(kegs)
    BY <1>2, SparedStill DEF StoreStill
  <2>2. KegsSpared(before.kegs \ plan.kegs)' <=> KegsSpared(before.kegs \ plan.kegs)
    BY <1>2, SparedStill DEF StoreStill
  <2>3. PairsSpared(plan.cache, TRUE)' <=> PairsSpared(plan.cache, TRUE)
    BY <1>2 DEF StoreStill, PairsSpared, Pair, Needed
  <2>4. PairsSpared(before.cache \ cache, failed = {})' <=> PairsSpared(before.cache \ cache, failed = {})
    BY <1>2 DEF StoreStill, PairsSpared, Pair, Needed
  <2> QED
    BY <1>1, <1>2, <2>1, <2>2, <2>3, <2>4 DEF StoreInv, StoreStill
<1>5. PrefixInv'
  BY <1>2 DEF PrefixInv, Calm
<1> QED
  BY <1>3, <1>4, <1>5 DEF CleanInv

LEMMA CleanStutters == ASSUME CleanInv, UNCHANGED cleanupVars PROVE CleanInv'
<1>1. CleanTyped /\ StoreInv /\ PrefixInv
  BY DEF CleanInv
<1>2. /\ StoreStill
      /\ UNCHANGED <<plan, cleanPc, failed, cleanFaults, prefixDirs, links, toLink, linking, disturbed>>
  BY DEF cleanupVars, storeVars, prefixVars, StoreStill
<1>3. CleanTyped'
  BY <1>1, <1>2 DEF CleanTyped
<1>4. StoreInv'
  BY <1>1, <1>2 DEF StoreInv, StoreStill, KegsSpared, PairsSpared, Pair, Needed
<1>5. PrefixInv'
  BY <1>1, <1>2 DEF PrefixInv, Calm, Foreseen, NoLinkBelow, BrokenLinks
<1> QED
  BY <1>3, <1>4, <1>5 DEF CleanInv

LEMMA CleanNextKeeps == CleanInv /\ [CleanupNext]_cleanupVars => CleanInv'
BY LookAroundKeeps, RemoveKegsKeeps, RemoveCachedKeeps, RemoveLinkKeeps, LinksRemovedKeeps,
   RemoveDirectoryKeeps, CleanedKeeps, InstallKeeps, CleanStutters DEF CleanupNext

\* What is planned is what cleanup may take, at every moment.
THEOREM CleanupPlanned == CleanupSpec => []CleanInv
BY CleanInitInv, CleanNextKeeps, PTL DEF CleanupSpec

\* A cleanup that is not disturbed leaves no broken link and no empty directory, and
\* every cleanup spares the kegs and the downloads that are worth keeping.
THEOREM CleanupKeeps == CleanupSpec => []CleanupSound
<1>1. ASSUME CleanInv PROVE PrefixClean
  <2> SUFFICES ASSUME CleanupEnded, ~disturbed, cleanFaults = 0
               PROVE  /\ cleanPc = "clean" /\ BrokenLinks = {}
                      /\ \A d \in prefixDirs \ PrefixRoots : ~Empty(d)
    BY DEF PrefixClean
  <2>1. PrefixInv /\ Calm
    BY <1>1 DEF CleanInv, Calm, CleanupEnded
  <2>2. cleanPc = "clean" /\ BrokenLinks = {} /\ plan.dirs = {} /\ Foreseen
    BY <2>1 DEF PrefixInv, CleanupEnded
  <2>3. ASSUME NEW d \in prefixDirs \ PrefixRoots, Empty(d) PROVE FALSE
    BY <2>2, <2>3 DEF Foreseen, Empty, NoLinkBelow
  <2> QED
    BY <2>2, <2>3
<1>2. ASSUME CleanInv PROVE WorthKept
  <2> SUFFICES ASSUME CleanupEnded PROVE WorthKept
    BY DEF WorthKept
  <2>1. /\ KegsSpared(kegs) /\ PairsSpared(before.cache \ cache, failed = {})
        /\ cache \subseteq before.cache /\ (cleanPc = "clean" => failed = {})
    BY <1>2 DEF CleanInv, StoreInv, CleanupEnded
  <2>2. \A e : Pair(e) \subseteq before.cache
    BY DEF Pair
  <2>3. ASSUME options.prune = <<>>, NEW e \in before.cache, e \in Pair(e), Cardinality(Pair(e)) = 2
        PROVE  /\ cleanPc = "clean" => Pair(e) \subseteq cache \/ Pair(e) \cap cache = {}
               /\ Needed(e) => Pair(e) \subseteq cache
    BY <2>1, <2>2, <2>3 DEF PairsSpared
  <2> QED
    BY <2>1, <2>3 DEF WorthKept, KegsSpared, Pair, Needed
<1> QED
  BY <1>1, <1>2, CleanupPlanned, PTL DEF CleanupSound
=============================================================================
