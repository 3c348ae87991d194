-------------------------- MODULE RemovalTxnProofs --------------------------
(***************************************************************************)
(* Removals, for every value of the constants: until the commit no keg is  *)
(* lost, a success is complete, an error that reports nothing has put all  *)
(* of it back, and removal is atomic over the formulae asked for.          *)
(*                                                                         *)
(* The argument.  `tasks' holds the calls that the loops of apply and of   *)
(* rollback have still to make.  Which calls are left is tied to what is   *)
(* done: a target that is in its rack is still to be moved, a symlink to a *)
(* target still to be removed, a link into a target still to be unlinked;  *)
(* in rollback, whatever differs from the disk as it was is still to be    *)
(* put back, or something is left over and will be reported.  The order of *)
(* the calls matters twice: a keg is unlinked while it is in its rack, and *)
(* it is relinked when it is back there, before its symlinks are restored. *)
(***************************************************************************)
EXTENDS RemovalTxn, LoopsProofs, TLAPS
-----------------------------------------------------------------------------
(* The inductive invariant.  RemovalTxn's steps are few, but each says little by *)
(* itself: what makes them right is which calls the process has still to make. *)

\* A call is among those still to make.
Holds(s, op, arg) == \E i \in 1 .. Len(s) : s[i] = [op |-> op, arg |-> arg]

\* A call that the process has still to make.
ToDo(op, arg) == Holds(tasks, op, arg)

\* The order the loops guarantee: a keg is unlinked at most once and before it is
\* moved; links come back after every keg is; the symlinks of a formula are
\* restored after its links, each after it is cleared.
Ordered(s) ==
    /\ \A p, q \in 1 .. Len(s) : p < q /\ s[q].op = "unlink" =>
          s[p].op \notin {"unlink", "move"} \/ s[p].arg # s[q].arg
    /\ \A p, q \in 1 .. Len(s) : p < q /\ s[q].op = "putBack" => s[p].op # "relink"
    /\ \A p \in 1 .. Len(s) : s[p].op = "clear" =>
          \E q \in p + 1 .. Len(s) : s[q] = [op |-> "restore", arg |-> s[p].arg]
    /\ \A p \in 1 .. Len(s) : s[p].op = "relink" => \A name \in Names :
          \E q \in p + 1 .. Len(s) :
             s[q] = [op |-> "restore",
                     arg |-> [name |-> name, of |-> FormulaOf(s[p].arg.keg)]]

\* What unlink returns, and the calls of apply, of the end of a committed removal
\* and of rollback.
Unlinkings == [keg : Kegs, bare : BOOLEAN]

ApplyCalls ==
    [op : {"unlink", "move"}, arg : Kegs] \cup [op : Names \cup {"rack"}, arg : Formulae]

DeleteCalls == [op : {"delete"}, arg : Kegs]

UndoCalls ==
    [op : {"makeRack"}, arg : Formulae] \cup [op : {"putBack"}, arg : Kegs]
    \cup [op : {"relink"}, arg : Unlinkings]
    \cup [op : {"clear", "restore"}, arg : [name : Names, of : Formulae]]

\* The phases of apply and of rollback; the formulae of the targets.
Applying == pc \in {"begin", "trash", "apply", "unlinking"}

Undoing == pc \in {"fail", "undo", "relinking"}

Cover == {FormulaOf(k) : k \in targets}

Succeeded == result \in {"committed", "ok", "cleanup"}

\* The journal names the keg as moved, or as unlinked.
Moved(k) == \E i \in 1 .. Len(staged) : staged[i] = k

\* Where the process is, and what it may still have to do there.
ControlInv ==
    /\ pc \in {"idle", "begin", "trash", "apply", "unlinking", "commit", "fail", "undo",
               "relinking"}
    /\ result \in {"none", "running", "committed", "ok", "cleanup", "failed", "incomplete",
                   "crashed"}
    /\ result = "running" <=> Applying \/ Undoing
    /\ result = "committed" <=> pc = "commit"
    /\ Succeeded => committed
    /\ committed => Succeeded \/ result = "crashed"
    /\ Applying => tasks \in Seq(ApplyCalls)
    /\ pc = "commit" => tasks \in Seq(DeleteCalls)
    /\ Undoing => tasks \in Seq(UndoCalls)
    /\ pc = "fail" => tasks = <<>>
    /\ pc = "unlinking" => tasks # <<>> /\ Op = "unlink"
    /\ pc = "relinking" => tasks # <<>> /\ Op = "relink"
    /\ Applying \/ Undoing => Ordered(tasks)
    /\ result = "none" \/ pc \notin {"idle", "unlinking", "relinking"} => todo = {}
    /\ staged \in Seq(targets) /\ unlinked \in Seq(Unlinkings)
    /\ bare \in BOOLEAN /\ kind \in {"none", "uninstall", "upgrade"}
    /\ result # "none" => kind # "none"
    /\ result = "none" \/ pc = "begin" =>
          /\ records = {} /\ racked = {} /\ staged = <<>> /\ unlinked = <<>>
          /\ leftovers = {}
    /\ result = "none" =>
          /\ targets = {}
          /\ before = [place |-> place, rackDir |-> rackDir, link |-> link,
                       record |-> record]

\* The disk as it was, and the targets chosen from it.
PastInv ==
    /\ before.place \in [Kegs -> {"rack", "gone"}] /\ before.rackDir \subseteq Formulae
    /\ before.link \in [Files -> Kegs \cup {"free", "other"}]
    /\ before.record \in [Names -> [Formulae -> Kegs \cup {NoKeg}]]
    /\ \A f \in Formulae :
          /\ f \in before.rackDir <=> \E k \in KegsOf(f) : before.place[k] = "rack"
          /\ \A name \in Names : before.record[name][f] # NoKeg =>
                /\ before.record[name][f] \in KegsOf(f)
                /\ before.place[before.record[name][f]] = "rack"
                /\ before.record[name][f] = before.record["opt"][f]
    /\ \A d \in Files : before.link[d] \in Kegs =>
          /\ before.record["linked"][FormulaOf(before.link[d])] = before.link[d]
          /\ d \in Ships[before.link[d]]
          /\ \A e \in Ships[before.link[d]] : before.link[e] = before.link[d]
    /\ \A k \in targets : k \in Kegs /\ before.place[k] = "rack"
    /\ kind = "upgrade" => \A name \in Names, f \in Formulae :
          before.record[name][f] \notin targets

\* What apply has still to do is what it has not done, and nothing of other kegs.
PlanInv ==
    Applying =>
        /\ \A k \in Kegs : ToDo("move", k) => k \in targets
        /\ \A k \in targets : place[k] = "rack" => ToDo("move", k)
        /\ \A k \in Kegs : ToDo("unlink", k) =>
              /\ k \in targets /\ kind = "uninstall" /\ place[k] = "rack"
              /\ before.record["linked"][FormulaOf(k)] = k
        /\ \A name \in Names, f \in Formulae : ToDo(name, f) =>
              /\ f \in Cover /\ kind = "uninstall"
              /\ before.record[name][f] \in targets \cup {NoKeg}
        /\ \A f \in Formulae : ToDo("rack", f) =>
              f \in Cover /\ kind = "uninstall" /\ f \in before.rackDir
        /\ \A name \in Names, f \in Formulae : record[name][f] \in targets =>
              ToDo(name, f) \/ (name = "linked" /\ ToDo("unlink", record[name][f]))
        /\ kind = "uninstall" => \A f \in rackDir :
              ToDo("rack", f) \/ \E k \in KegsOf(f) \ targets : before.place[k] = "rack"

\* Kegs: where they are until the commit, after it, and during a rollback.
PlaceInv ==
    /\ \A k \in Kegs \ targets : place[k] = before.place[k]
    /\ ~committed => \A k \in targets :
          place[k] = "rack" \/ (place[k] = "trash" /\ Moved(k))
    /\ committed => \A k \in targets : place[k] # "rack"
    /\ pc = "commit" => \A k \in targets :
          place[k] = "gone" \/ ToDo("delete", k) \/ leftovers # {}
    /\ pc = "commit" => \A k \in Kegs : ToDo("delete", k) => k \in targets
    /\ result = "ok" => \A k \in targets : place[k] = "gone"
    /\ pc \in {"undo", "relinking"} => \A k \in targets :
          place[k] = "rack" \/ ToDo("putBack", k) \/ leftovers # {}
    /\ Undoing => \A k \in Kegs : ToDo("putBack", k) => k \in targets

\* Rack directories: only those of the journal are missing, and rollback will make
\* them again unless that failed and was reported.
RackInv ==
    /\ rackDir \subseteq before.rackDir /\ racked \subseteq records
    /\ \A f \in before.rackDir \ rackDir : f \in racked
    /\ racked \subseteq before.rackDir
    /\ pc \in {"undo", "relinking"} => \A f \in before.rackDir \ rackDir :
          ToDo("makeRack", f) \/ leftovers # {}
    /\ Undoing => \A f \in Formulae : ToDo("makeRack", f) => f \in before.rackDir
    /\ Succeeded /\ kind = "uninstall" => \A f \in rackDir :
          \E k \in KegsOf(f) \ targets : before.place[k] = "rack"

\* The three symlinks of a formula: those that have changed were read before.
RecordInv ==
    /\ records \subseteq Cover
    /\ pc = "begin" => record = before.record
    /\ pc \in {"trash", "apply", "unlinking"} /\ kind = "uninstall" => records = Cover
    /\ \A name \in Names, f \in Formulae :
          record[name][f] # before.record[name][f] => f \in records
    /\ Applying \/ committed => \A name \in Names, f \in Formulae :
          /\ record[name][f] \in {before.record[name][f], NoKeg}
          /\ before.record[name][f] \notin targets =>
                record[name][f] = before.record[name][f]
    /\ Succeeded => \A name \in Names, f \in Formulae : record[name][f] \notin targets
    /\ \A i \in 1 .. Len(unlinked) :
          unlinked[i].keg \in targets /\ FormulaOf(unlinked[i].keg) \in records
    /\ pc \in {"undo", "relinking"} => \A name \in Names, f \in Formulae :
          \/ record[name][f] = before.record[name][f] \/ leftovers # {}
          \/ ToDo("restore", [name |-> name, of |-> f])
    /\ Undoing => \A name \in Names, f \in Formulae :
          ToDo("clear", [name |-> name, of |-> f]) => f \in records

\* Prefix links: none dangles, those of other kegs stay, and what was unlinked is
\* known to the journal with all its links.
LinkInv ==
    /\ clear = {}
    /\ \A d \in Files : link[d] \in Kegs =>
          link[d] = before.link[d] /\ place[link[d]] = "rack"
    /\ \A d \in Files : before.link[d] \in Kegs \ targets => link[d] = before.link[d]
    /\ \A i \in 1 .. Len(unlinked) :
          /\ unlinked[i].bare => \A d \in Files : before.link[d] # unlinked[i].keg
          /\ ~unlinked[i].bare => \A d \in Ships[unlinked[i].keg] :
                before.link[d] = unlinked[i].keg

\* The walk over the links of a keg: links of targets are still to be unlinked, and
\* those of the current keg are either left to do or gone.
UnlinkInv ==
    /\ Applying => \A d \in Files : link[d] \in targets => ToDo("unlink", link[d])
    /\ Applying => \A d \in Files :
          ToDo("unlink", before.link[d]) =>
             link[d] = before.link[d] \/ (pc = "unlinking" /\ Arg = before.link[d])
    /\ pc = "unlinking" =>
          /\ \A d \in todo : link[d] = Arg
          /\ \A d \in Files \ todo : before.link[d] = Arg => link[d] # Arg /\ ~bare
          /\ ~bare => \E d \in Files : before.link[d] = Arg

\* The walk back: what the journal says was unlinked is linked, still to be linked
\* or reported.
RelinkInv ==
    /\ Undoing => \A u \in Unlinkings : ToDo("relink", u) =>
          \E i \in 1 .. Len(unlinked) : unlinked[i] = u
    /\ pc \in {"undo", "relinking"} => \A i \in 1 .. Len(unlinked) :
          ~unlinked[i].bare => \A d \in Ships[unlinked[i].keg] :
             \/ link[d] = unlinked[i].keg \/ leftovers # {}
             \/ ToDo("relink", unlinked[i])
    /\ pc = "relinking" =>
          /\ todo # {} => place[Arg.keg] = "rack" /\ ~Arg.bare
          /\ todo \subseteq Ships[Arg.keg]
          /\ ~Arg.bare => \A d \in Ships[Arg.keg] :
                d \in todo \/ link[d] = Arg.keg \/ leftovers # {}

\* The inductive invariant.
RemovalInv ==
    /\ TypeOK /\ ControlInv /\ PastInv /\ PlanInv /\ PlaceInv /\ RackInv /\ RecordInv
    /\ LinkInv /\ UnlinkInv /\ RelinkInv

-----------------------------------------------------------------------------
(* Formulae and calls.                                                     *)

\* A keg belongs to one formula.
LEMMA Belongs ==
    /\ \A k \in Kegs : FormulaOf(k) \in Formulae /\ k \in KegsOf(FormulaOf(k))
    /\ \A f \in Formulae : \A k \in KegsOf(f) : k \in Kegs /\ FormulaOf(k) = f
<1>1. \A k \in Kegs : \E f \in Formulae : k \in KegsOf(f)
  BY RemovalAssumption
<1>2. \A f \in Formulae : KegsOf(f) \subseteq Kegs
  BY RemovalAssumption
<1>3. \A f, g \in Formulae : f # g => KegsOf(f) \cap KegsOf(g) = {}
  BY RemovalAssumption
<1> QED
  BY <1>1, <1>2, <1>3 DEF FormulaOf

\* What is left of the calls when the first was made.
LEMMA HoldsTail ==
    ASSUME NEW S, NEW s \in Seq(S), s # <<>>
    PROVE  /\ Tail(s) \in Seq(S) /\ Head(s) \in S
           /\ \A op, arg : Holds(Tail(s), op, arg) => Holds(s, op, arg)
           /\ \A op, arg : Holds(s, op, arg) =>
                 Holds(Tail(s), op, arg) \/ Head(s) = [op |-> op, arg |-> arg]
           /\ \A op, arg : Head(s) = [op |-> op, arg |-> arg] => Holds(s, op, arg)
<1>1. /\ Len(s) \in Nat \ {0} /\ Tail(s) \in Seq(S) /\ Len(Tail(s)) = Len(s) - 1
      /\ Head(s) = s[1] /\ s[1] \in S /\ \A i \in 1 .. Len(Tail(s)) : Tail(s)[i] = s[i + 1]
  OBVIOUS
<1>2. ASSUME NEW op, NEW arg, Holds(Tail(s), op, arg) PROVE Holds(s, op, arg)
  <2>1. PICK i \in 1 .. Len(Tail(s)) : s[i + 1] = [op |-> op, arg |-> arg]
    BY <1>1, <1>2 DEF Holds
  <2>2. i + 1 \in 1 .. Len(s)
    BY <1>1
  <2> QED BY <2>1, <2>2 DEF Holds
<1>3. ASSUME NEW op, NEW arg, Holds(s, op, arg), Head(s) # [op |-> op, arg |-> arg]
      PROVE  Holds(Tail(s), op, arg)
  <2>1. PICK i \in 1 .. Len(s) : s[i] = [op |-> op, arg |-> arg]
    BY <1>3 DEF Holds
  <2>2. i # 1
    BY <1>1, <1>3, <2>1
  <2>3. i - 1 \in 1 .. Len(Tail(s)) /\ Tail(s)[i - 1] = s[(i - 1) + 1] /\ (i - 1) + 1 = i
    BY <1>1, <2>2
  <2> QED BY <2>1, <2>3 DEF Holds
<1>4. ASSUME NEW op, NEW arg, Head(s) = [op |-> op, arg |-> arg] PROVE Holds(s, op, arg)
  BY <1>1, <1>4 DEF Holds
<1> QED
  BY <1>1, <1>2, <1>3, <1>4

\* Nothing is left when the calls are made.
LEMMA HoldsNone == ASSUME NEW op, NEW arg PROVE ~Holds(<<>>, op, arg)
BY DEF Holds

\* The order of the calls stays.
LEMMA OrderedTail ==
    ASSUME NEW S, NEW s \in Seq(S), s # <<>>, Ordered(s)
    PROVE  Ordered(Tail(s))
<1> DEFINE t == Tail(s)
<1>1. /\ Len(s) \in Nat \ {0} /\ Len(t) \in Nat /\ Len(t) = Len(s) - 1
      /\ \A i \in 1 .. Len(t) : t[i] = s[i + 1] /\ i + 1 \in 1 .. Len(s)
  OBVIOUS
<1>2. \A p \in 1 .. Len(t) : \A q \in (p + 1) + 1 .. Len(s) :
         q - 1 \in p + 1 .. Len(t) /\ t[q - 1] = s[q]
  <2> TAKE p \in 1 .. Len(t)
  <2> TAKE q \in (p + 1) + 1 .. Len(s)
  <2>1. q - 1 \in 1 .. Len(t) /\ q - 1 \in p + 1 .. Len(t) /\ (q - 1) + 1 = q
    BY <1>1
  <2> QED BY <1>1, <2>1
<1> HIDE DEF t
<1>3. \A p, q \in 1 .. Len(t) : p < q /\ t[q].op = "unlink" =>
         t[p].op \notin {"unlink", "move"} \/ t[p].arg # t[q].arg
  <2> TAKE p, q \in 1 .. Len(t)
  <2>1. /\ p + 1 \in 1 .. Len(s) /\ q + 1 \in 1 .. Len(s) /\ (p < q => p + 1 < q + 1)
        /\ t[p] = s[p + 1] /\ t[q] = s[q + 1]
    BY <1>1
  <2> QED BY <2>1 DEF Ordered
<1>4. \A p, q \in 1 .. Len(t) : p < q /\ t[q].op = "putBack" => t[p].op # "relink"
  <2> TAKE p, q \in 1 .. Len(t)
  <2>1. /\ p + 1 \in 1 .. Len(s) /\ q + 1 \in 1 .. Len(s) /\ (p < q => p + 1 < q + 1)
        /\ t[p] = s[p + 1] /\ t[q] = s[q + 1]
    BY <1>1
  <2> QED BY <2>1 DEF Ordered
<1>5. \A p \in 1 .. Len(t) : t[p].op = "clear" =>
         \E q \in p + 1 .. Len(t) : t[q] = [op |-> "restore", arg |-> t[p].arg]
  <2> TAKE p \in 1 .. Len(t)
  <2> HAVE t[p].op = "clear"
  <2>1. PICK q \in (p + 1) + 1 .. Len(s) : s[q] = [op |-> "restore", arg |-> s[p + 1].arg]
    BY <1>1 DEF Ordered
  <2> QED BY <1>1, <1>2, <2>1
<1>6. \A p \in 1 .. Len(t) : t[p].op = "relink" => \A name \in Names :
         \E q \in p + 1 .. Len(t) : t[q] = [op |-> "restore",
                     arg |-> [name |-> name, of |-> FormulaOf(t[p].arg.keg)]]
  <2> TAKE p \in 1 .. Len(t)
  <2> HAVE t[p].op = "relink"
  <2> TAKE name \in Names
  <2>1. PICK q \in (p + 1) + 1 .. Len(s) : s[q] = [op |-> "restore",
             arg |-> [name |-> name, of |-> FormulaOf(s[p + 1].arg.keg)]]
    BY <1>1 DEF Ordered
  <2> QED BY <1>1, <1>2, <2>1
<1> QED
  BY <1>3, <1>4, <1>5, <1>6 DEF Ordered, t

\* What the order says of the first call and the others.
LEMMA OrderedHead ==
    ASSUME NEW S, NEW s \in Seq(S), s # <<>>, Ordered(s)
    PROVE  /\ Head(s).op \in {"unlink", "move"} => ~Holds(Tail(s), "unlink", Head(s).arg)
           /\ Head(s).op = "relink" => \A k : ~Holds(Tail(s), "putBack", k)
           /\ Head(s).op = "relink" => \A name \in Names :
                 Holds(Tail(s), "restore",
                       [name |-> name, of |-> FormulaOf(Head(s).arg.keg)])
           /\ Head(s).op = "clear" => /\ Holds(Tail(s), "restore", Head(s).arg)
                                      /\ Tail(s) # <<>>
<1> DEFINE t == Tail(s)
<1>1. /\ Len(s) \in Nat \ {0} /\ Len(t) \in Nat /\ Len(t) = Len(s) - 1 /\ Head(s) = s[1]
      /\ 1 \in 1 .. Len(s)
      /\ \A i \in 1 .. Len(t) : t[i] = s[i + 1] /\ i + 1 \in 1 .. Len(s) /\ 1 < i + 1
  OBVIOUS
<1>2. \A q \in 1 + 1 .. Len(s) : q - 1 \in 1 .. Len(t) /\ t[q - 1] = s[q]
  <2> TAKE q \in 1 + 1 .. Len(s)
  <2>1. q - 1 \in 1 .. Len(t) /\ (q - 1) + 1 = q
    BY <1>1
  <2> QED BY <1>1, <2>1
<1> HIDE DEF t
<1>3. Len(t) # 0 => t # <<>>
  OBVIOUS
<1>4. s[1].op \in {"unlink", "move"} => ~Holds(t, "unlink", s[1].arg)
  <2>1. ASSUME s[1].op \in {"unlink", "move"}, NEW i \in 1 .. Len(t),
               t[i] = [op |-> "unlink", arg |-> s[1].arg]
        PROVE  FALSE
    <3>1. s[i + 1].op = "unlink" /\ s[i + 1].arg = s[1].arg /\ i + 1 \in 1 .. Len(s) /\ 1 < i + 1
      BY <1>1, <2>1
    <3> QED BY <1>1, <2>1, <3>1 DEF Ordered
  <2> QED BY <2>1 DEF Holds
<1>5. s[1].op = "relink" => \A k : ~Holds(t, "putBack", k)
  <2>1. ASSUME s[1].op = "relink", NEW k, NEW i \in 1 .. Len(t),
               t[i] = [op |-> "putBack", arg |-> k]
        PROVE  FALSE
    <3>1. s[i + 1].op = "putBack" /\ i + 1 \in 1 .. Len(s) /\ 1 < i + 1
      BY <1>1, <2>1
    <3> QED BY <1>1, <2>1, <3>1 DEF Ordered
  <2> QED BY <2>1 DEF Holds
<1>6. ASSUME s[1].op = "relink", NEW name \in Names
      PROVE  Holds(t, "restore", [name |-> name, of |-> FormulaOf(s[1].arg.keg)])
  <2>1. PICK q \in 1 + 1 .. Len(s) : s[q] = [op |-> "restore",
             arg |-> [name |-> name, of |-> FormulaOf(s[1].arg.keg)]]
    BY <1>1, <1>6 DEF Ordered
  <2> QED BY <1>2, <2>1 DEF Holds
<1>7. ASSUME s[1].op = "clear"
      PROVE  Holds(t, "restore", s[1].arg) /\ Len(t) # 0
  <2>1. PICK q \in 1 + 1 .. Len(s) : s[q] = [op |-> "restore", arg |-> s[1].arg]
    BY <1>1, <1>7 DEF Ordered
  <2>2. q - 1 \in 1 .. Len(t) /\ t[q - 1] = s[q]
    BY <1>2
  <2> QED BY <1>1, <2>1, <2>2 DEF Holds
<1> QED
  BY <1>1, <1>3, <1>4, <1>5, <1>6, <1>7 DEF t

\* No calls are in order.
LEMMA OrderedNone == Ordered(<<>>)
BY DEF Ordered

\* All of it for the calls of the process.
Calls == IF Applying THEN ApplyCalls ELSE IF pc = "commit" THEN DeleteCalls ELSE UndoCalls

\* The next call and the rest: their kinds, and what the order says of them.
NextCall ==
    /\ Tail(tasks) \in Seq(Calls) /\ Head(tasks) = [op |-> Op, arg |-> Arg]
    /\ Applying => \/ Op \in {"unlink", "move"} /\ Arg \in Kegs
                   \/ Op \in Names \cup {"rack"} /\ Arg \in Formulae
    /\ pc = "commit" => Op = "delete" /\ Arg \in Kegs
    /\ Undoing => \/ Op = "makeRack" /\ Arg \in Formulae
                  \/ Op = "putBack" /\ Arg \in Kegs
                  \/ Op = "relink" /\ Arg \in Unlinkings /\ Arg.keg \in Kegs
                  \/ Op \in {"clear", "restore"} /\ Arg \in [name : Names, of : Formulae]
                     /\ Arg.name \in Names /\ Arg.of \in Formulae
                     /\ Arg = [name |-> Arg.name, of |-> Arg.of]
    /\ ToDo(Op, Arg)
    /\ \A op, arg : Holds(Tail(tasks), op, arg) => ToDo(op, arg)
    /\ \A op, arg : ToDo(op, arg) => Holds(Tail(tasks), op, arg) \/ (op = Op /\ arg = Arg)
    /\ Applying \/ Undoing =>
          /\ Ordered(Tail(tasks))
          /\ Op \in {"unlink", "move"} => ~Holds(Tail(tasks), "unlink", Arg)
          /\ Op = "relink" => \A k : ~Holds(Tail(tasks), "putBack", k)
          /\ Op = "relink" => \A name \in Names :
                Holds(Tail(tasks), "restore", [name |-> name, of |-> FormulaOf(Arg.keg)])
          /\ Op = "clear" => Holds(Tail(tasks), "restore", Arg) /\ Tail(tasks) # <<>>

\* That holds whenever there is a next call.
LEMMA NextCallFacts == ControlInv /\ pc # "idle" /\ tasks # <<>> => NextCall
<1> SUFFICES ASSUME ControlInv, pc # "idle", tasks # <<>> PROVE NextCall
  OBVIOUS
<1>1. tasks \in Seq(Calls)
  BY DEF ControlInv, Calls, Applying, Undoing
<1>2. Head(tasks) \in Calls /\ Tail(tasks) \in Seq(Calls)
  BY <1>1, HoldsTail
<1>3. /\ Head(tasks) = [op |-> Op, arg |-> Arg]
      /\ Applying => \/ Op \in {"unlink", "move"} /\ Arg \in Kegs
                     \/ Op \in Names \cup {"rack"} /\ Arg \in Formulae
      /\ pc = "commit" => Op = "delete" /\ Arg \in Kegs
      /\ Undoing => \/ Op = "makeRack" /\ Arg \in Formulae
                    \/ Op = "putBack" /\ Arg \in Kegs
                    \/ Op = "relink" /\ Arg \in Unlinkings /\ Arg.keg \in Kegs
                    \/ Op \in {"clear", "restore"} /\ Arg \in [name : Names, of : Formulae]
                       /\ Arg.name \in Names /\ Arg.of \in Formulae
                       /\ Arg = [name |-> Arg.name, of |-> Arg.of]
  BY <1>2 DEF Calls, Op, Arg, ApplyCalls, DeleteCalls, UndoCalls, Unlinkings, Applying, Undoing,
              ControlInv
<1>4. /\ ToDo(Op, Arg)
      /\ \A op, arg : Holds(Tail(tasks), op, arg) => ToDo(op, arg)
      /\ \A op, arg : ToDo(op, arg) => Holds(Tail(tasks), op, arg) \/ (op = Op /\ arg = Arg)
  <2>1. /\ \A op, arg : Holds(Tail(tasks), op, arg) => Holds(tasks, op, arg)
        /\ \A op, arg : Holds(tasks, op, arg) =>
              Holds(Tail(tasks), op, arg) \/ Head(tasks) = [op |-> op, arg |-> arg]
        /\ \A op, arg : Head(tasks) = [op |-> op, arg |-> arg] => Holds(tasks, op, arg)
    BY ONLY <1>1, tasks # <<>>, HoldsTail
  <2> QED BY <1>3, <2>1 DEF ToDo, Op, Arg
<1>5. ASSUME Applying \/ Undoing
      PROVE  /\ Ordered(Tail(tasks))
             /\ Op \in {"unlink", "move"} => ~Holds(Tail(tasks), "unlink", Arg)
             /\ Op = "relink" => \A k : ~Holds(Tail(tasks), "putBack", k)
             /\ Op = "relink" => \A name \in Names :
                   Holds(Tail(tasks), "restore", [name |-> name, of |-> FormulaOf(Arg.keg)])
             /\ Op = "clear" => Holds(Tail(tasks), "restore", Arg) /\ Tail(tasks) # <<>>
  <2>1. Ordered(tasks)
    BY <1>5 DEF ControlInv
  <2> QED
    BY <1>1, <2>1, OrderedTail, OrderedHead DEF Op, Arg
<1> QED
  BY <1>2, <1>3, <1>4, <1>5 DEF NextCall

-----------------------------------------------------------------------------
(* The calls of loops, of the end of a committed removal and of rollback.  *)

\* A sequence over a set is one over a larger set.
LEMMA Wider == ASSUME NEW S, NEW T, S \subseteq T, NEW s \in Seq(S) PROVE s \in Seq(T)
OBVIOUS

\* A sequence after another.
LEMMA JoinFacts ==
    ASSUME NEW S, NEW s \in Seq(S), NEW t \in Seq(S), NEW u, u = s \o t
    PROVE  /\ u \in Seq(S) /\ Len(u) = Len(s) + Len(t) /\ Len(s) \in Nat /\ Len(t) \in Nat
           /\ \A i \in 1 .. Len(s) : i \in 1 .. Len(u) /\ u[i] = s[i]
           /\ \A i \in 1 .. Len(t) : Len(s) + i \in 1 .. Len(u) /\ u[Len(s) + i] = t[i]
           /\ \A p \in 1 .. Len(u) :
                 \/ p \in 1 .. Len(s) /\ u[p] = s[p]
                 \/ p > Len(s) /\ p - Len(s) \in 1 .. Len(t) /\ u[p] = t[p - Len(s)]
<1>1. /\ u \in Seq(S) /\ Len(u) = Len(s) + Len(t) /\ Len(s) \in Nat /\ Len(t) \in Nat
      /\ \A i \in 1 .. Len(s) : u[i] = s[i]
      /\ \A i \in 1 .. Len(t) : u[Len(s) + i] = t[i]
  OBVIOUS
<1>2. ASSUME NEW p \in 1 .. Len(u), p \notin 1 .. Len(s)
      PROVE  p > Len(s) /\ p - Len(s) \in 1 .. Len(t) /\ u[p] = t[p - Len(s)]
  <2>1. p - Len(s) \in 1 .. Len(t) /\ p = Len(s) + (p - Len(s)) /\ p > Len(s)
    <3>1. p \in Nat /\ p >= 1 /\ p <= Len(s) + Len(t) /\ ~(p <= Len(s))
      BY <1>1, <1>2
    <3> QED BY ONLY <1>1, <3>1
  <2> QED BY <1>1, <2>1
<1> QED BY <1>1, <1>2

\* The calls of two sequences, one after the other.
LEMMA JoinHolds ==
    ASSUME NEW S, NEW s \in Seq(S), NEW t \in Seq(S), NEW op, NEW arg
    PROVE  Holds(s \o t, op, arg) <=> Holds(s, op, arg) \/ Holds(t, op, arg)
<1> DEFINE u == s \o t
<1>1. /\ \A i \in 1 .. Len(s) : i \in 1 .. Len(u) /\ u[i] = s[i]
      /\ \A i \in 1 .. Len(t) : Len(s) + i \in 1 .. Len(u) /\ u[Len(s) + i] = t[i]
      /\ \A p \in 1 .. Len(u) :
            \/ p \in 1 .. Len(s) /\ u[p] = s[p]
            \/ p > Len(s) /\ p - Len(s) \in 1 .. Len(t) /\ u[p] = t[p - Len(s)]
  <2>1. u = s \o t
    OBVIOUS
  <2> HIDE DEF u
  <2> QED BY ONLY <2>1, s \in Seq(S), t \in Seq(S), JoinFacts
<1> HIDE DEF u
<1>2. ASSUME Holds(u, op, arg) PROVE Holds(s, op, arg) \/ Holds(t, op, arg)
  <2>1. PICK p \in 1 .. Len(u) : u[p] = [op |-> op, arg |-> arg]
    BY <1>2 DEF Holds
  <2>2. CASE p \in 1 .. Len(s) /\ u[p] = s[p]
    BY <2>1, <2>2 DEF Holds
  <2>3. CASE p - Len(s) \in 1 .. Len(t) /\ u[p] = t[p - Len(s)]
    BY <2>1, <2>3 DEF Holds
  <2> QED BY <1>1, <2>2, <2>3
<1>3. ASSUME Holds(s, op, arg) PROVE Holds(u, op, arg)
  BY <1>1, <1>3 DEF Holds
<1>4. ASSUME Holds(t, op, arg) PROVE Holds(u, op, arg)
  <2>1. PICK p \in 1 .. Len(t) : t[p] = [op |-> op, arg |-> arg]
    BY <1>4 DEF Holds
  <2>2. Len(s) + p \in 1 .. Len(u) /\ u[Len(s) + p] = [op |-> op, arg |-> arg]
    BY <1>1, <2>1
  <2> QED BY <2>2 DEF Holds
<1> QED BY <1>2, <1>3, <1>4 DEF u

\* An element of a sequence.
In(s, x) == \E i \in 1 .. Len(s) : s[i] = x

\* Reversing keeps the elements.
LEMMA ReverseFacts ==
    ASSUME NEW S, NEW s \in Seq(S), NEW r, r = Reverse(s)
    PROVE  /\ r \in Seq(S) /\ Len(r) = Len(s)
           /\ \A x : In(r, x) <=> In(s, x)
<1>1. Len(s) \in Nat /\ \A i \in 1 .. Len(s) : s[i] \in S
  OBVIOUS
<1>2. \A i \in 1 .. Len(s) : Len(s) - i + 1 \in 1 .. Len(s) /\ Len(s) - (Len(s) - i + 1) + 1 = i
  BY <1>1
<1>3. /\ r = [i \in 1 .. Len(s) |-> s[Len(s) - i + 1]]
      /\ \A i \in 1 .. Len(s) : s[Len(s) - i + 1] \in S
  BY <1>1, <1>2 DEF Reverse
<1>4. r \in Seq(S) /\ Len(r) = Len(s)
  BY <1>1, <1>3
<1>5. \A i \in 1 .. Len(s) : r[i] = s[Len(s) - i + 1]
  BY <1>3
<1>6. ASSUME NEW x, NEW i \in 1 .. Len(r), r[i] = x PROVE \E j \in 1 .. Len(s) : s[j] = x
  BY <1>2, <1>4, <1>5, <1>6
<1>7. ASSUME NEW x, NEW j \in 1 .. Len(s), s[j] = x PROVE \E i \in 1 .. Len(r) : r[i] = x
  <2>1. r[Len(s) - j + 1] = s[Len(s) - (Len(s) - j + 1) + 1]
    BY <1>2, <1>5
  <2> QED BY <1>2, <1>4, <1>7, <2>1
<1> QED BY <1>4, <1>6, <1>7 DEF In

\* A loop whose body is one call.
LEMMA EachCallFacts ==
    ASSUME NEW S, NEW s \in Seq(S), NEW op
    PROVE  /\ CallEach(op, s) \in Seq([op : {op}, arg : S])
           /\ Len(CallEach(op, s)) = Len(s)
           /\ \A i \in 1 .. Len(s) : CallEach(op, s)[i] = [op |-> op, arg |-> s[i]]
           /\ \A o, a : Holds(CallEach(op, s), o, a) <=>
                           o = op /\ In(s, a)
<1> DEFINE c == CallEach(op, s)
<1>1. Len(s) \in Nat /\ \A i \in 1 .. Len(s) : s[i] \in S
  OBVIOUS
<1>2. c = [i \in 1 .. Len(s) |-> [op |-> op, arg |-> s[i]]]
  BY DEF CallEach
<1>3. c \in Seq([op : {op}, arg : S]) /\ Len(c) = Len(s)
  BY <1>1, <1>2
<1>4. \A i \in 1 .. Len(s) : c[i] = [op |-> op, arg |-> s[i]]
  BY <1>2
<1> HIDE DEF c
<1>5. \A o, a : Holds(c, o, a) <=> o = op /\ In(s, a)
  <2> TAKE o, a
  <2>1. \A i \in 1 .. Len(s) : c[i] = [op |-> o, arg |-> a] <=> (op = o /\ s[i] = a)
    <3> TAKE i \in 1 .. Len(s)
    <3>1. c[i] = [op |-> op, arg |-> s[i]]
      BY <1>4
    <3>2. [op |-> op, arg |-> s[i]] = [op |-> o, arg |-> a] <=> (op = o /\ s[i] = a)
      <4>1. [op |-> op, arg |-> s[i]].op = op /\ [op |-> op, arg |-> s[i]].arg = s[i]
            /\ [op |-> o, arg |-> a].op = o /\ [op |-> o, arg |-> a].arg = a
        OBVIOUS
      <4> QED BY <4>1
    <3> QED BY <3>1, <3>2
  <2> QED BY <1>3, <2>1 DEF Holds, In
<1> QED BY <1>3, <1>4, <1>5 DEF c

\* The calls of a flattened sequence.
LEMMA FlatHolds ==
    ASSUME NEW S, NEW ss, NEW s, IsFlat(S, ss, s), NEW op, NEW arg
    PROVE  Holds(s, op, arg) <=> \E i \in 1 .. Len(ss) : Holds(ss[i], op, arg)
<1>1. /\ \A p \in 1 .. Len(s) : \E i \in 1 .. Len(ss) : \E a \in 1 .. Len(ss[i]) :
            s[p] = ss[i][a]
      /\ \A i \in 1 .. Len(ss) : \A a \in 1 .. Len(ss[i]) :
            \E p \in 1 .. Len(s) : s[p] = ss[i][a]
  BY DEF IsFlat
<1>2. ASSUME Holds(s, op, arg) PROVE \E i \in 1 .. Len(ss) : Holds(ss[i], op, arg)
  <2>1. PICK p \in 1 .. Len(s) : s[p] = [op |-> op, arg |-> arg]
    BY <1>2 DEF Holds
  <2> QED BY <1>1, <2>1 DEF Holds
<1>3. ASSUME NEW i \in 1 .. Len(ss), Holds(ss[i], op, arg) PROVE Holds(s, op, arg)
  <2>1. PICK a \in 1 .. Len(ss[i]) : ss[i][a] = [op |-> op, arg |-> arg]
    BY <1>3 DEF Holds
  <2>2. PICK p \in 1 .. Len(s) : s[p] = ss[i][a]
    BY <1>1
  <2> QED BY <2>1, <2>2 DEF Holds
<1> QED BY <1>2, <1>3

\* One call or none, before other calls.
LEMMA OneHolds == ASSUME NEW c, NEW op, NEW arg
                  PROVE  Holds(<<c>>, op, arg) <=> c = [op |-> op, arg |-> arg]
BY DEF Holds

\* What rollback has to do is what the journal says.
UndoOK(s) ==
    /\ s \in Seq(UndoCalls) /\ Ordered(s)
    /\ \A f : Holds(s, "makeRack", f) <=> f \in racked
    /\ \A k : Holds(s, "putBack", k) <=> Moved(k)
    /\ \A u : Holds(s, "relink", u) <=> \E i \in 1 .. Len(unlinked) : unlinked[i] = u
    /\ \A w : Holds(s, "clear", w) <=> w \in [name : Names, of : records]
    /\ \A w : Holds(s, "restore", w) <=> w \in [name : Names, of : records]

\* After the commit each moved keg is still to delete.
LEMMA CommitFacts ==
    RemovalInv => /\ CallEach("delete", staged) \in Seq(DeleteCalls)
                  /\ \A k : Holds(CallEach("delete", staged), "delete", k) <=> Moved(k)
<1> SUFFICES ASSUME RemovalInv
             PROVE  /\ CallEach("delete", staged) \in Seq(DeleteCalls)
                    /\ \A k : Holds(CallEach("delete", staged), "delete", k) <=> Moved(k)
  OBVIOUS
<1>1. staged \in Seq(Kegs)
  BY DEF RemovalInv, ControlInv, TypeOK
<1>2. /\ CallEach("delete", staged) \in Seq([op : {"delete"}, arg : Kegs])
      /\ \A k : Holds(CallEach("delete", staged), "delete", k) <=> In(staged, k)
  BY ONLY <1>1, EachCallFacts
<1> QED BY <1>2 DEF DeleteCalls, Moved, In

\* A symlink is restored after it is cleared.
Followed(s) ==
    \A p \in 1 .. Len(s) : s[p].op = "clear" =>
       \E q \in p + 1 .. Len(s) : s[q] = [op |-> "restore", arg |-> s[p].arg]

\* This holds of joined sequences,
LEMMA JoinFollowed ==
    ASSUME NEW S, NEW s \in Seq(S), NEW t \in Seq(S), Followed(s), Followed(t)
    PROVE  Followed(s \o t)
<1> DEFINE u == s \o t
<1>1. /\ Len(u) = Len(s) + Len(t) /\ Len(s) \in Nat /\ Len(t) \in Nat
      /\ \A i \in 1 .. Len(s) : i \in 1 .. Len(u) /\ u[i] = s[i]
      /\ \A i \in 1 .. Len(t) : Len(s) + i \in 1 .. Len(u) /\ u[Len(s) + i] = t[i]
      /\ \A p \in 1 .. Len(u) :
            \/ p \in 1 .. Len(s) /\ u[p] = s[p]
            \/ p > Len(s) /\ p - Len(s) \in 1 .. Len(t) /\ u[p] = t[p - Len(s)]
  <2>1. u = s \o t
    OBVIOUS
  <2> HIDE DEF u
  <2> QED BY ONLY <2>1, s \in Seq(S), t \in Seq(S), JoinFacts
<1> HIDE DEF u
<1>2. ASSUME NEW p \in 1 .. Len(u), u[p].op = "clear"
      PROVE  \E q \in p + 1 .. Len(u) : u[q] = [op |-> "restore", arg |-> u[p].arg]
  <2>1. CASE p \in 1 .. Len(s) /\ u[p] = s[p]
    <3>1. PICK q \in p + 1 .. Len(s) : s[q] = [op |-> "restore", arg |-> s[p].arg]
      BY <1>2, <2>1 DEF Followed
    <3>2. q \in 1 .. Len(s) /\ q \in p + 1 .. Len(u)
      BY <1>1, <3>1
    <3> QED BY <1>1, <2>1, <3>1, <3>2
  <2>2. CASE p > Len(s) /\ p - Len(s) \in 1 .. Len(t) /\ u[p] = t[p - Len(s)]
    <3>1. PICK q \in (p - Len(s)) + 1 .. Len(t) :
             t[q] = [op |-> "restore", arg |-> t[p - Len(s)].arg]
      BY <1>2, <2>2 DEF Followed
    <3>2. q \in 1 .. Len(t) /\ Len(s) + q \in p + 1 .. Len(u)
      BY <1>1, <2>2, <3>1
    <3>3. u[Len(s) + q] = [op |-> "restore", arg |-> u[p].arg]
      BY <1>1, <2>2, <3>1, <3>2
    <3> QED BY <3>2, <3>3
  <2> QED BY <1>1, <2>1, <2>2
<1> QED BY <1>2 DEF Followed, u

\* and of flattened ones.
LEMMA FlatFollowed ==
    ASSUME NEW S, NEW ss, NEW s, IsFlat(S, ss, s), \A i \in 1 .. Len(ss) : Followed(ss[i])
    PROVE  Followed(s)
<1> SUFFICES ASSUME NEW p \in 1 .. Len(s), s[p].op = "clear"
             PROVE  \E q \in p + 1 .. Len(s) : s[q] = [op |-> "restore", arg |-> s[p].arg]
  BY DEF Followed
<1>1. PICK i \in 1 .. Len(ss) : \E a \in 1 .. Len(ss[i]) :
         /\ s[p] = ss[i][a]
         /\ \A b \in a + 1 .. Len(ss[i]) : \E q \in p + 1 .. Len(s) : s[q] = ss[i][b]
  BY DEF IsFlat
<1>2. PICK a \in 1 .. Len(ss[i]) :
         /\ s[p] = ss[i][a]
         /\ \A b \in a + 1 .. Len(ss[i]) : \E q \in p + 1 .. Len(s) : s[q] = ss[i][b]
  BY <1>1
<1>3. PICK b \in a + 1 .. Len(ss[i]) : ss[i][b] = [op |-> "restore", arg |-> ss[i][a].arg]
  BY <1>2 DEF Followed
<1> QED BY <1>2, <1>3

\* restore_symlink of one name, and of the three.
RestoreCalls == [op : {"clear", "restore"}, arg : [name : Names, of : Formulae]]

\* restore_symlink of one name.
LEMMA RestoreFacts ==
    ASSUME NEW name \in Names, NEW f \in Formulae
    PROVE  /\ Restore(name, f) \in Seq(RestoreCalls) /\ Followed(Restore(name, f))
           /\ \A op, arg : Holds(Restore(name, f), op, arg) <=>
                 op \in {"clear", "restore"} /\ arg = [name |-> name, of |-> f]
<1> DEFINE w == [name |-> name, of |-> f]
           c == [op |-> "clear", arg |-> w]
           r == [op |-> "restore", arg |-> w]
           s == <<c, r>>
<1>1. Restore(name, f) = s
  BY DEF Restore
<1>2. w \in [name : Names, of : Formulae]
  OBVIOUS
<1> HIDE DEF w
<1>3. c \in RestoreCalls /\ r \in RestoreCalls /\ c.op = "clear" /\ r.op = "restore"
      /\ c.arg = w /\ r.arg = w
  BY <1>2 DEF RestoreCalls
<1>4. \A op, arg : /\ c = [op |-> op, arg |-> arg] <=> op = "clear" /\ arg = w
                   /\ r = [op |-> op, arg |-> arg] <=> op = "restore" /\ arg = w
  <2> TAKE op, arg
  <2>1. [op |-> op, arg |-> arg].op = op /\ [op |-> op, arg |-> arg].arg = arg
    OBVIOUS
  <2> QED BY <1>3, <2>1
<1>5. r = [op |-> "restore", arg |-> c.arg] /\ c.op # r.op
  BY <1>3
<1> HIDE DEF c, r
<1>6. s \in Seq(RestoreCalls) /\ Len(s) = 2 /\ s[1] = c /\ s[2] = r
  BY <1>3
<1> HIDE DEF s
<1>7. Followed(s)
  <2>1. \A p \in 1 .. Len(s) : p = 1 \/ p = 2
    BY <1>6
  <2>2. 2 \in 1 + 1 .. Len(s)
    BY <1>6
  <2> QED BY <1>3, <1>5, <1>6, <2>1, <2>2 DEF Followed
<1>8. \A op, arg : Holds(s, op, arg) <=> op \in {"clear", "restore"} /\ arg = w
  <2> TAKE op, arg
  <2>1. 1 \in 1 .. Len(s) /\ 2 \in 1 .. Len(s) /\ \A p \in 1 .. Len(s) : p = 1 \/ p = 2
    BY <1>6
  <2>2. Holds(s, op, arg) <=> s[1] = [op |-> op, arg |-> arg] \/ s[2] = [op |-> op, arg |-> arg]
    BY <2>1 DEF Holds
  <2>3. /\ s[1] = [op |-> op, arg |-> arg] <=> op = "clear" /\ arg = w
        /\ s[2] = [op |-> op, arg |-> arg] <=> op = "restore" /\ arg = w
    BY <1>4, <1>6
  <2>4. op \in {"clear", "restore"} <=> op = "clear" \/ op = "restore"
    OBVIOUS
  <2> QED BY <2>2, <2>3, <2>4, Zenon
<1> QED BY <1>1, <1>6, <1>7, <1>8 DEF w

\* The calls of restore_symlink for the three names of a formula.
Restores(f, op, arg) ==
    op \in {"clear", "restore"} /\ \E name \in Names : arg = [name |-> name, of |-> f]

\* The three symlinks of a formula.
LEMMA RestoreTasksFacts ==
    ASSUME NEW f \in Formulae
    PROVE  /\ RestoreTasks(f) \in Seq(RestoreCalls) /\ Followed(RestoreTasks(f))
           /\ \A op, arg : Holds(RestoreTasks(f), op, arg) <=> Restores(f, op, arg)
<1> DEFINE a == Restore("pin", f)
           b == Restore("linked", f)
           c == Restore("opt", f)
           ab == a \o b
<1>1. /\ a \in Seq(RestoreCalls) /\ Followed(a)
      /\ b \in Seq(RestoreCalls) /\ Followed(b)
      /\ c \in Seq(RestoreCalls) /\ Followed(c)
  BY RestoreFacts DEF Names
<1>2. \A op, arg :
         /\ Holds(a, op, arg) <=> op \in {"clear", "restore"} /\ arg = [name |-> "pin", of |-> f]
         /\ Holds(b, op, arg) <=> op \in {"clear", "restore"} /\ arg = [name |-> "linked", of |-> f]
         /\ Holds(c, op, arg) <=> op \in {"clear", "restore"} /\ arg = [name |-> "opt", of |-> f]
  BY RestoreFacts DEF Names
<1>3. RestoreTasks(f) = ab \o c
  BY DEF RestoreTasks
<1> HIDE DEF a, b, c
<1>4. ab \in Seq(RestoreCalls) /\ Followed(ab)
      /\ \A op, arg : Holds(ab, op, arg) <=> Holds(a, op, arg) \/ Holds(b, op, arg)
  BY <1>1, JoinFollowed, JoinHolds
<1> HIDE DEF ab
<1>5. ab \o c \in Seq(RestoreCalls) /\ Followed(ab \o c)
      /\ \A op, arg : Holds(ab \o c, op, arg) <=> Holds(ab, op, arg) \/ Holds(c, op, arg)
  BY <1>1, <1>4, JoinFollowed, JoinHolds
<1>6. \A op, arg : Holds(ab \o c, op, arg) <=> Restores(f, op, arg)
  BY <1>2, <1>4, <1>5 DEF Names, Restores
<1> QED BY <1>3, <1>5, <1>6

\* The calls of rollback.
LEMMA UndoFacts == RemovalInv => UndoOK(UndoTasks)
<1> SUFFICES ASSUME RemovalInv PROVE UndoOK(UndoTasks)
  OBVIOUS
<1> DEFINE rs == Recorded
           a == CallEach("makeRack", Chosen(rs, racked))
           b == CallEach("putBack", Reverse(staged))
           c == CallEach("relink", Reverse(unlinked))
           ss == [i \in 1 .. Len(rs) |-> RestoreTasks(rs[i])]
           d == FlattenSeq(ss)
           ab == a \o b
           abc == ab \o c
           u == abc \o d
<1>0. /\ records \subseteq Formulae /\ racked \subseteq records
      /\ staged \in Seq(Kegs) /\ unlinked \in Seq(Unlinkings)
      /\ Order \in Seq(Formulae) /\ \A f \in Formulae : \E i \in 1 .. Len(Order) : Order[i] = f
      /\ \A i \in 1 .. Len(unlinked) : FormulaOf(unlinked[i].keg) \in records
  <2>1. /\ records \subseteq Formulae /\ racked \subseteq records
        /\ staged \in Seq(Kegs) /\ unlinked \in Seq(Unlinkings)
        /\ \A i \in 1 .. Len(unlinked) : FormulaOf(unlinked[i].keg) \in records
    BY DEF RemovalInv, TypeOK, ControlInv, RackInv, RecordInv
  <2>2. Order \in Seq(Formulae) /\ \A f \in Formulae : \E i \in 1 .. Len(Order) : Order[i] = f
    BY RemovalAssumption DEF Formulae
  <2> QED BY <2>1, <2>2
<1>1. /\ rs \in Seq(Formulae)
      /\ \A f : In(rs, f) <=> f \in records
  <2> DEFINE o == Chosen(Order, records)
  <2>1. /\ o \in Seq(Formulae)
        /\ \A p \in 1 .. Len(o) : o[p] \in records
        /\ \A i \in 1 .. Len(Order) : Order[i] \in records => \E p \in 1 .. Len(o) : o[p] = Order[i]
    <3>1. IsChosen(Formulae, Order, records, o)
      BY <1>0, ChosenFacts
    <3> QED BY <3>1 DEF IsChosen
  <2>2. rs = Reverse(o)
    BY DEF Recorded
  <2> HIDE DEF o, rs
  <2>3. /\ rs \in Seq(Formulae)
        /\ \A x : In(rs, x) <=> In(o, x)
    <3>1. o \in Seq(Formulae)
      BY <2>1
    <3> QED BY ONLY <3>1, <2>2, ReverseFacts
  <2>4. \A f : In(o, f) <=> f \in records
    BY <1>0, <2>1 DEF In
  <2> QED BY <2>3, <2>4
<1>2. /\ a \in Seq(UndoCalls)
      /\ \A op, arg : Holds(a, op, arg) <=> op = "makeRack" /\ arg \in racked
  <2> DEFINE o == Chosen(rs, racked)
  <2> HIDE DEF rs
  <2>1. /\ o \in Seq(Formulae)
        /\ \A p \in 1 .. Len(o) : o[p] \in racked
        /\ \A i \in 1 .. Len(rs) : rs[i] \in racked => \E p \in 1 .. Len(o) : o[p] = rs[i]
    <3>1. IsChosen(Formulae, rs, racked, o)
      BY <1>1, ChosenFacts
    <3> QED BY <3>1 DEF IsChosen
  <2>2. \A f : In(o, f) <=> f \in racked
    BY <1>0, <1>1, <2>1 DEF In
  <2>3. a = CallEach("makeRack", o)
    OBVIOUS
  <2> HIDE DEF o, a
  <2>4. /\ a \in Seq([op : {"makeRack"}, arg : Formulae])
        /\ \A op, arg : Holds(a, op, arg) <=>
              op = "makeRack" /\ In(o, arg)
    BY ONLY <2>1, <2>3, EachCallFacts
  <2>5. [op : {"makeRack"}, arg : Formulae] \subseteq UndoCalls
    BY DEF UndoCalls
  <2>6. a \in Seq(UndoCalls)
    BY <2>4, <2>5, Wider
  <2> QED BY <2>2, <2>4, <2>6
<1>3. /\ b \in Seq(UndoCalls)
      /\ \A op, arg : Holds(b, op, arg) <=> op = "putBack" /\ Moved(arg)
  <2> DEFINE o == Reverse(staged)
  <2>1. /\ o \in Seq(Kegs)
        /\ \A x : In(o, x) <=> In(staged, x)
    <3>1. staged \in Seq(Kegs) /\ o = Reverse(staged)
      BY <1>0
    <3> HIDE DEF o
    <3> QED BY ONLY <3>1, ReverseFacts
  <2>3. b = CallEach("putBack", o)
    OBVIOUS
  <2> HIDE DEF o, b
  <2>4. /\ b \in Seq([op : {"putBack"}, arg : Kegs])
        /\ \A op, arg : Holds(b, op, arg) <=>
              op = "putBack" /\ In(o, arg)
    BY ONLY <2>1, <2>3, EachCallFacts
  <2>5. [op : {"putBack"}, arg : Kegs] \subseteq UndoCalls
    BY DEF UndoCalls
  <2>6. b \in Seq(UndoCalls)
    BY <2>4, <2>5, Wider
  <2> QED BY <2>1, <2>4, <2>6 DEF Moved, In
<1>4. /\ c \in Seq(UndoCalls)
      /\ \A op, arg : Holds(c, op, arg) <=>
            op = "relink" /\ In(unlinked, arg)
  <2> DEFINE o == Reverse(unlinked)
  <2>1. /\ o \in Seq(Unlinkings)
        /\ \A x : In(o, x) <=> In(unlinked, x)
    <3>1. unlinked \in Seq(Unlinkings) /\ o = Reverse(unlinked)
      BY <1>0
    <3> HIDE DEF o
    <3> QED BY ONLY <3>1, ReverseFacts
  <2>3. c = CallEach("relink", o)
    OBVIOUS
  <2> HIDE DEF o, c
  <2>4. /\ c \in Seq([op : {"relink"}, arg : Unlinkings])
        /\ \A op, arg : Holds(c, op, arg) <=>
              op = "relink" /\ In(o, arg)
    BY ONLY <2>1, <2>3, EachCallFacts
  <2>5. [op : {"relink"}, arg : Unlinkings] \subseteq UndoCalls
    BY DEF UndoCalls
  <2>6. c \in Seq(UndoCalls)
    BY <2>4, <2>5, Wider
  <2> QED BY <2>1, <2>4, <2>6
<1>5. d = Each(Recorded, RestoreTasks)
  BY DEF Each
<1>6. /\ d \in Seq(UndoCalls) /\ Followed(d)
      /\ \A op, arg : Holds(d, op, arg) <=>
            op \in {"clear", "restore"} /\ arg \in [name : Names, of : records]
  <2>0. Len(rs) \in Nat /\ \A i \in 1 .. Len(rs) : rs[i] \in Formulae
    BY <1>1
  <2> HIDE DEF rs
  <2>1. /\ ss \in Seq(Seq(RestoreCalls)) /\ Len(ss) = Len(rs)
        /\ \A i \in 1 .. Len(ss) : ss[i] = RestoreTasks(rs[i])
    BY <2>0, RestoreTasksFacts
  <2>2. \A i \in 1 .. Len(ss) : /\ Followed(ss[i])
           /\ \A op, arg : Holds(ss[i], op, arg) <=> Restores(rs[i], op, arg)
    BY <2>0, <2>1, RestoreTasksFacts
  <2> HIDE DEF ss
  <2>3. IsFlat(RestoreCalls, ss, d)
    <3>1. IsFlat(RestoreCalls, ss, FlattenSeq(ss))
      BY ONLY <2>1, FlatElements
    <3> QED BY <3>1
  <2> HIDE DEF d
  <2>4. d \in Seq(UndoCalls)
    <3>1. d \in Seq(RestoreCalls)
      BY <2>3 DEF IsFlat
    <3>2. RestoreCalls \subseteq UndoCalls
      BY DEF RestoreCalls, UndoCalls
    <3> QED BY <3>1, <3>2
  <2>5. Followed(d)
    BY ONLY <2>2, <2>3, FlatFollowed
  <2>6. \A op, arg : Holds(d, op, arg) <=> \E i \in 1 .. Len(ss) : Holds(ss[i], op, arg)
    BY ONLY <2>3, FlatHolds
  <2>7. \A arg : arg \in [name : Names, of : records] <=>
                    \E i \in 1 .. Len(ss) : \E name \in Names : arg = [name |-> name, of |-> rs[i]]
    <3>1. \A arg : arg \in [name : Names, of : records] <=>
                    \E f \in records : \E name \in Names : arg = [name |-> name, of |-> f]
      OBVIOUS
    <3> QED BY <1>1, <2>1, <3>1 DEF In
  <2>8. \A op, arg : Holds(d, op, arg) <=>
            op \in {"clear", "restore"} /\ arg \in [name : Names, of : records]
    <3> TAKE op, arg
    <3>1. Holds(d, op, arg) <=> \E i \in 1 .. Len(ss) : Restores(rs[i], op, arg)
      BY <2>2, <2>6
    <3>2. arg \in [name : Names, of : records] <=>
                    \E i \in 1 .. Len(ss) : \E name \in Names : arg = [name |-> name, of |-> rs[i]]
      BY <2>7
    <3>3. (\E i \in 1 .. Len(ss) : Restores(rs[i], op, arg)) <=>
             /\ op \in {"clear", "restore"}
             /\ \E i \in 1 .. Len(ss) : \E name \in Names : arg = [name |-> name, of |-> rs[i]]
      BY Zenon DEF Restores
    <3> QED BY <3>1, <3>2, <3>3, Zenon
  <2> QED BY <2>4, <2>5, <2>8
<1>7. UndoTasks = u
  BY <1>5 DEF UndoTasks
<1> HIDE DEF a, b, c, d, rs, ss
<1>8. /\ ab \in Seq(UndoCalls)
      /\ \A op, arg : Holds(ab, op, arg) <=> Holds(a, op, arg) \/ Holds(b, op, arg)
  BY <1>2, <1>3, JoinHolds
<1> HIDE DEF ab
<1>9. /\ abc \in Seq(UndoCalls)
      /\ \A op, arg : Holds(abc, op, arg) <=> Holds(ab, op, arg) \/ Holds(c, op, arg)
  BY <1>4, <1>8, JoinHolds
<1> HIDE DEF abc
<1>10. /\ u \in Seq(UndoCalls)
       /\ \A op, arg : Holds(u, op, arg) <=> Holds(abc, op, arg) \/ Holds(d, op, arg)
  BY <1>6, <1>9, JoinHolds
<1>11. Ordered(u)
  <2>1. \A p, q \in 1 .. Len(u) : u[q].op # "unlink"
    <3>1. \A q \in 1 .. Len(u) : u[q] \in UndoCalls
      BY <1>10
    <3> QED BY <3>1 DEF UndoCalls
  <2>j. /\ Len(u) = Len(abc) + Len(d) /\ Len(abc) \in Nat /\ Len(d) \in Nat
        /\ \A i \in 1 .. Len(d) : Len(abc) + i \in 1 .. Len(u) /\ u[Len(abc) + i] = d[i]
        /\ \A p \in 1 .. Len(u) :
              \/ p \in 1 .. Len(abc) /\ u[p] = abc[p]
              \/ p > Len(abc) /\ p - Len(abc) \in 1 .. Len(d) /\ u[p] = d[p - Len(abc)]
    <3>1. u = abc \o d /\ abc \in Seq(UndoCalls) /\ d \in Seq(UndoCalls)
      BY <1>6, <1>9
    <3> HIDE DEF u
    <3> QED BY ONLY <3>1, JoinFacts
  <2>k. /\ Len(ab) \in Nat
        /\ \A p \in 1 .. Len(abc) :
              \/ p \in 1 .. Len(ab) /\ abc[p] = ab[p]
              \/ p > Len(ab) /\ p - Len(ab) \in 1 .. Len(c) /\ abc[p] = c[p - Len(ab)]
    <3>1. abc = ab \o c /\ ab \in Seq(UndoCalls) /\ c \in Seq(UndoCalls)
      BY <1>4, <1>8 DEF abc
    <3> QED BY ONLY <3>1, JoinFacts
  <2> HIDE DEF u
  <2>m. /\ \A p \in 1 .. Len(ab) : ab[p].op # "relink" /\ ab[p].op # "clear"
        /\ \A p \in 1 .. Len(c) : c[p].op = "relink" /\ In(unlinked, c[p].arg)
        /\ \A p \in 1 .. Len(d) : d[p].op \in {"clear", "restore"}
    <3>1. \A s \in Seq(UndoCalls) : \A p \in 1 .. Len(s) : Holds(s, s[p].op, s[p].arg)
      <4> TAKE s \in Seq(UndoCalls)
      <4> TAKE p \in 1 .. Len(s)
      <4>1. s[p] \in UndoCalls
        OBVIOUS
      <4>2. s[p] = [op |-> s[p].op, arg |-> s[p].arg]
        BY <4>1 DEF UndoCalls
      <4> QED BY <4>2 DEF Holds
    <3>2. \A p \in 1 .. Len(ab) : ab[p].op = "makeRack" \/ ab[p].op = "putBack"
      BY <1>2, <1>3, <1>8, <3>1
    <3>3. \A p \in 1 .. Len(c) : c[p].op = "relink" /\ In(unlinked, c[p].arg)
      BY <1>4, <3>1
    <3>4. \A p \in 1 .. Len(d) : d[p].op \in {"clear", "restore"}
      BY <1>6, <3>1
    <3> QED BY <3>2, <3>3, <3>4
  <2>2. \A p, q \in 1 .. Len(u) : p < q /\ u[q].op = "putBack" => u[p].op # "relink"
    <3> TAKE p, q \in 1 .. Len(u)
    <3> HAVE p < q /\ u[q].op = "putBack"
    <3>1. q \in 1 .. Len(abc) /\ u[q] = abc[q]
      BY <2>j, <2>m
    <3>2. q \in 1 .. Len(ab)
      BY <2>k, <2>m, <3>1
    <3>3. p \in 1 .. Len(ab) /\ p \in 1 .. Len(abc) /\ ~(p > Len(abc)) /\ ~(p > Len(ab))
      BY <2>j, <2>k, <3>1, <3>2
    <3>4. u[p] = abc[p] /\ abc[p] = ab[p]
      BY <2>j, <2>k, <3>3
    <3> QED BY <2>m, <3>3, <3>4
  <2>3. \A p \in 1 .. Len(u) : u[p].op = "clear" =>
           \E q \in p + 1 .. Len(u) : u[q] = [op |-> "restore", arg |-> u[p].arg]
    <3> TAKE p \in 1 .. Len(u)
    <3> HAVE u[p].op = "clear"
    <3>0. \A i \in 1 .. Len(abc) : abc[i].op # "clear"
      BY <2>k, <2>m
    <3>1. p > Len(abc) /\ p - Len(abc) \in 1 .. Len(d) /\ u[p] = d[p - Len(abc)]
      BY <2>j, <3>0
    <3>2. PICK q \in (p - Len(abc)) + 1 .. Len(d) :
             d[q] = [op |-> "restore", arg |-> d[p - Len(abc)].arg]
      BY <1>6, <3>1 DEF Followed
    <3>3. q \in 1 .. Len(d) /\ Len(abc) + q \in p + 1 .. Len(u)
      BY <2>j, <3>1, <3>2
    <3>4. u[Len(abc) + q] = [op |-> "restore", arg |-> u[p].arg]
      BY <2>j, <3>1, <3>2, <3>3
    <3> QED BY <3>3, <3>4
  <2>4. \A p \in 1 .. Len(u) : u[p].op = "relink" => \A name \in Names :
           \E q \in p + 1 .. Len(u) :
              u[q] = [op |-> "restore", arg |-> [name |-> name, of |-> FormulaOf(u[p].arg.keg)]]
    <3> TAKE p \in 1 .. Len(u)
    <3> HAVE u[p].op = "relink"
    <3> TAKE name \in Names
    <3>1. p \in 1 .. Len(abc) /\ u[p] = abc[p]
      BY <2>j, <2>m
    <3>2. p - Len(ab) \in 1 .. Len(c) /\ abc[p] = c[p - Len(ab)]
      BY <2>k, <2>m, <3>1
    <3>3. In(unlinked, u[p].arg)
      BY <2>m, <3>1, <3>2
    <3>4. FormulaOf(u[p].arg.keg) \in records
      BY <1>0, <3>3 DEF In
    <3> DEFINE w == [name |-> name, of |-> FormulaOf(u[p].arg.keg)]
    <3>5. w \in [name : Names, of : records]
      BY <3>4
    <3> HIDE DEF w
    <3>6. Holds(d, "restore", w)
      BY <1>6, <3>5
    <3>7. PICK q \in 1 .. Len(d) : d[q] = [op |-> "restore", arg |-> w]
      BY <3>6 DEF Holds
    <3>8. Len(abc) + q \in p + 1 .. Len(u) /\ u[Len(abc) + q] = d[q]
      BY <2>j, <3>1
    <3> QED BY <3>7, <3>8 DEF w
  <2> QED BY <2>1, <2>2, <2>3, <2>4 DEF Ordered
<1> HIDE DEF u
<1>12. UndoOK(u)
  <2>1. \A op, arg : Holds(u, op, arg) <=>
           \/ op = "makeRack" /\ arg \in racked
           \/ op = "putBack" /\ Moved(arg)
           \/ op = "relink" /\ In(unlinked, arg)
           \/ op \in {"clear", "restore"} /\ arg \in [name : Names, of : records]
    BY <1>2, <1>3, <1>4, <1>6, <1>8, <1>9, <1>10
  <2> QED BY <1>10, <1>11, <2>1 DEF UndoOK, In
<1> QED BY <1>7, <1>12

-----------------------------------------------------------------------------
(* The calls of apply.                                                     *)

\* A keg is unlinked at most once, and before it is moved.
FirstUnlinks(s) ==
    \A p, q \in 1 .. Len(s) : p < q /\ s[q].op = "unlink" =>
          s[p].op \notin {"unlink", "move"} \/ s[p].arg # s[q].arg

\* Calls of apply, in an order it may make them.
ApplyOK(s) == s \in Seq(ApplyCalls) /\ FirstUnlinks(s)

\* No keg is unlinked in t that was unlinked or moved in s.
Apart(s, t) ==
    \A k : Holds(t, "unlink", k) => ~Holds(s, "unlink", k) /\ ~Holds(s, "move", k)

\* Each element is a call.
LEMMA CallsHold ==
    ASSUME NEW s \in Seq(ApplyCalls)
    PROVE  \A p \in 1 .. Len(s) : Holds(s, s[p].op, s[p].arg)
<1> TAKE p \in 1 .. Len(s)
<1>1. s[p] \in ApplyCalls
  OBVIOUS
<1>2. s[p] = [op |-> s[p].op, arg |-> s[p].arg]
  BY <1>1 DEF ApplyCalls
<1> QED BY <1>2 DEF Holds

\* The order of joined calls,
LEMMA JoinFirst ==
    ASSUME NEW s, ApplyOK(s), NEW t, ApplyOK(t), Apart(s, t)
    PROVE  ApplyOK(s \o t)
<1> DEFINE u == s \o t
<1>0. s \in Seq(ApplyCalls) /\ t \in Seq(ApplyCalls)
  BY DEF ApplyOK
<1>1. /\ u \in Seq(ApplyCalls) /\ Len(s) \in Nat
      /\ \A p \in 1 .. Len(u) :
            \/ p \in 1 .. Len(s) /\ u[p] = s[p]
            \/ p > Len(s) /\ p - Len(s) \in 1 .. Len(t) /\ u[p] = t[p - Len(s)]
  <2>1. u = s \o t
    OBVIOUS
  <2> HIDE DEF u
  <2> QED BY ONLY <1>0, <2>1, JoinFacts
<1> HIDE DEF u
<1>2. /\ \A p \in 1 .. Len(s) : Holds(s, s[p].op, s[p].arg)
      /\ \A p \in 1 .. Len(t) : Holds(t, t[p].op, t[p].arg)
  BY <1>0, CallsHold
<1>3. ASSUME NEW p \in 1 .. Len(u), NEW q \in 1 .. Len(u), p < q, u[q].op = "unlink",
             u[p].op \in {"unlink", "move"}
      PROVE  u[p].arg # u[q].arg
  <2>1. CASE q \in 1 .. Len(s) /\ u[q] = s[q]
    <3>1. p \in 1 .. Len(s) /\ u[p] = s[p]
      BY <1>1, <1>3, <2>1
    <3> QED BY <1>3, <2>1, <3>1 DEF ApplyOK, FirstUnlinks
  <2>2. CASE q > Len(s) /\ q - Len(s) \in 1 .. Len(t) /\ u[q] = t[q - Len(s)]
    <3>1. Holds(t, "unlink", u[q].arg)
      BY <1>2, <1>3, <2>2
    <3>2. CASE p \in 1 .. Len(s) /\ u[p] = s[p]
      <4>1. Holds(s, u[p].op, u[p].arg)
        BY <1>2, <3>2
      <4> QED BY <1>3, <3>1, <4>1 DEF Apart
    <3>3. CASE p > Len(s) /\ p - Len(s) \in 1 .. Len(t) /\ u[p] = t[p - Len(s)]
      <4>1. p - Len(s) < q - Len(s)
        BY <1>1, <1>3, <2>2, <3>3
      <4> QED BY <1>3, <2>2, <3>3, <4>1 DEF ApplyOK, FirstUnlinks
    <3> QED BY <1>1, <3>2, <3>3
  <2> QED BY <1>1, <2>1, <2>2
<1> QED BY <1>1, <1>3 DEF ApplyOK, FirstUnlinks, u

\* and of flattened ones.
LEMMA FlatFirst ==
    ASSUME NEW ss, NEW s, IsFlat(ApplyCalls, ss, s),
           \A i \in 1 .. Len(ss) : ApplyOK(ss[i]),
           \A i, j \in 1 .. Len(ss) : i < j => Apart(ss[i], ss[j])
    PROVE  ApplyOK(s)
<1>1. s \in Seq(ApplyCalls)
  BY DEF IsFlat
<1>2. \A i \in 1 .. Len(ss) : \A p \in 1 .. Len(ss[i]) : Holds(ss[i], ss[i][p].op, ss[i][p].arg)
  BY CallsHold DEF ApplyOK
<1>3. ASSUME NEW p \in 1 .. Len(s), NEW q \in 1 .. Len(s), p < q, s[q].op = "unlink",
             s[p].op \in {"unlink", "move"}
      PROVE  s[p].arg # s[q].arg
  <2>1. PICK i \in 1 .. Len(ss), j \in 1 .. Len(ss) :
           \E a \in 1 .. Len(ss[i]), b \in 1 .. Len(ss[j]) :
              s[p] = ss[i][a] /\ s[q] = ss[j][b] /\ (i < j \/ (i = j /\ a < b))
    BY <1>3 DEF IsFlat
  <2>2. PICK a \in 1 .. Len(ss[i]), b \in 1 .. Len(ss[j]) :
              s[p] = ss[i][a] /\ s[q] = ss[j][b] /\ (i < j \/ (i = j /\ a < b))
    BY <2>1
  <2>3. CASE i < j
    <3>1. Holds(ss[i], s[p].op, s[p].arg) /\ Holds(ss[j], s[q].op, s[q].arg)
      BY <1>2, <2>2
    <3> QED BY <1>3, <2>3, <3>1 DEF Apart
  <2>4. CASE i = j /\ a < b
    BY <1>3, <2>2, <2>4 DEF ApplyOK, FirstUnlinks
  <2> QED BY <2>2, <2>3, <2>4
<1> QED BY <1>1, <1>3 DEF ApplyOK, FirstUnlinks

\* A single call.
LEMMA OneCall ==
    ASSUME NEW c \in ApplyCalls, NEW s, s = <<c>>
    PROVE  /\ ApplyOK(s)
           /\ \A op, arg : Holds(s, op, arg) <=> c = [op |-> op, arg |-> arg]
<1>1. s \in Seq(ApplyCalls) /\ Len(s) = 1
  OBVIOUS
<1>2. \A p, q \in 1 .. Len(s) : ~(p < q)
  BY <1>1
<1> QED BY <1>1, <1>2, OneHolds DEF ApplyOK, FirstUnlinks

\* One call or none.
LEMMA MaybeCall ==
    ASSUME NEW c \in ApplyCalls, NEW P \in BOOLEAN, NEW s, s = IF P THEN <<c>> ELSE <<>>
    PROVE  /\ ApplyOK(s)
           /\ \A op, arg : Holds(s, op, arg) <=> P /\ c = [op |-> op, arg |-> arg]
<1>1. CASE P
  <2>1. s = <<c>>
    BY <1>1
  <2> QED BY <1>1, <2>1, OneCall
<1>2. CASE ~P
  <2>1. s = <<>> /\ s \in Seq(ApplyCalls) /\ Len(s) = 0
    BY <1>2
  <2> QED BY <1>2, <2>1, HoldsNone DEF ApplyOK, FirstUnlinks
<1> QED BY <1>1, <1>2

\* Two calls are the same if their parts are.
LEMMA CallIs ==
    ASSUME NEW o, NEW x, NEW op, NEW arg
    PROVE  [op |-> o, arg |-> x] = [op |-> op, arg |-> arg] <=> o = op /\ x = arg
<1>1. /\ [op |-> o, arg |-> x].op = o /\ [op |-> o, arg |-> x].arg = x
      /\ [op |-> op, arg |-> arg].op = op /\ [op |-> op, arg |-> arg].arg = arg
  OBVIOUS
<1> QED BY <1>1

\* The calls of one keg.
KegHolds(k, op, arg) ==
    \/ op = "move" /\ arg = k
    \/ op = "unlink" /\ arg = k /\ record["linked"][FormulaOf(k)] = k
    \/ op = "opt" /\ arg = FormulaOf(k) /\ record["opt"][FormulaOf(k)] = k

\* The body of apply's loop over one keg makes just those.
LEMMA KegCalls ==
    ASSUME NEW k \in Kegs
    PROVE  /\ ApplyOK(KegTasks(k))
           /\ \A op, arg : Holds(KegTasks(k), op, arg) <=> KegHolds(k, op, arg)
<1> DEFINE f == FormulaOf(k)
           cu == [op |-> "unlink", arg |-> k]
           co == [op |-> "opt", arg |-> f]
           cm == [op |-> "move", arg |-> k]
           P == record["linked"][f] = k
           Q == record["opt"][f] = k
           a == IF P THEN <<cu>> ELSE <<>>
           b == IF Q THEN <<co>> ELSE <<>>
           c == <<cm>>
           ab == a \o b
           u == ab \o c
<1>0. f \in Formulae
  BY Belongs
<1>1. KegTasks(k) = u
  BY DEF KegTasks
<1>2. cu \in ApplyCalls /\ co \in ApplyCalls /\ cm \in ApplyCalls
  BY <1>0 DEF ApplyCalls, Names
<1>3. P \in BOOLEAN /\ Q \in BOOLEAN
  OBVIOUS
<1>4. \A op, arg : /\ cu = [op |-> op, arg |-> arg] <=> op = "unlink" /\ arg = k
                   /\ co = [op |-> op, arg |-> arg] <=> op = "opt" /\ arg = f
                   /\ cm = [op |-> op, arg |-> arg] <=> op = "move" /\ arg = k
  BY CallIs
<1>5. /\ ApplyOK(a) /\ \A op, arg : Holds(a, op, arg) <=> P /\ cu = [op |-> op, arg |-> arg]
      /\ ApplyOK(b) /\ \A op, arg : Holds(b, op, arg) <=> Q /\ co = [op |-> op, arg |-> arg]
      /\ ApplyOK(c) /\ \A op, arg : Holds(c, op, arg) <=> cm = [op |-> op, arg |-> arg]
  <2>1. a = (IF P THEN <<cu>> ELSE <<>>) /\ b = (IF Q THEN <<co>> ELSE <<>>)
        /\ c = <<cm>>
    OBVIOUS
  <2> HIDE DEF a, b, c, cu, co, cm, P, Q
  <2>2. ApplyOK(a) /\ \A op, arg : Holds(a, op, arg) <=> P /\ cu = [op |-> op, arg |-> arg]
    BY ONLY <1>2, <1>3, <2>1, MaybeCall
  <2>3. ApplyOK(b) /\ \A op, arg : Holds(b, op, arg) <=> Q /\ co = [op |-> op, arg |-> arg]
    BY ONLY <1>2, <1>3, <2>1, MaybeCall
  <2>4. ApplyOK(c) /\ \A op, arg : Holds(c, op, arg) <=> cm = [op |-> op, arg |-> arg]
    BY ONLY <1>2, <2>1, OneCall
  <2> QED BY <2>2, <2>3, <2>4
<1>6. \A op, arg : /\ Holds(a, op, arg) <=> op = "unlink" /\ arg = k /\ P
                   /\ Holds(b, op, arg) <=> op = "opt" /\ arg = f /\ Q
                   /\ Holds(c, op, arg) <=> op = "move" /\ arg = k
  BY <1>4, <1>5
<1> HIDE DEF a, b, c
<1>7. /\ ApplyOK(ab) /\ \A op, arg : Holds(ab, op, arg) <=> Holds(a, op, arg) \/ Holds(b, op, arg)
  BY <1>5, <1>6, JoinFirst, JoinHolds DEF Apart, ApplyOK
<1> HIDE DEF ab
<1>8. /\ ApplyOK(u) /\ \A op, arg : Holds(u, op, arg) <=> Holds(ab, op, arg) \/ Holds(c, op, arg)
  BY <1>5, <1>6, <1>7, JoinFirst, JoinHolds DEF Apart, ApplyOK
<1>9. \A op, arg : Holds(u, op, arg) <=> KegHolds(k, op, arg)
  BY <1>6, <1>7, <1>8 DEF KegHolds
<1> QED BY <1>1, <1>8, <1>9

-----------------------------------------------------------------------------
(* What a removal begins with.                                             *)

\* What a removal finds when it begins.
AtRest ==
    /\ place \in [Kegs -> {"rack", "gone"}]
    /\ record \in [Names -> [Formulae -> Kegs \cup {NoKeg}]]
    /\ \A f \in Formulae : \A name \in Names : record[name][f] # NoKeg =>
          /\ record[name][f] \in KegsOf(f) /\ place[record[name][f]] = "rack"
          /\ record[name][f] = record["opt"][f]
    /\ \A f \in Formulae : f \in rackDir <=> \E k \in KegsOf(f) : place[k] = "rack"
    /\ rackDir \subseteq Formulae

\* Before a removal the disk is at rest.
LEMMA RestFacts == RemovalInv /\ result = "none" => AtRest
<1> SUFFICES ASSUME RemovalInv, result = "none" PROVE AtRest
  OBVIOUS
<1>1. /\ before.place = place /\ before.record = record /\ before.rackDir = rackDir /\ PastInv
  <2>1. before = [place |-> place, rackDir |-> rackDir, link |-> link, record |-> record]
    BY DEF RemovalInv, ControlInv
  <2> QED BY <2>1 DEF RemovalInv
<1>2. record \in [Names -> [Formulae -> Kegs \cup {NoKeg}]]
  BY DEF RemovalInv, TypeOK
<1> QED BY <1>1, <1>2 DEF PastInv, AtRest

\* InstalledSeq lists the installed kegs of a formula, once each.
LEMMA InstalledFacts ==
    ASSUME NEW f \in Formulae, NEW c, c = InstalledSeq(f)
    PROVE  /\ c \in Seq(Kegs)
           /\ \A k : In(c, k) <=> k \in KegsOf(f) /\ k \in Kegs /\ place[k] = "rack"
           /\ \A p, q \in 1 .. Len(c) : p # q => c[p] # c[q]
<1>1. /\ Racks[f] \in Seq(Kegs) /\ IsInjective(Racks[f])
      /\ \A k : k \in KegsOf(f) <=> \E i \in 1 .. Len(Racks[f]) : Racks[f][i] = k
  BY RemovalAssumption DEF KegsOf
<1>2. c = Chosen(Racks[f], Installed)
  BY DEF InstalledSeq
<1>3. /\ c \in Seq(Kegs)
      /\ \A p \in 1 .. Len(c) : c[p] \in Installed /\ \E i \in 1 .. Len(Racks[f]) : c[p] = Racks[f][i]
      /\ \A i \in 1 .. Len(Racks[f]) :
            Racks[f][i] \in Installed => \E p \in 1 .. Len(c) : c[p] = Racks[f][i]
      /\ \A p, q \in 1 .. Len(c) : p # q => c[p] # c[q]
  <2> DEFINE r == Racks[f]
             Y == Installed
  <2>1. r \in Seq(Kegs) /\ IsInjective(r) /\ c = Chosen(r, Y)
    BY <1>1, <1>2
  <2> HIDE DEF r, Y
  <2>2. IsChosen(Kegs, r, Y, c)
    BY <2>1, ChosenFacts
  <2> QED BY <2>1, <2>2 DEF IsChosen, r, Y
<1>4. \A k : k \in Installed <=> k \in Kegs /\ place[k] = "rack"
  BY DEF Installed
<1>5. ASSUME NEW k, In(c, k) PROVE k \in KegsOf(f) /\ k \in Kegs /\ place[k] = "rack"
  BY <1>1, <1>3, <1>4, <1>5 DEF In
<1>6. ASSUME NEW k, k \in KegsOf(f), k \in Kegs, place[k] = "rack" PROVE In(c, k)
  <2>1. PICK i \in 1 .. Len(Racks[f]) : Racks[f][i] = k
    BY <1>1, <1>6
  <2> QED BY <1>3, <1>4, <1>6, <2>1 DEF In
<1> QED BY <1>3, <1>5, <1>6

\* The kegs of one formula to remove: installed ones, once each; all of them just
\* if the rack is to go.
TargetsOK(f, force, t) ==
    /\ t \in Seq(Kegs) /\ \A p, q \in 1 .. Len(t) : p # q => t[p] # t[q]
    /\ \E k : In(t, k)
    /\ \A k : In(t, k) => k \in KegsOf(f) /\ k \in Kegs /\ place[k] = "rack"
    /\ RemoveRack(f, force) => \A k \in KegsOf(f) : place[k] = "rack" => In(t, k)
    /\ ~RemoveRack(f, force) =>
          ~force /\ \E k \in KegsOf(f) : place[k] = "rack" /\ ~In(t, k)

\* What targets() returns is so, with and without --force.
LEMMA TargetsFacts ==
    ASSUME AtRest, NEW f \in Formulae, NEW force \in BOOLEAN, InstalledSeq(f) # <<>>,
           NEW t, t = Targets(f, force)
    PROVE  TargetsOK(f, force, t)
<1> DEFINE c == InstalledSeq(f)
<1>0. c = InstalledSeq(f)
  OBVIOUS
<1> HIDE DEF c
<1>1. /\ c \in Seq(Kegs)
      /\ \A k : In(c, k) <=> k \in KegsOf(f) /\ k \in Kegs /\ place[k] = "rack"
      /\ \A p, q \in 1 .. Len(c) : p # q => c[p] # c[q]
  BY ONLY <1>0, f \in Formulae, InstalledFacts
<1>2. Len(c) \in Nat \ {0} /\ Len(c) \in 1 .. Len(c) /\ 1 \in 1 .. Len(c)
  BY <1>0, <1>1
<1>k. \A k \in KegsOf(f) : k \in Kegs
  BY Belongs
<1>3. CASE force
  <2>1. t = c
    BY <1>0, <1>3 DEF Targets
  <2>2. RemoveRack(f, force)
    BY <1>3 DEF RemoveRack, Targets
  <2>3. In(c, c[1])
    BY <1>2 DEF In
  <2> QED BY <1>1, <1>k, <2>1, <2>2, <2>3 DEF TargetsOK
<1>4. CASE ~force
  <2> DEFINE one == IF record["linked"][f] # NoKeg THEN record["linked"][f]
                    ELSE IF record["opt"][f] # NoKeg THEN record["opt"][f]
                    ELSE c[Len(c)]
  <2>1. t = <<one>>
    BY <1>0, <1>4 DEF Targets
  <2>2. one \in KegsOf(f) /\ one \in Kegs /\ place[one] = "rack"
    <3>1. record["linked"][f] # NoKeg =>
             record["linked"][f] \in KegsOf(f) /\ place[record["linked"][f]] = "rack"
      BY DEF AtRest, Names
    <3>2. record["opt"][f] # NoKeg =>
             record["opt"][f] \in KegsOf(f) /\ place[record["opt"][f]] = "rack"
      BY DEF AtRest, Names
    <3>3. In(c, c[Len(c)])
      BY <1>2 DEF In
    <3> QED BY <1>1, <1>k, <3>1, <3>2, <3>3
  <2> HIDE DEF one
  <2>3. t \in Seq(Kegs) /\ Len(t) = 1 /\ t[1] = one
    BY <2>1, <2>2
  <2>4. \A k : In(t, k) <=> k = one
    BY <2>3 DEF In
  <2>5. RemoveRack(f, force) <=> Len(c) = 1
    BY <1>0, <1>4 DEF RemoveRack, Targets
  <2>6. ASSUME Len(c) = 1, NEW k \in KegsOf(f), place[k] = "rack" PROVE k = one
    <3>1. In(c, k) /\ In(c, one)
      BY <1>1, <1>k, <2>2, <2>6
    <3> QED BY <2>6, <3>1 DEF In
  <2>7. ASSUME Len(c) # 1 PROVE \E k \in KegsOf(f) : place[k] = "rack" /\ k # one
    <3>0. 2 \in 1 .. Len(c)
      <4>1. \A n \in Nat : n # 0 /\ n # 1 => 2 \in 1 .. n
        OBVIOUS
      <4> QED BY <1>2, <2>7, <4>1
    <3>1. 2 \in 1 .. Len(c) /\ c[1] # c[2]
      BY <1>1, <1>2, <3>0
    <3>2. In(c, c[1]) /\ In(c, c[2])
      BY <1>2, <3>1 DEF In
    <3> QED BY <1>1, <3>1, <3>2
  <2>8. \A p, q \in 1 .. Len(t) : p = q
    BY <2>3
  <2> QED BY <1>4, <2>2, <2>3, <2>4, <2>5, <2>6, <2>7, <2>8 DEF TargetsOK
<1> QED BY <1>3, <1>4

\* The calls of one formula.
FormulaHolds(f, force, op, arg) ==
    \/ \E k : In(Targets(f, force), k) /\ KegHolds(k, op, arg)
    \/ RemoveRack(f, force) /\ op \in Names \cup {"rack"} /\ arg = f

\* The body of apply's loop over one formula makes just those.
LEMMA FormulaCalls ==
    ASSUME AtRest, NEW f \in Formulae, NEW force \in BOOLEAN, InstalledSeq(f) # <<>>
    PROVE  /\ ApplyOK(FormulaTasks(f, force))
           /\ \A op, arg : Holds(FormulaTasks(f, force), op, arg) <=>
                              FormulaHolds(f, force, op, arg)
<1> DEFINE t == Targets(f, force)
           R == RemoveRack(f, force)
           cp == [op |-> "pin", arg |-> f]
           co == [op |-> "opt", arg |-> f]
           cl == [op |-> "linked", arg |-> f]
           cr == [op |-> "rack", arg |-> f]
           a == IF R THEN <<cp>> ELSE <<>>
           ss == [i \in 1 .. Len(t) |-> KegTasks(t[i])]
           b == FlattenSeq(ss)
           c == IF R THEN <<co, cl, cr>> ELSE <<>>
           ab == a \o b
           u == ab \o c
<1>t. TargetsOK(f, force, t)
  BY TargetsFacts
<1>1. FormulaTasks(f, force) = u
  BY DEF FormulaTasks, Each
<1>2. cp \in ApplyCalls /\ co \in ApplyCalls /\ cl \in ApplyCalls /\ cr \in ApplyCalls
  BY DEF ApplyCalls, Names
<1>3. \A op, arg : /\ cp = [op |-> op, arg |-> arg] <=> op = "pin" /\ arg = f
                   /\ co = [op |-> op, arg |-> arg] <=> op = "opt" /\ arg = f
                   /\ cl = [op |-> op, arg |-> arg] <=> op = "linked" /\ arg = f
                   /\ cr = [op |-> op, arg |-> arg] <=> op = "rack" /\ arg = f
  BY CallIs
<1>r. R \in BOOLEAN
  BY DEF RemoveRack
<1>o. cp.op = "pin" /\ co.op = "opt" /\ cl.op = "linked" /\ cr.op = "rack"
  OBVIOUS
<1> HIDE DEF t, R, cp, co, cl, cr
<1>4. /\ ApplyOK(a) /\ \A op, arg : Holds(a, op, arg) <=> R /\ op = "pin" /\ arg = f
  <2>1. a = IF R THEN <<cp>> ELSE <<>>
    OBVIOUS
  <2> HIDE DEF a
  <2>2. ApplyOK(a) /\ \A op, arg : Holds(a, op, arg) <=> R /\ cp = [op |-> op, arg |-> arg]
    BY ONLY <1>2, <1>r, <2>1, MaybeCall
  <2> QED BY <1>3, <2>2
<1>5. /\ ApplyOK(c)
      /\ \A op, arg : Holds(c, op, arg) <=> R /\ op \in {"opt", "linked", "rack"} /\ arg = f
  <2>1. CASE R
    <3>1. c \in Seq(ApplyCalls) /\ Len(c) = 3 /\ c[1] = co /\ c[2] = cl /\ c[3] = cr
      BY <1>2, <2>1
    <3>2. \A p \in 1 .. Len(c) : p = 1 \/ p = 2 \/ p = 3
      BY <3>1
    <3>3. 1 \in 1 .. Len(c) /\ 2 \in 1 .. Len(c) /\ 3 \in 1 .. Len(c)
      BY <3>1
    <3> HIDE DEF c
    <3>4. \A p \in 1 .. Len(c) : c[p].op # "unlink"
      BY <1>o, <3>1, <3>2
    <3>5. ASSUME NEW op, NEW arg
          PROVE  Holds(c, op, arg) <=> R /\ op \in {"opt", "linked", "rack"} /\ arg = f
      <4>1. Holds(c, op, arg) <=> \/ co = [op |-> op, arg |-> arg]
                                  \/ cl = [op |-> op, arg |-> arg]
                                  \/ cr = [op |-> op, arg |-> arg]
        BY <3>1, <3>2, <3>3 DEF Holds
      <4> QED BY <1>3, <2>1, <4>1
    <3> QED BY <3>1, <3>4, <3>5 DEF ApplyOK, FirstUnlinks
  <2>2. CASE ~R
    <3>1. c = <<>> /\ c \in Seq(ApplyCalls) /\ Len(c) = 0
      BY <2>2
    <3> HIDE DEF c
    <3> QED BY <2>2, <3>1, HoldsNone DEF ApplyOK, FirstUnlinks
  <2> QED BY <2>1, <2>2
<1>6. /\ ApplyOK(b)
      /\ \A op, arg : Holds(b, op, arg) <=> \E k : In(t, k) /\ KegHolds(k, op, arg)
  <2>1. /\ t \in Seq(Kegs) /\ Len(t) \in Nat /\ \A i \in 1 .. Len(t) : t[i] \in Kegs
        /\ \A p, q \in 1 .. Len(t) : p # q => t[p] # t[q]
    BY <1>t DEF TargetsOK
  <2>2. \A i \in 1 .. Len(t) : /\ ApplyOK(KegTasks(t[i])) /\ KegTasks(t[i]) \in Seq(ApplyCalls)
           /\ \A op, arg : Holds(KegTasks(t[i]), op, arg) <=> KegHolds(t[i], op, arg)
    BY <2>1, KegCalls DEF ApplyOK
  <2>3. /\ ss \in Seq(Seq(ApplyCalls)) /\ Len(ss) = Len(t)
        /\ \A i \in 1 .. Len(ss) : ss[i] = KegTasks(t[i])
    BY <2>1, <2>2
  <2> HIDE DEF ss
  <2>4. IsFlat(ApplyCalls, ss, b)
    <3>1. IsFlat(ApplyCalls, ss, FlattenSeq(ss))
      BY ONLY <2>3, FlatElements
    <3> QED BY <3>1
  <2> HIDE DEF b
  <2>5. \A i \in 1 .. Len(ss) : ApplyOK(ss[i])
    BY <2>2, <2>3
  <2>6. \A i, j \in 1 .. Len(ss) : i < j => Apart(ss[i], ss[j])
    <3> TAKE i, j \in 1 .. Len(ss)
    <3> HAVE i < j
    <3>1. t[i] # t[j]
      BY <2>1, <2>3
    <3>2. \A op, arg : /\ Holds(ss[i], op, arg) <=> KegHolds(t[i], op, arg)
                       /\ Holds(ss[j], op, arg) <=> KegHolds(t[j], op, arg)
      BY <2>2, <2>3
    <3> QED BY <3>1, <3>2 DEF Apart, KegHolds
  <2>7. ApplyOK(b)
    BY ONLY <2>4, <2>5, <2>6, FlatFirst
  <2>8. ASSUME NEW op, NEW arg
        PROVE  Holds(b, op, arg) <=> \E k : In(t, k) /\ KegHolds(k, op, arg)
    <3>1. Holds(b, op, arg) <=> \E i \in 1 .. Len(ss) : Holds(ss[i], op, arg)
      BY ONLY <2>4, FlatHolds
    <3>2. \A i \in 1 .. Len(ss) : Holds(ss[i], op, arg) <=> KegHolds(t[i], op, arg)
      BY <2>2, <2>3
    <3>3. (\E k : In(t, k) /\ KegHolds(k, op, arg))
             <=> \E i \in 1 .. Len(ss) : KegHolds(t[i], op, arg)
      BY <2>3 DEF In
    <3> QED BY ONLY <3>1, <3>2, <3>3
  <2> QED BY <2>7, <2>8
<1> HIDE DEF a, b, c
<1>7. ApplyOK(ab) /\ \A op, arg : Holds(ab, op, arg) <=> Holds(a, op, arg) \/ Holds(b, op, arg)
  BY <1>4, <1>6, JoinFirst, JoinHolds DEF Apart, ApplyOK
<1> HIDE DEF ab
<1>8. ApplyOK(u) /\ \A op, arg : Holds(u, op, arg) <=> Holds(ab, op, arg) \/ Holds(c, op, arg)
  BY <1>5, <1>7, JoinFirst, JoinHolds DEF Apart, ApplyOK
<1> HIDE DEF u
<1>9. \A op, arg : Holds(u, op, arg) <=> FormulaHolds(f, force, op, arg)
  <2> TAKE op, arg
  <2> DEFINE K == \E k : In(t, k) /\ KegHolds(k, op, arg)
  <2>1. Holds(u, op, arg) <=>
           (R /\ op = "pin" /\ arg = f) \/ K \/ (R /\ op \in {"opt", "linked", "rack"} /\ arg = f)
    BY <1>4, <1>5, <1>6, <1>7, <1>8
  <2>2. FormulaHolds(f, force, op, arg) <=> K \/ (R /\ op \in Names \cup {"rack"} /\ arg = f)
    BY DEF FormulaHolds, t, R
  <2> HIDE DEF K
  <2> QED BY <2>1, <2>2 DEF Names
<1> QED BY <1>1, <1>8, <1>9

\* What a removal of the kegs T may have planned.
PlanOK(what, calls, T) ==
    /\ ApplyOK(calls) /\ what \in {"uninstall", "upgrade"}
    /\ \A k : Holds(calls, "move", k) <=> k \in T
    /\ \A k \in T : k \in Kegs /\ place[k] = "rack"
    /\ \A k \in Kegs : Holds(calls, "unlink", k) =>
          k \in T /\ what = "uninstall" /\ record["linked"][FormulaOf(k)] = k
    /\ \A k \in T : record["linked"][FormulaOf(k)] = k => Holds(calls, "unlink", k)
    /\ \A name \in Names, f \in Formulae : Holds(calls, name, f) =>
          /\ f \in {FormulaOf(k) : k \in T} /\ what = "uninstall"
          /\ record[name][f] \in T \cup {NoKeg}
    /\ \A f \in Formulae : Holds(calls, "rack", f) =>
          f \in {FormulaOf(k) : k \in T} /\ what = "uninstall" /\ f \in rackDir
    /\ \A name \in Names, f \in Formulae : record[name][f] \in T =>
          \/ Holds(calls, name, f)
          \/ name = "linked" /\ Holds(calls, "unlink", record[name][f])
    /\ what = "uninstall" => \A f \in rackDir :
          Holds(calls, "rack", f) \/ \E k \in KegsOf(f) \ T : place[k] = "rack"
    /\ what = "upgrade" => \A name \in Names, f \in Formulae : record[name][f] \notin T

\* What BeginUninstall may be asked for.
Asking(names, force) ==
    /\ names \in SUBSET {f \in Formulae : InstalledSeq(f) # <<>>} /\ force \in BOOLEAN
    /\ force \/ \A f \in names : record["pin"][f] = NoKeg

\* The calls of the loop over all formulae.
LEMMA WholeCalls ==
    ASSUME AtRest, NEW names, NEW force, Asking(names, force),
           NEW o, o = Chosen(Order, names),
           NEW ss, ss = [i \in 1 .. Len(o) |-> FormulaTasks(o[i], force)],
           NEW s, s = FlattenSeq(ss)
    PROVE  /\ ApplyOK(s)
           /\ \A op, arg : Holds(s, op, arg) <=>
                              \E f \in names : FormulaHolds(f, force, op, arg)
<1>1. /\ Order \in Seq(Formulae) /\ IsInjective(Order)
      /\ \A f \in Formulae : \E i \in 1 .. Len(Order) : Order[i] = f
  BY RemovalAssumption DEF Formulae
<1>2. /\ o \in Seq(Formulae)
      /\ \A p \in 1 .. Len(o) : o[p] \in names /\ \E i \in 1 .. Len(Order) : o[p] = Order[i]
      /\ \A i \in 1 .. Len(Order) : Order[i] \in names => \E p \in 1 .. Len(o) : o[p] = Order[i]
      /\ IsInjective(Order) => \A p, q \in 1 .. Len(o) : p # q => o[p] # o[q]
  <2> DEFINE r == Order
  <2>1. r \in Seq(Formulae) /\ o = Chosen(r, names)
    BY <1>1
  <2> HIDE DEF r
  <2>2. IsChosen(Formulae, r, names, o)
    BY <2>1, ChosenFacts
  <2> QED BY <2>2 DEF IsChosen, r
<1>3. \A f : In(o, f) <=> f \in names
  <2>1. ASSUME NEW f, In(o, f) PROVE f \in names
    BY <1>2, <2>1 DEF In
  <2>2. ASSUME NEW f \in names PROVE In(o, f)
    <3>1. f \in Formulae
      BY DEF Asking
    <3>2. PICK i \in 1 .. Len(Order) : Order[i] = f
      BY <1>1, <3>1
    <3>3. \E p \in 1 .. Len(o) : o[p] = f
      BY <1>2, <3>2
    <3> QED BY <3>3 DEF In
  <2> QED BY <2>1, <2>2
<1>4. \A f \in names : /\ f \in Formulae /\ InstalledSeq(f) # <<>>
         /\ TargetsOK(f, force, Targets(f, force))
         /\ ApplyOK(FormulaTasks(f, force)) /\ FormulaTasks(f, force) \in Seq(ApplyCalls)
         /\ \A op, arg : Holds(FormulaTasks(f, force), op, arg) <=>
                              FormulaHolds(f, force, op, arg)
  <2> TAKE f \in names
  <2>1. f \in Formulae /\ InstalledSeq(f) # <<>> /\ force \in BOOLEAN
    BY DEF Asking
  <2>2. TargetsOK(f, force, Targets(f, force))
    BY <2>1, TargetsFacts
  <2>3. /\ ApplyOK(FormulaTasks(f, force))
        /\ \A op, arg : Holds(FormulaTasks(f, force), op, arg) <=>
                              FormulaHolds(f, force, op, arg)
    BY ONLY <2>1, AtRest, FormulaCalls
  <2> QED BY <2>1, <2>2, <2>3 DEF ApplyOK
<1>5. Len(o) \in Nat /\ \A i \in 1 .. Len(o) : o[i] \in names
  BY <1>2
<1>6. /\ ss \in Seq(Seq(ApplyCalls)) /\ Len(ss) = Len(o)
      /\ \A i \in 1 .. Len(ss) : ss[i] = FormulaTasks(o[i], force)
  <2>1. \A i \in 1 .. Len(o) : FormulaTasks(o[i], force) \in Seq(ApplyCalls)
    BY <1>4, <1>5
  <2> QED BY <1>5, <2>1
<1>7. IsFlat(ApplyCalls, ss, s)
  <2>1. IsFlat(ApplyCalls, ss, FlattenSeq(ss))
    BY ONLY <1>6, FlatElements
  <2> QED BY <2>1
<1>8. \A i \in 1 .. Len(ss) : ApplyOK(ss[i])
  BY <1>4, <1>5, <1>6
<1>9. \A i, j \in 1 .. Len(ss) : i < j => Apart(ss[i], ss[j])
  <2> TAKE i, j \in 1 .. Len(ss)
  <2> HAVE i < j
  <2>1. o[i] # o[j] /\ o[i] \in names /\ o[j] \in names
    BY <1>1, <1>2, <1>5, <1>6
  <2>2. \A op, arg : /\ Holds(ss[i], op, arg) <=> FormulaHolds(o[i], force, op, arg)
                     /\ Holds(ss[j], op, arg) <=> FormulaHolds(o[j], force, op, arg)
    BY <1>4, <1>6, <2>1
  <2>3. \A f \in names : \A k :
           FormulaHolds(f, force, "unlink", k) \/ FormulaHolds(f, force, "move", k)
           => k \in KegsOf(f)
    BY <1>4 DEF FormulaHolds, KegHolds, TargetsOK, Names
  <2>4. KegsOf(o[i]) \cap KegsOf(o[j]) = {}
    BY <1>4, <2>1, RemovalAssumption
  <2> QED BY <2>1, <2>2, <2>3, <2>4 DEF Apart
<1>10. ApplyOK(s)
  BY ONLY <1>7, <1>8, <1>9, FlatFirst
<1>11. ASSUME NEW op, NEW arg
       PROVE  Holds(s, op, arg) <=> \E f \in names : FormulaHolds(f, force, op, arg)
  <2>1. Holds(s, op, arg) <=> \E i \in 1 .. Len(ss) : Holds(ss[i], op, arg)
    BY ONLY <1>7, FlatHolds
  <2>2. \A i \in 1 .. Len(ss) : Holds(ss[i], op, arg) <=> FormulaHolds(o[i], force, op, arg)
    BY <1>4, <1>5, <1>6
  <2>3. (\E f \in names : FormulaHolds(f, force, op, arg))
           <=> \E i \in 1 .. Len(ss) : FormulaHolds(o[i], force, op, arg)
    BY <1>3, <1>5, <1>6 DEF In
  <2> QED BY ONLY <2>1, <2>2, <2>3
<1> QED BY <1>10, <1>11

\* An uninstall plans what a removal may plan.
LEMMA WholePlan ==
    ASSUME AtRest, NEW names, NEW force, Asking(names, force),
           NEW s, ApplyOK(s),
           \A op, arg : Holds(s, op, arg) <=> \E f \in names : FormulaHolds(f, force, op, arg),
           NEW T, \A k : Holds(s, "move", k) <=> k \in T
    PROVE  PlanOK("uninstall", s, T)
<1>1. \A f \in names : /\ f \in Formulae /\ TargetsOK(f, force, Targets(f, force))
  <2> TAKE f \in names
  <2>1. f \in Formulae /\ InstalledSeq(f) # <<>> /\ force \in BOOLEAN
    BY DEF Asking
  <2> QED BY <2>1, TargetsFacts
<1> DEFINE t(f) == Targets(f, force)
           R(f) == RemoveRack(f, force)
<1>2. /\ \A k : Holds(s, "move", k) <=> \E f \in names : In(t(f), k)
      /\ \A k : Holds(s, "unlink", k) <=>
            \E f \in names : In(t(f), k) /\ record["linked"][FormulaOf(k)] = k
      /\ \A g : Holds(s, "opt", g) <=>
            \E f \in names : \/ R(f) /\ g = f
                             \/ \E k : /\ In(t(f), k) /\ g = FormulaOf(k)
                                       /\ record["opt"][FormulaOf(k)] = k
      /\ \A name \in {"linked", "pin", "rack"} : \A g :
            Holds(s, name, g) <=> g \in names /\ R(g)
  BY DEF FormulaHolds, KegHolds, Names
<1>3. /\ \A f \in names : \A k : In(t(f), k) =>
            k \in KegsOf(f) /\ k \in Kegs /\ place[k] = "rack" /\ FormulaOf(k) = f
      /\ \A f \in names : \E k : In(t(f), k)
      /\ \A f \in names : R(f) => \A k \in KegsOf(f) : place[k] = "rack" => In(t(f), k)
      /\ \A f \in names : ~R(f) => ~force /\ \E k \in KegsOf(f) : place[k] = "rack" /\ ~In(t(f), k)
  BY <1>1, Belongs DEF TargetsOK
<1> HIDE DEF t, R
<1>4. /\ \A k \in T : \E f \in names : In(t(f), k)
      /\ \A f \in names : \A k : In(t(f), k) => k \in T
  BY <1>2
<1>5. /\ \A f \in names : f \in Formulae /\ f \in {FormulaOf(k) : k \in T}
      /\ \A f \in names : \A k \in KegsOf(f) : k \in T => In(t(f), k)
  <2>1. ASSUME NEW f \in names PROVE f \in Formulae /\ f \in {FormulaOf(k) : k \in T}
    <3>1. PICK k : In(t(f), k)
      BY <1>3
    <3>2. k \in T /\ FormulaOf(k) = f
      BY <1>3, <1>4, <3>1
    <3> QED BY <1>1, <3>2
  <2>2. ASSUME NEW f \in names, NEW k \in KegsOf(f), k \in T PROVE In(t(f), k)
    <3>1. PICK g \in names : In(t(g), k)
      BY <1>4, <2>2
    <3>2. FormulaOf(k) = g /\ FormulaOf(k) = f
      BY <1>1, <1>3, <3>1, Belongs
    <3> QED BY <3>1, <3>2
  <2> QED BY <2>1, <2>2
<1>6. \A k \in T : k \in Kegs /\ place[k] = "rack" /\ FormulaOf(k) \in names
  BY <1>3, <1>4
<1>7. \A k \in Kegs : Holds(s, "unlink", k) => k \in T /\ record["linked"][FormulaOf(k)] = k
  BY <1>2, <1>4
<1>8. \A name \in Names, f \in Formulae : record[name][f] # NoKeg =>
            record[name][f] \in KegsOf(f) /\ place[record[name][f]] = "rack"
            /\ record[name][f] = record["opt"][f] /\ record[name][f] \in Kegs
            /\ FormulaOf(record[name][f]) = f
  BY Belongs DEF AtRest
<1>9. ASSUME NEW name \in Names, NEW g \in Formulae, Holds(s, name, g)
      PROVE  g \in {FormulaOf(k) : k \in T} /\ record[name][g] \in T \cup {NoKeg}
  <2>1. CASE g \in names /\ R(g)
    <3>1. record[name][g] # NoKeg => In(t(g), record[name][g])
      BY <1>3, <1>8, <2>1
    <3> QED BY <1>4, <1>5, <2>1, <3>1
  <2>2. CASE ~(g \in names /\ R(g))
    <3>1. name = "opt"
      BY <1>2, <1>9, <2>2 DEF Names
    <3>2. PICK f \in names : \E k : In(t(f), k) /\ g = FormulaOf(k) /\ record["opt"][FormulaOf(k)] = k
      BY <1>2, <1>9, <2>2, <3>1
    <3> QED BY <1>3, <1>4, <1>5, <3>1, <3>2
  <2> QED BY <2>1, <2>2
<1>10. ASSUME NEW g \in Formulae, Holds(s, "rack", g)
       PROVE  g \in {FormulaOf(k) : k \in T} /\ g \in rackDir
  <2>1. g \in names
    BY <1>2, <1>10
  <2>2. \E k : In(t(g), k) /\ k \in KegsOf(g) /\ place[k] = "rack"
    BY <1>3, <2>1
  <2> QED BY <1>5, <2>1, <2>2 DEF AtRest
<1>11. ASSUME NEW name \in Names, NEW g \in Formulae, record[name][g] \in T
       PROVE  \/ Holds(s, name, g)
              \/ name = "linked" /\ Holds(s, "unlink", record[name][g])
  <2>0. record[name][g] # NoKeg
    BY <1>6, <1>11, RemovalAssumption
  <2>1. g \in names
    BY <1>6, <1>8, <1>11, <2>0
  <2>2. In(t(g), record[name][g])
    BY <1>5, <1>8, <1>11, <2>0, <2>1
  <2>3. CASE name = "linked"
    BY <1>2, <1>8, <2>0, <2>1, <2>2, <2>3
  <2>4. CASE name = "opt"
    BY <1>2, <1>8, <2>0, <2>1, <2>2, <2>4
  <2>5. CASE name = "pin"
    <3>1. R(g)
      BY <1>3, <2>0, <2>1, <2>5 DEF Asking
    <3> QED BY <1>2, <2>1, <2>5, <3>1
  <2> QED BY <2>3, <2>4, <2>5 DEF Names
<1>12. ASSUME NEW f \in rackDir
       PROVE  Holds(s, "rack", f) \/ \E k \in KegsOf(f) \ T : place[k] = "rack"
  <2>0. f \in Formulae
    BY DEF AtRest
  <2>1. CASE f \notin names
    <3>1. PICK k \in KegsOf(f) : place[k] = "rack"
      BY <2>0 DEF AtRest
    <3>2. k \notin T
      BY <1>6, <2>0, <2>1, Belongs
    <3> QED BY <3>1, <3>2
  <2>2. CASE f \in names /\ R(f)
    BY <1>2, <2>2
  <2>3. CASE f \in names /\ ~R(f)
    BY <1>3, <1>5, <2>3
  <2> QED BY <2>1, <2>2, <2>3
<1>13. \A k \in T : record["linked"][FormulaOf(k)] = k => Holds(s, "unlink", k)
  BY <1>2, <1>4
<1> QED
  BY <1>6, <1>7, <1>9, <1>10, <1>11, <1>12, <1>13 DEF PlanOK

\* The plan of cleanup_replaced_kegs.
LEMMA CleanupPlanned ==
    ASSUME AtRest, NEW f \in Formulae, record["linked"][f] # NoKeg,
           NEW o, o = Chosen(Racks[f], Installed \ {record["linked"][f]}),
           NEW s, s = CallEach("move", o)
    PROVE  /\ ApplyOK(s)
           /\ \A T : (\A k : Holds(s, "move", k) <=> k \in T) => PlanOK("upgrade", s, T)
<1> DEFINE kept == record["linked"][f]
           Y == Installed \ {kept}
           r == Racks[f]
<1>0. /\ r \in Seq(Kegs) /\ o = Chosen(r, Y)
      /\ \A k : k \in KegsOf(f) <=> \E i \in 1 .. Len(r) : r[i] = k
      /\ \A k : k \in Y <=> k \in Kegs /\ place[k] = "rack" /\ k # kept
  BY RemovalAssumption DEF KegsOf, Installed
<1> HIDE DEF kept, Y, r
<1>1. /\ o \in Seq(Kegs)
      /\ \A p \in 1 .. Len(o) : o[p] \in Y /\ \E i \in 1 .. Len(r) : o[p] = r[i]
      /\ \A i \in 1 .. Len(r) : r[i] \in Y => \E p \in 1 .. Len(o) : o[p] = r[i]
      /\ IsInjective(r) => \A p, q \in 1 .. Len(o) : p # q => o[p] # o[q]
  <2>1. IsChosen(Kegs, r, Y, o)
    BY <1>0, ChosenFacts
  <2> QED BY <2>1 DEF IsChosen
<1>2. \A k : In(o, k) => k \in KegsOf(f) /\ k \in Kegs /\ place[k] = "rack" /\ k # kept
  BY <1>0, <1>1 DEF In
<1>3. /\ s \in Seq([op : {"move"}, arg : Kegs])
      /\ \A op, arg : Holds(s, op, arg) <=> op = "move" /\ In(o, arg)
  BY ONLY <1>1, s = CallEach("move", o), EachCallFacts
<1>4. ApplyOK(s)
  <2>1. [op : {"move"}, arg : Kegs] \subseteq ApplyCalls
    BY DEF ApplyCalls
  <2>2. s \in Seq(ApplyCalls)
    BY <1>3, <2>1, Wider
  <2>3. \A p \in 1 .. Len(s) : s[p].op = "move"
    <3> TAKE p \in 1 .. Len(s)
    <3>1. s[p] \in [op : {"move"}, arg : Kegs]
      <4>1. \A S : s \in Seq(S) => \A i \in 1 .. Len(s) : s[i] \in S
        OBVIOUS
      <4> QED BY <1>3, <4>1
    <3> QED BY <3>1
  <2>4. \A p \in 1 .. Len(s) : s[p].op # "unlink"
    BY <2>3
  <2> QED BY <2>2, <2>4 DEF ApplyOK, FirstUnlinks
<1> SUFFICES ASSUME NEW T, \A k : Holds(s, "move", k) <=> k \in T
             PROVE  PlanOK("upgrade", s, T)
  BY <1>4
<1>5. \A k : k \in T <=> In(o, k)
  BY <1>3
<1>6. \A name \in Names, g \in Formulae : record[name][g] \notin T
  <2> SUFFICES ASSUME NEW name \in Names, NEW g \in Formulae, record[name][g] \in T
               PROVE  FALSE
    OBVIOUS
  <2>1. record[name][g] \in KegsOf(f) /\ record[name][g] \in Kegs /\ record[name][g] # kept
    BY <1>2, <1>5
  <2>2. record[name][g] # NoKeg
    BY <2>1, RemovalAssumption
  <2>3. g = f /\ record[name][g] = record["opt"][g]
    BY <2>1, <2>2, Belongs DEF AtRest
  <2>4. kept = record["opt"][f]
    BY DEF kept, AtRest, Names
  <2> QED BY <2>1, <2>3, <2>4
<1> QED
  <2>1. \A name \in Names \cup {"unlink", "rack"} : \A g : ~Holds(s, name, g)
    BY <1>3 DEF Names
  <2>2. "upgrade" # "uninstall" /\ Names \subseteq Names \cup {"unlink", "rack"}
    OBVIOUS
  <2>3. \A k \in T : k \in Kegs /\ place[k] = "rack"
    BY <1>2, <1>5
  <2>4. \A k \in T : record["linked"][FormulaOf(k)] # k
    BY <1>6, <2>3, Belongs DEF Names
  <2> QED BY <1>4, <1>6, <2>1, <2>2, <2>3, <2>4 DEF PlanOK

-----------------------------------------------------------------------------
(* The beginning of a removal.                                             *)

\* The targets are what will be moved.
LEMMA StartTargets ==
    ASSUME NEW what, NEW calls, calls \in Seq(ApplyCalls), Start(what, calls)
    PROVE  \A k : Holds(calls, "move", k) <=> k \in targets'
<1> DEFINE J == {j \in 1 .. Len(calls) : calls[j].op = "move"}
<1>1. targets' = {calls[i].arg : i \in J}
  BY DEF Start
<1>2. \A i \in J : Holds(calls, "move", calls[i].arg)
  BY CallsHold
<1>3. ASSUME NEW k, Holds(calls, "move", k) PROVE k \in targets'
  <2>1. PICK i \in 1 .. Len(calls) : calls[i] = [op |-> "move", arg |-> k]
    BY <1>3 DEF Holds
  <2>2. i \in J /\ calls[i].arg = k
    BY <2>1
  <2> HIDE DEF J
  <2> QED BY <1>1, <2>2
<1>4. ASSUME NEW k \in targets' PROVE Holds(calls, "move", k)
  <2> HIDE DEF J
  <2>1. PICK i \in J : k = calls[i].arg
    BY <1>1, <1>4
  <2> QED BY <1>2, <2>1
<1> QED BY <1>3, <1>4

\* Nothing has happened when a removal begins.
Begun(what, calls) ==
    /\ result = "none" /\ pc' = "begin" /\ result' = "running"
    /\ kind' = what /\ tasks' = calls /\ before' = before
    /\ before.place = place /\ before.rackDir = rackDir /\ before.link = link
    /\ before.record = record
    /\ UNCHANGED <<place, rackDir, link, record, trash, records, racked, staged, unlinked,
                   committed, todo, clear, bare, leftovers, faults>>

\* When it starts, `before' is the disk as it is.
LEMMA BegunFacts ==
    ASSUME ControlInv, NEW what, NEW calls, Start(what, calls)
    PROVE  Begun(what, calls)
<1>1. before = [place |-> place, rackDir |-> rackDir, link |-> link, record |-> record]
  BY DEF ControlInv, Start
<1>2. before' = before
  BY <1>1 DEF Start
<1>3. /\ before.place = place /\ before.rackDir = rackDir /\ before.link = link
      /\ before.record = record
  BY <1>1
<1> QED
  BY <1>2, <1>3, Zenon DEF Start, Begun, diskVars, journalVars

\* A planned removal starts in the invariant.
LEMMA StartStep ==
    ASSUME RemovalInv, NEW what, NEW calls, Start(what, calls),
           \A T : (\A k : Holds(calls, "move", k) <=> k \in T) => PlanOK(what, calls, T),
           calls \in Seq(ApplyCalls)
    PROVE  RemovalInv'
<1>0. /\ TypeOK /\ ControlInv /\ PastInv /\ LinkInv
  BY DEF RemovalInv
<1>b. Begun(what, calls)
  BY <1>0, BegunFacts
<1> DEFINE T == targets'
<1>1. PlanOK(what, calls, T) /\ \A k : Holds(calls, "move", k) <=> k \in T
  BY StartTargets
<1>2. /\ records = {} /\ racked = {} /\ staged = <<>> /\ unlinked = <<>>
      /\ leftovers = {} /\ todo = {} /\ ~committed /\ clear = {}
  BY <1>0, <1>b DEF ControlInv, Begun, LinkInv, Succeeded
<1>3. \A op, arg : ToDo(op, arg)' <=> Holds(calls, op, arg)
  BY <1>b DEF ToDo, Begun
<1>4. \A k \in T : k \in Kegs /\ place[k] = "rack"
  BY <1>1 DEF PlanOK
<1>5. Ordered(calls) /\ calls \in Seq(ApplyCalls)
  <2>1. \A p \in 1 .. Len(calls) : calls[p].op \notin {"putBack", "clear", "relink"}
    <3> TAKE p \in 1 .. Len(calls)
    <3>1. calls[p] \in ApplyCalls
      OBVIOUS
    <3> QED BY <3>1 DEF ApplyCalls, Names
  <2>2. FirstUnlinks(calls)
    BY <1>1 DEF PlanOK, ApplyOK
  <2> QED BY <2>1, <2>2 DEF Ordered, FirstUnlinks
<1>6. Applying' /\ ~Undoing' /\ ~Succeeded' /\ pc' = "begin" /\ (~committed)'
  BY <1>2, <1>b DEF Begun, Applying, Undoing, Succeeded
<1> HIDE DEF T
<1>7. TypeOK'
  BY <1>0, <1>4, <1>b DEF TypeOK, Begun, T
<1>8. ControlInv'
  <2>1. staged' \in Seq(targets') /\ unlinked' \in Seq(Unlinkings) /\ bare' \in BOOLEAN
    BY <1>0, <1>2, <1>b DEF Begun, ControlInv
  <2>2. what \in {"uninstall", "upgrade"}
    BY <1>1 DEF PlanOK
  <2>3. pc' = "begin" /\ result' = "running" /\ kind' = what /\ tasks' = calls
    BY <1>b DEF Begun
  <2>4. /\ records' = {} /\ racked' = {} /\ staged' = <<>> /\ unlinked' = <<>>
        /\ leftovers' = {} /\ todo' = {} /\ ~committed'
    BY <1>2, <1>b DEF Begun
  <2> QED
    BY <1>5, <2>1, <2>2, <2>3, <2>4 DEF ControlInv, Applying, Undoing, Succeeded
<1>9. PastInv'
  <2>1. \A k \in targets' : k \in Kegs /\ before.place[k] = "rack"
    BY <1>4, <1>b DEF Begun, T
  <2>2. kind' = "upgrade" => \A name \in Names, f \in Formulae :
          before.record[name][f] \notin targets'
    BY <1>1, <1>b DEF Begun, T, PlanOK
  <2>3. before' = before
    BY <1>b DEF Begun
  <2> QED BY <1>0, <2>1, <2>2, <2>3 DEF PastInv
<1>c. /\ before'.place = place /\ before'.rackDir = rackDir /\ before'.link = link
      /\ before'.record = record
      /\ place' = place /\ rackDir' = rackDir /\ link' = link /\ record' = record
      /\ tasks' = calls /\ kind' = what
  BY <1>b DEF Begun
<1>10. PlanInv'
  <2>1. /\ \A k \in Kegs : ToDo("move", k)' => k \in targets'
        /\ \A k \in targets' : ToDo("move", k)'
    BY <1>1, <1>3 DEF T
  <2>2. \A k \in Kegs : ToDo("unlink", k)' =>
              /\ k \in targets' /\ kind' = "uninstall" /\ place'[k] = "rack"
              /\ before'.record["linked"][FormulaOf(k)] = k
    BY <1>1, <1>3, <1>4, <1>c DEF T, PlanOK
  <2>3. \A name \in Names, f \in Formulae : ToDo(name, f)' =>
              /\ f \in Cover' /\ kind' = "uninstall"
              /\ before'.record[name][f] \in targets' \cup {NoKeg}
    BY <1>1, <1>3, <1>c DEF T, PlanOK, Cover
  <2>4. \A f \in Formulae : ToDo("rack", f)' =>
              f \in Cover' /\ kind' = "uninstall" /\ f \in before'.rackDir
    BY <1>1, <1>3, <1>c DEF T, PlanOK, Cover
  <2>5. \A name \in Names, f \in Formulae : record'[name][f] \in targets' =>
              ToDo(name, f)' \/ (name = "linked" /\ ToDo("unlink", record[name][f])')
    <3> TAKE name \in Names, f \in Formulae
    <3>1. record[name][f] \in T => Holds(calls, name, f)
             \/ (name = "linked" /\ Holds(calls, "unlink", record[name][f]))
      BY <1>1 DEF PlanOK
    <3> QED BY <1>c, <3>1 DEF T, ToDo
  <2>6. kind' = "uninstall" => \A f \in rackDir' :
              ToDo("rack", f)' \/ \E k \in KegsOf(f) \ targets' : before'.place[k] = "rack"
    BY <1>1, <1>3, <1>c DEF T, PlanOK
  <2> QED BY <2>1, <2>2, <2>3, <2>4, <2>5, <2>6 DEF PlanInv
<1>11. PlaceInv'
  BY <1>4, <1>6, <1>b, <1>c DEF PlaceInv, T, Begun
<1>12. RackInv'
  BY <1>2, <1>6, <1>b, <1>c DEF RackInv, Begun
<1>13. RecordInv'
  <2>1. records' = {} /\ unlinked' = <<>>
    BY <1>2, <1>b DEF Begun
  <2> QED BY <1>6, <1>b, <1>c, <2>1 DEF RecordInv, Begun
<1>14. LinkInv'
  <2>1. clear' = {} /\ unlinked' = <<>>
    BY <1>2, <1>b DEF Begun
  <2>2. \A d \in Files : link[d] \in Kegs => place[link[d]] = "rack"
    BY <1>0 DEF LinkInv
  <2> QED BY <1>c, <2>1, <2>2 DEF LinkInv
<1>15. UnlinkInv'
  <2>1. ASSUME NEW d \in Files, link[d] \in T PROVE Holds(calls, "unlink", link[d])
    <3>1. link[d] \in Kegs /\ before.link = link /\ before.record = record
      BY <1>4, <1>b, <2>1 DEF Begun
    <3>2. record["linked"][FormulaOf(link[d])] = link[d]
      BY <1>0, <3>1 DEF PastInv
    <3> QED BY <1>1, <2>1, <3>2 DEF PlanOK
  <2>2. \A d \in Files : link'[d] \in targets' => ToDo("unlink", link[d])'
    <3> TAKE d \in Files
    <3>1. link'[d] = link[d]
      BY <1>c
    <3> QED BY <1>c, <2>1, <3>1 DEF T, ToDo
  <2>3. \A d \in Files : link'[d] = before'.link[d]
    BY <1>c
  <2> QED BY <1>6, <2>2, <2>3 DEF UnlinkInv
<1>16. RelinkInv'
  BY <1>6 DEF RelinkInv
<1> QED
  BY <1>7, <1>8, <1>9, <1>10, <1>11, <1>12, <1>13, <1>14, <1>15, <1>16 DEF RemovalInv

\* Both kinds of removal do.
LEMMA BeginStep == RemovalInv /\ (BeginUninstall \/ BeginCleanup) => RemovalInv'
<1>1. ASSUME RemovalInv, BeginUninstall PROVE RemovalInv'
  <2>1. PICK names \in SUBSET {f \in Formulae : InstalledSeq(f) # <<>>}, force \in BOOLEAN :
           LET OfFormula(f) == FormulaTasks(f, force)
           IN  /\ force \/ \A f \in names : record["pin"][f] = NoKeg
               /\ Start("uninstall", Each(Chosen(Order, names), OfFormula))
    BY <1>1 DEF BeginUninstall
  <2> DEFINE o == Chosen(Order, names)
             ss == [i \in 1 .. Len(o) |-> FormulaTasks(o[i], force)]
             s == FlattenSeq(ss)
  <2>2. Asking(names, force) /\ Start("uninstall", s)
    BY <2>1 DEF Asking, Each
  <2>3. AtRest
    BY <1>1, <2>2, RestFacts DEF Start
  <2>4. /\ o = Chosen(Order, names)
        /\ ss = [i \in 1 .. Len(o) |-> FormulaTasks(o[i], force)]
        /\ s = FlattenSeq(ss)
    OBVIOUS
  <2> HIDE DEF o, ss, s
  <2>5. /\ ApplyOK(s)
        /\ \A op, arg : Holds(s, op, arg) <=> \E f \in names : FormulaHolds(f, force, op, arg)
    BY ONLY <2>2, <2>3, <2>4, WholeCalls
  <2>6. \A T : (\A k : Holds(s, "move", k) <=> k \in T) => PlanOK("uninstall", s, T)
    BY ONLY <2>2, <2>3, <2>5, WholePlan
  <2> QED
    BY <1>1, <2>2, <2>5, <2>6, StartStep DEF ApplyOK
<1>2. ASSUME RemovalInv, BeginCleanup PROVE RemovalInv'
  <2>1. PICK f \in Formulae :
       /\ record["linked"][f] # NoKeg
       /\ Start("upgrade",
                CallEach("move", Chosen(Racks[f], Installed \ {record["linked"][f]})))
    BY <1>2 DEF BeginCleanup
  <2> DEFINE o == Chosen(Racks[f], Installed \ {record["linked"][f]})
             s == CallEach("move", o)
  <2>2. Start("upgrade", s)
    BY <2>1
  <2>3. AtRest
    BY <1>2, <2>2, RestFacts DEF Start
  <2>4. o = Chosen(Racks[f], Installed \ {record["linked"][f]}) /\ s = CallEach("move", o)
    OBVIOUS
  <2> HIDE DEF o, s
  <2>6. /\ ApplyOK(s)
        /\ \A T : (\A k : Holds(s, "move", k) <=> k \in T) => PlanOK("upgrade", s, T)
    BY ONLY <2>1, <2>3, <2>4, CleanupPlanned
  <2> QED
    BY <1>2, <2>2, <2>6, StartStep DEF ApplyOK
<1> QED BY <1>1, <1>2

-----------------------------------------------------------------------------
(* Every other step keeps every part of the invariant.  Types first.       *)

\* Every step but the beginning of a removal.
Work == Apply \/ RollBack \/ Crash \/ (\E d \in Files : OtherFormula(d)) \/ UNCHANGED vars

\* What the steps are proved from.
Known ==
    /\ RemovalInv
    /\ pc # "idle" /\ tasks # <<>> => NextCall
    /\ \A op, arg : ~Holds(<<>>, op, arg)
    /\ Ordered(<<>>) /\ <<>> \in Seq(UndoCalls)
    /\ \A k \in Kegs : FormulaOf(k) \in Formulae

\* They follow from the invariant.
LEMMA KnownFacts == RemovalInv => Known
<1> SUFFICES ASSUME RemovalInv PROVE Known
  OBVIOUS
<1>1. pc # "idle" /\ tasks # <<>> => NextCall
  BY NextCallFacts DEF RemovalInv
<1> QED
  BY <1>1, HoldsNone, OrderedNone, Belongs DEF Known

\* Records of all three names.
RecordType == [Names -> [Formulae -> Kegs \cup {NoKeg}]]

\* How each action changes the symlinks.
LEMMA RemoveRecordFacts ==
    ASSUME TypeOK, RemoveRecord, Arg \in Formulae
    PROVE  /\ record' \in RecordType
           /\ \A n \in Names, g \in Formulae :
                 record'[n][g] = IF n = Op /\ g = Arg THEN NoKeg ELSE record[n][g]
<1>1. record \in RecordType /\ Op \in Names
  BY DEF TypeOK, RecordType, RemoveRecord
<1>2. record' = [record EXCEPT ![Op] = [record[Op] EXCEPT ![Arg] = NoKeg]]
  BY DEF RemoveRecord
<1>3. record[Op] \in [Formulae -> Kegs \cup {NoKeg}]
  BY <1>1 DEF RecordType
<1> QED BY <1>1, <1>2, <1>3 DEF RecordType

\* unlink removes only the linked record, and only its own.
LEMMA UnlinkRecordFacts ==
    ASSUME TypeOK, UnlinkRecord, Arg \in Kegs, FormulaOf(Arg) \in Formulae
    PROVE  /\ record' \in RecordType
           /\ \A n \in Names, g \in Formulae :
                 \/ record'[n][g] = record[n][g]
                 \/ n = "linked" /\ g = FormulaOf(Arg) /\ record[n][g] = Arg
                    /\ record'[n][g] = NoKeg
           /\ pc' = "apply" => record'["linked"][FormulaOf(Arg)] # Arg
<1> DEFINE f == FormulaOf(Arg)
           k == IF record["linked"][f] = Arg THEN NoKeg ELSE record["linked"][f]
           gone == [record EXCEPT !["linked"][f] = k]
<1>1. record \in RecordType /\ "linked" \in Names /\ k \in Kegs \cup {NoKeg} /\ f \in Formulae
  BY DEF TypeOK, RecordType, Names
<1>2. record' \in {record, gone} /\ (pc' = "apply" => record' = gone)
  BY DEF UnlinkRecord, Fail
<1>3. /\ gone \in RecordType
      /\ \A n \in Names, g \in Formulae :
            gone[n][g] = IF n = "linked" /\ g = f THEN k ELSE record[n][g]
  <2>1. gone = [record EXCEPT !["linked"] = [record["linked"] EXCEPT ![f] = k]]
    OBVIOUS
  <2>2. record["linked"] \in [Formulae -> Kegs \cup {NoKeg}]
    BY <1>1 DEF RecordType
  <2> QED BY <1>1, <2>1, <2>2 DEF RecordType
<1>4. NoKeg # Arg
  BY RemovalAssumption
<1> HIDE DEF gone
<1> QED BY <1>1, <1>2, <1>3, <1>4

\* link touches only records of its formula.
LEMMA RelinkRecordsFacts ==
    ASSUME TypeOK, RelinkRecords, Arg.keg \in Kegs, FormulaOf(Arg.keg) \in Formulae
    PROVE  /\ record' \in RecordType
           /\ \A n \in Names, g \in Formulae :
                 record'[n][g] = record[n][g] \/ g = FormulaOf(Arg.keg)
<1> DEFINE f == FormulaOf(Arg.keg)
           r1 == [record EXCEPT !["opt"][f] = Arg.keg]
           r2 == [record EXCEPT !["opt"][f] = NoKeg]
           r3 == [r1 EXCEPT !["linked"][f] = Arg.keg]
           r4 == [r1 EXCEPT !["linked"][f] = NoKeg]
           Near(r) == r \in RecordType /\ \A n \in Names, g \in Formulae :
                         r[n][g] = record[n][g] \/ g = f
<1>1. record \in RecordType /\ "linked" \in Names /\ "opt" \in Names /\ f \in Formulae
      /\ NoKeg \in Kegs \cup {NoKeg} /\ Arg.keg \in Kegs \cup {NoKeg}
  BY DEF TypeOK, RecordType, Names
<1>2. record' \in {record, r1, r2, r3, r4}
  BY DEF RelinkRecords
<1>3. /\ r1 \in RecordType
      /\ \A n \in Names, g \in Formulae :
            r1[n][g] = IF n = "opt" /\ g = f THEN Arg.keg ELSE record[n][g]
  <2>1. r1 = [record EXCEPT !["opt"] = [record["opt"] EXCEPT ![f] = Arg.keg]]
    BY DEF r1
  <2>2. record["opt"] \in [Formulae -> Kegs \cup {NoKeg}]
    BY <1>1 DEF RecordType
  <2> QED BY <1>1, <2>1, <2>2 DEF RecordType
<1>4. Near(r1)
  BY <1>3
<1>5. Near(r2)
  <2>1. /\ r2 \in RecordType
        /\ \A n \in Names, g \in Formulae :
              r2[n][g] = IF n = "opt" /\ g = f THEN NoKeg ELSE record[n][g]
    <3>1. r2 = [record EXCEPT !["opt"] = [record["opt"] EXCEPT ![f] = NoKeg]]
      BY DEF r2
    <3>2. record["opt"] \in [Formulae -> Kegs \cup {NoKeg}]
      BY <1>1 DEF RecordType
    <3> QED BY <1>1, <3>1, <3>2 DEF RecordType
  <2> QED BY <2>1
<1> HIDE DEF r1
<1>6. Near(r3)
  <2>1. /\ r3 \in RecordType
        /\ \A n \in Names, g \in Formulae :
              r3[n][g] = IF n = "linked" /\ g = f THEN Arg.keg ELSE r1[n][g]
    <3>1. r3 = [r1 EXCEPT !["linked"] = [r1["linked"] EXCEPT ![f] = Arg.keg]]
      BY DEF r3
    <3>2. r1["linked"] \in [Formulae -> Kegs \cup {NoKeg}]
      BY <1>1, <1>3 DEF RecordType
    <3> QED BY <1>1, <1>3, <3>1, <3>2 DEF RecordType
  <2> QED BY <1>4, <2>1
<1>7. Near(r4)
  <2>1. /\ r4 \in RecordType
        /\ \A n \in Names, g \in Formulae :
              r4[n][g] = IF n = "linked" /\ g = f THEN NoKeg ELSE r1[n][g]
    <3>1. r4 = [r1 EXCEPT !["linked"] = [r1["linked"] EXCEPT ![f] = NoKeg]]
      BY DEF r4
    <3>2. r1["linked"] \in [Formulae -> Kegs \cup {NoKeg}]
      BY <1>1, <1>3 DEF RecordType
    <3> QED BY <1>1, <1>3, <3>1, <3>2 DEF RecordType
  <2> QED BY <1>4, <2>1
<1>8. Near(record)
  BY <1>1
<1> HIDE DEF r2, r3, r4, Near
<1>9. Near(record')
  BY <1>2, <1>4, <1>5, <1>6, <1>7, <1>8
<1> QED BY <1>9 DEF Near

\* restore_symlink's first half clears one record or skips its second half.
LEMMA ClearRecordFacts ==
    ASSUME TypeOK, ClearRecord, Arg.name \in Names, Arg.of \in Formulae
    PROVE  /\ record' \in RecordType
           /\ \A n \in Names, g \in Formulae :
                 record'[n][g] = record[n][g] \/ (n = Arg.name /\ g = Arg.of)
<1>1. record \in RecordType /\ NoKeg \in Kegs \cup {NoKeg}
  BY DEF TypeOK, RecordType
<1>2. record' = [record EXCEPT ![Arg.name][Arg.of] = NoKeg] \/ record' = record
  BY DEF ClearRecord
<1>3. CASE record' = [record EXCEPT ![Arg.name][Arg.of] = NoKeg]
  <2>1. /\ record' \in RecordType
        /\ \A n \in Names, g \in Formulae :
              record'[n][g] = IF n = Arg.name /\ g = Arg.of THEN NoKeg ELSE record[n][g]
    <3>1. record' = [record EXCEPT ![Arg.name] = [record[Arg.name] EXCEPT ![Arg.of] = NoKeg]]
      BY <1>3
    <3>2. record[Arg.name] \in [Formulae -> Kegs \cup {NoKeg}]
      BY <1>1 DEF RecordType
    <3> QED BY <1>1, <3>1, <3>2 DEF RecordType
  <2> QED BY <2>1
<1> QED BY <1>1, <1>2, <1>3

\* Its second half writes one record back.
LEMMA RestoreRecordFacts ==
    ASSUME TypeOK, RestoreRecord, Arg.name \in Names, Arg.of \in Formulae,
           before.record \in RecordType
    PROVE  /\ record' \in RecordType
           /\ \/ record' = record /\ leftovers' = leftovers \cup {Arg.name}
              \/ /\ \A n \in Names, g \in Formulae :
                       record'[n][g] = IF n = Arg.name /\ g = Arg.of
                                       THEN before.record[n][g] ELSE record[n][g]
                 /\ leftovers' = leftovers
<1> DEFINE was == before.record[Arg.name][Arg.of]
<1>1. record \in RecordType /\ was \in Kegs \cup {NoKeg}
  BY DEF TypeOK, RecordType
<1>2. \/ record' = [record EXCEPT ![Arg.name][Arg.of] = was] /\ leftovers' = leftovers
      \/ record' = record /\ leftovers' = leftovers \cup {Arg.name}
  BY DEF RestoreRecord, Report
<1>3. CASE record' = [record EXCEPT ![Arg.name][Arg.of] = was]  /\ leftovers' = leftovers
  <2>1. /\ record' \in RecordType
        /\ \A n \in Names, g \in Formulae :
              record'[n][g] = IF n = Arg.name /\ g = Arg.of THEN was ELSE record[n][g]
    <3>1. record' = [record EXCEPT ![Arg.name] = [record[Arg.name] EXCEPT ![Arg.of] = was]]
      BY <1>3
    <3>2. record[Arg.name] \in [Formulae -> Kegs \cup {NoKeg}]
      BY <1>1 DEF RecordType
    <3> QED BY <1>1, <3>1, <3>2 DEF RecordType
  <2> QED BY <1>3, <2>1
<1> QED BY <1>1, <1>2, <1>3

\* Types.
LEMMA TypeStep == RemovalInv /\ Work => TypeOK'
<1> SUFFICES ASSUME RemovalInv, Work PROVE TypeOK'
  OBVIOUS
<1>0. /\ TypeOK /\ Cover \subseteq Formulae
      /\ pc \in {"apply", "unlinking"} /\ tasks # <<>> =>
            /\ Op \in {"unlink", "move", "rack"} \cup Names
            /\ Op = "rack" \/ Op \in Names => Arg \in Formulae
            /\ Op \in {"unlink", "move"} => Arg \in Kegs
      /\ pc = "unlinking" => tasks # <<>> /\ Op = "unlink"
      /\ pc = "relinking" => tasks # <<>> /\ Op = "relink"
      /\ pc \in {"undo", "relinking"} /\ tasks # <<>> =>
            /\ Op = "makeRack" => Arg \in Formulae
            /\ Op = "putBack" => Arg \in Kegs
            /\ Op = "relink" => Arg.keg \in Kegs
            /\ Op \in {"clear", "restore"} => Arg.name \in Names /\ Arg.of \in Formulae
      /\ pc = "commit" /\ tasks # <<>> => Arg \in Kegs
      /\ \A k \in Kegs : FormulaOf(k) \in Formulae
      /\ before.record \in [Names -> [Formulae -> Kegs \cup {NoKeg}]]
      /\ Ships \in [Kegs -> SUBSET Files] /\ MaxFaults \in Nat
  <2>1. Known
    BY KnownFacts
  <2>2. Cover \subseteq Formulae
    BY <2>1, Belongs DEF Known, RemovalInv, PastInv, Cover
  <2> QED
    BY <2>1, <2>2, RemovalAssumption
    DEF Known, RemovalInv, ControlInv, PastInv, NextCall, Applying, Undoing, Names
<1>c. record' \in RecordType => record' \in [Names -> [Formulae -> Kegs \cup {NoKeg}]]
  BY DEF RecordType
<1>d. before.record \in RecordType
  BY <1>0 DEF RecordType
<1> USE DEF diskVars, journalVars, inputVars, Fault, NoFault, Fail, Done, Report,
            RelinkError, Names, TypeOK

<1>1. CASE ReadRecords
  BY <1>1, <1>0
  DEF ReadRecords, Cover
<1>2. CASE Unlink
  BY <1>2, <1>0
  DEF Unlink
<1>3. CASE RemoveRecord
  <2>1. record' \in RecordType
    BY <1>3, <1>0, RemoveRecordFacts DEF RemoveRecord
  <2> QED BY <1>3, <1>0, <1>c, <2>1 DEF RemoveRecord
<1>4. CASE UnlinkRecord
  <2>1. record' \in RecordType
    BY <1>4, <1>0, UnlinkRecordFacts DEF UnlinkRecord
  <2> QED BY <1>4, <1>0, <1>c, <2>1 DEF UnlinkRecord
<1>5. CASE Delete
  BY <1>5, <1>0
  DEF Delete
<1>6. CASE Relink
  BY <1>6, <1>0
  DEF Relink, Planned
<1>7. CASE RelinkRecords
  <2>1. record' \in RecordType
    BY <1>7, <1>0, RelinkRecordsFacts DEF RelinkRecords
  <2> QED BY <1>7, <1>0, <1>c, <2>1 DEF RelinkRecords
<1>8. CASE RestoreRecord
  <2>1. record' \in RecordType
    BY <1>8, <1>0, <1>d, RestoreRecordFacts DEF RestoreRecord
  <2> QED BY <1>8, <1>0, <1>c, <2>1 DEF RestoreRecord
<1>9. ASSUME NEW d \in Files, RelinkFile(d)
      PROVE  TypeOK'
  BY <1>9, <1>0
  DEF RelinkFile
<1>10. CASE ClearRecord
  <2>1. record' \in RecordType
    BY <1>10, <1>0, ClearRecordFacts DEF ClearRecord
  <2> QED BY <1>10, <1>0, <1>c, <2>1 DEF ClearRecord
<1>11. CASE EmptyTrash
  <2>1. trash' \in BOOLEAN
    BY <1>11, <1>0, Zenon DEF EmptyTrash
  <2>2. /\ UNCHANGED <<place, rackDir, link, record, journalVars, inputVars, todo, clear>>
        /\ faults' = faults \/ (faults < MaxFaults /\ faults' = faults + 1)
    BY <1>11, ZenonT(40) DEF EmptyTrash
  <2>3. faults' \in 0 .. MaxFaults
    BY <1>0, <2>2
  <2> QED BY <1>0, <2>1, <2>2, <2>3
<1>12. CASE Undone
  <2>1. trash' \in BOOLEAN
    BY <1>12, <1>0, Zenon DEF Undone
  <2>2. /\ UNCHANGED <<place, rackDir, link, record, journalVars, inputVars, todo, clear>>
        /\ faults' = faults \/ (faults < MaxFaults /\ faults' = faults + 1)
    BY <1>12, ZenonT(40) DEF Undone
  <2>3. faults' \in 0 .. MaxFaults
    BY <1>0, <2>2
  <2> QED BY <1>0, <2>1, <2>2, <2>3
<1>13. CASE CreateTrash
  <2>1. trash' \in BOOLEAN
    BY <1>13, <1>0, Zenon DEF CreateTrash
  <2>2. /\ UNCHANGED <<place, rackDir, link, record, journalVars, inputVars, todo, clear>>
        /\ faults' = faults \/ (faults < MaxFaults /\ faults' = faults + 1)
    BY <1>13, ZenonT(40) DEF CreateTrash
  <2>3. faults' \in 0 .. MaxFaults
    BY <1>0, <2>2
  <2> QED BY <1>0, <2>1, <2>2, <2>3
<1>14. CASE CallFails
  BY <1>14, <1>0
  DEF CallFails
<1>15. CASE MoveAway \/ RemoveRackDir \/ Commit
  BY <1>15, <1>0
  DEF MoveAway, RemoveRackDir, Commit
<1>16. CASE (\E d \in Files : UnlinkFile(d)) \/ Unwind \/ RestoreRackDir \/ PutBack
  BY <1>16, <1>0
  DEF UnlinkFile, Unwind, RestoreRackDir, PutBack
<1>17. CASE Crash \/ (\E d \in Files : OtherFormula(d))
  BY <1>17, <1>0
  DEF Crash, OtherFormula
<1>18. CASE UNCHANGED vars
  BY <1>18, <1>0
  DEF vars
<1> QED
  BY <1>1, <1>2, <1>3, <1>4, <1>5, <1>6, <1>7, <1>8, <1>9, <1>10, <1>11, <1>12, <1>13,
     <1>14, <1>15, <1>16, <1>17, <1>18
  DEF Work, Apply, RollBack

-----------------------------------------------------------------------------
(* Control.                                                                *)

\* What is left of the calls is of the kind the phase makes.
LEMMA TailKind ==
    ASSUME RemovalInv, pc # "idle", tasks # <<>>
    PROVE  /\ Applying => Tail(tasks) \in Seq(ApplyCalls) /\ Ordered(Tail(tasks))
           /\ pc = "commit" => Tail(tasks) \in Seq(DeleteCalls)
           /\ Undoing => Tail(tasks) \in Seq(UndoCalls) /\ Ordered(Tail(tasks))
           /\ Undoing /\ Op = "clear" =>
                 Tail(Tail(tasks)) \in Seq(UndoCalls) /\ Ordered(Tail(Tail(tasks)))
<1>1. NextCall
  BY NextCallFacts DEF RemovalInv
<1>2. /\ Applying => Tail(tasks) \in Seq(ApplyCalls) /\ Ordered(Tail(tasks))
      /\ pc = "commit" => Tail(tasks) \in Seq(DeleteCalls)
      /\ Undoing => Tail(tasks) \in Seq(UndoCalls) /\ Ordered(Tail(tasks))
  BY <1>1 DEF NextCall, Calls, Applying, Undoing
<1>3. ASSUME Undoing, Op = "clear"
      PROVE  Tail(Tail(tasks)) \in Seq(UndoCalls) /\ Ordered(Tail(Tail(tasks)))
  <2>1. Tail(tasks) # <<>>
    BY <1>1, <1>3 DEF NextCall
  <2> QED
    BY <1>2, <1>3, <2>1, HoldsTail, OrderedTail
<1> QED BY <1>2, <1>3

\* What the journal hears of an unlink.
UnlinkingOf(u) ==
    /\ u \in Unlinkings /\ u.keg = Arg /\ (u.bare <=> bare)
    /\ \/ pc' = "apply" /\ tasks' = Tail(tasks) /\ unlinked' = Append(unlinked, u)
       \/ pc' = "fail" /\ tasks' = <<>> /\ unlinked' = unlinked

\* What the end of an unlink leaves alone.
UnlinkRest ==
    /\ pc = "unlinking" /\ todo = {}
    /\ UNCHANGED <<place, rackDir, link, trash, records, racked, staged, committed,
                   inputVars, todo, clear, bare, leftovers, result>>

\* The end of an unlink tells the journal the keg and whether nothing was removed.
LEMMA UnlinkRecordJournal ==
    ASSUME UnlinkRecord, Arg \in Kegs, bare \in BOOLEAN
    PROVE  UnlinkRest /\ \E u : UnlinkingOf(u)
<1> DEFINE u == [keg |-> Arg, bare |-> bare]
<1>1. u \in Unlinkings
  BY DEF Unlinkings
<1>2. u.keg = Arg /\ (u.bare <=> bare)
  BY Zenon
<1>3. \/ pc' = "apply" /\ tasks' = Tail(tasks) /\ unlinked' = Append(unlinked, u)
      \/ pc' = "fail" /\ tasks' = <<>> /\ unlinked' = unlinked
  BY Zenon DEF UnlinkRecord, Done, Fail
<1>4. UnlinkRest
  BY Zenon DEF UnlinkRecord, UnlinkRest
<1> HIDE DEF u
<1> QED BY <1>1, <1>2, <1>3, <1>4, Zenon DEF UnlinkingOf

\* Control: phases, and the kinds and the order of the calls left.
LEMMA ControlStep == RemovalInv /\ Work => ControlInv'
<1> SUFFICES ASSUME RemovalInv, Work PROVE ControlInv'
  OBVIOUS
<1>0. /\ ControlInv /\ committed \in BOOLEAN
      /\ pc \in {"begin", "trash", "apply", "unlinking"} /\ tasks # <<>> =>
            Tail(tasks) \in Seq(ApplyCalls) /\ Ordered(Tail(tasks))
      /\ pc = "commit" /\ tasks # <<>> => Tail(tasks) \in Seq(DeleteCalls)
      /\ pc \in {"undo", "relinking"} /\ tasks # <<>> =>
            /\ Tail(tasks) \in Seq(UndoCalls) /\ Ordered(Tail(tasks))
            /\ Op = "clear" => Tail(Tail(tasks)) \in Seq(UndoCalls) /\ Ordered(Tail(Tail(tasks)))
      /\ Ordered(<<>>) /\ <<>> \in Seq(UndoCalls)
  <2>1. pc # "idle" /\ tasks # <<>> =>
           /\ Applying => Tail(tasks) \in Seq(ApplyCalls) /\ Ordered(Tail(tasks))
           /\ pc = "commit" => Tail(tasks) \in Seq(DeleteCalls)
           /\ Undoing => Tail(tasks) \in Seq(UndoCalls) /\ Ordered(Tail(tasks))
           /\ Undoing /\ Op = "clear" =>
                 Tail(Tail(tasks)) \in Seq(UndoCalls) /\ Ordered(Tail(Tail(tasks)))
    BY TailKind
  <2> QED
    BY <2>1, OrderedNone DEF RemovalInv, TypeOK, Applying, Undoing
<1>m. pc = "apply" /\ tasks # <<>> /\ Op = "move" => Arg \in targets
  BY KnownFacts DEF Known, NextCall, RemovalInv, PlanInv, Applying, Names
<1>u. UnlinkRecord => UnlinkRest /\ \E u : UnlinkingOf(u)
  <2>1. pc = "unlinking" => Arg \in Kegs /\ bare \in BOOLEAN
    BY KnownFacts DEF Known, NextCall, RemovalInv, ControlInv, Applying, Names
  <2> QED BY <2>1, UnlinkRecordJournal DEF UnlinkRecord
<1> USE DEF diskVars, journalVars, inputVars, NoFault, Fail, Done, RelinkError, ControlInv,
            Applying, Undoing, Succeeded, Op

<1>1. CASE ReadRecords
  BY <1>1, <1>0
  DEF ReadRecords
<1>2. CASE CreateTrash
  BY <1>2, <1>0
  DEF CreateTrash
<1>3. CASE CallFails
  BY <1>3, <1>0
  DEF CallFails
<1>4. CASE RemoveRecord
  BY <1>4, <1>0
  DEF RemoveRecord
<1>5. CASE Unlink
  BY <1>5, <1>0
  DEF Unlink
<1>6. CASE UnlinkRecord
  <2>1. PICK u : UnlinkingOf(u)
    BY <1>6, <1>u
  <2>2. UnlinkRest
    BY <1>6, <1>u
  <2>3. u \in Unlinkings => Append(unlinked, u) \in Seq(Unlinkings)
    BY <1>0
  <2> QED BY <1>0, <2>1, <2>2, <2>3 DEF UnlinkRest, UnlinkingOf
<1>7. CASE MoveAway
  BY <1>7, <1>0, <1>m
  DEF MoveAway
<1>8. CASE RemoveRackDir
  BY <1>8, <1>0
  DEF RemoveRackDir
<1>9. CASE Commit
  BY <1>9, <1>0, CommitFacts
  DEF Commit
<1>10. CASE Delete
  BY <1>10, <1>0
  DEF Delete
<1>11. CASE EmptyTrash
  BY <1>11, <1>0
  DEF EmptyTrash
<1>12. ASSUME NEW d \in Files, UnlinkFile(d)
      PROVE  ControlInv'
  BY <1>12, <1>0
  DEF UnlinkFile
<1>13. CASE Unwind
  BY <1>13, <1>0, UndoFacts
  DEF Unwind, UndoOK
<1>14. CASE RestoreRackDir
  BY <1>14, <1>0
  DEF RestoreRackDir
<1>15. CASE PutBack
  BY <1>15, <1>0
  DEF PutBack
<1>16. CASE Relink
  BY <1>16, <1>0
  DEF Relink
<1>17. CASE RelinkRecords
  BY <1>17, <1>0
  DEF RelinkRecords
<1>18. CASE ClearRecord
  BY <1>18, <1>0
  DEF ClearRecord
<1>19. CASE RestoreRecord
  BY <1>19, <1>0
  DEF RestoreRecord
<1>20. CASE Undone
  BY <1>20, <1>0
  DEF Undone
<1>21. ASSUME NEW d \in Files, RelinkFile(d)
      PROVE  ControlInv'
  BY <1>21, <1>0
  DEF RelinkFile
<1>22. CASE Crash
  BY <1>22, <1>0
  DEF Crash
<1>23. ASSUME NEW d \in Files, OtherFormula(d)
      PROVE  ControlInv'
  BY <1>23, <1>0
  DEF OtherFormula
<1>24. CASE UNCHANGED vars
  BY <1>24, <1>0
  DEF vars
<1> QED
  BY <1>1, <1>2, <1>3, <1>4, <1>5, <1>6, <1>7, <1>8, <1>9, <1>10, <1>11, <1>12, <1>13,
     <1>14, <1>15, <1>16, <1>17, <1>18, <1>19, <1>20, <1>21, <1>22, <1>23, <1>24
  DEF Work, Apply, RollBack

-----------------------------------------------------------------------------
(* The past and the plan.                                                  *)

\* The past does not change.
LEMMA PastStep == RemovalInv /\ Work => PastInv'
<1> SUFFICES ASSUME RemovalInv, Work PROVE PastInv'
  OBVIOUS
<1>1. UNCHANGED inputVars
  BY DEF Work, Apply, RollBack, ReadRecords, CreateTrash, CallFails, RemoveRecord, Unlink,
     UnlinkRecord, MoveAway, RemoveRackDir, Commit, Delete, EmptyTrash, UnlinkFile, Unwind,
     RestoreRackDir, PutBack, Relink, RelinkRecords, ClearRecord, RestoreRecord, Undone,
     RelinkFile, Crash, OtherFormula, vars, inputVars
<1> QED BY <1>1 DEF PastInv, RemovalInv, inputVars

\* The symlinks of a formula lead to its own kegs.
OwnRecords == \A name \in Names, f \in Formulae :
                 record[name][f] \in Kegs => FormulaOf(record[name][f]) = f

\* They follow from the invariant.
LEMMA OwnRecord == RemovalInv /\ Applying => OwnRecords
<1> SUFFICES ASSUME RemovalInv, Applying PROVE OwnRecords
  OBVIOUS
<1>1. /\ \A name \in Names, f \in Formulae : record[name][f] \in {before.record[name][f], NoKeg}
      /\ \A f \in Formulae : \A name \in Names :
            before.record[name][f] # NoKeg => before.record[name][f] \in KegsOf(f)
      /\ NoKeg \notin Kegs
  BY RemovalAssumption DEF RemovalInv, RecordInv, PastInv
<1> QED BY <1>1, Belongs DEF OwnRecords

\* How the calls still to make follow from those before.
CallsKept ==
    /\ pc # "idle" /\ tasks # <<>> =>
          /\ ToDo(Op, Arg)
          /\ \A op, arg : Holds(Tail(tasks), op, arg) => ToDo(op, arg)
          /\ \A op, arg : ToDo(op, arg) => Holds(Tail(tasks), op, arg) \/ (op = Op /\ arg = Arg)
    /\ \A op, arg : ~Holds(<<>>, op, arg)
    /\ Applying /\ tasks # <<>> =>
          /\ \/ Op \in {"unlink", "move"} /\ Arg \in Kegs
             \/ Op \in Names \cup {"rack"} /\ Arg \in Formulae
          /\ Op \in {"unlink", "move"} => ~Holds(Tail(tasks), "unlink", Arg)
    /\ pc = "unlinking" => tasks # <<>> /\ Op = "unlink"
    /\ pc = "relinking" => tasks # <<>> /\ Op = "relink"

\* They follow from the invariant.
LEMMA CallsFacts == RemovalInv => CallsKept
<1> SUFFICES ASSUME RemovalInv PROVE CallsKept
  OBVIOUS
<1>1. pc # "idle" /\ tasks # <<>> => NextCall
  BY NextCallFacts DEF RemovalInv
<1> QED
  BY <1>1, HoldsNone DEF CallsKept, NextCall, RemovalInv, ControlInv, Applying

\* The plan: what is left to do is what is not done.
LEMMA PlanStep == RemovalInv /\ Work => PlanInv'
<1> SUFFICES ASSUME RemovalInv, Work PROVE PlanInv'
  OBVIOUS
<1>0. /\ PlanInv /\ CallsKept /\ targets \subseteq Kegs /\ NoKeg \notin Kegs
      /\ place \in [Kegs -> {"rack", "trash", "torn", "gone"}]
      /\ Applying => OwnRecords
  BY CallsFacts, OwnRecord, RemovalAssumption DEF RemovalInv, TypeOK
<1>r. /\ RemoveRecord => \A n \in Names, g \in Formulae :
                 record'[n][g] = IF n = Op /\ g = Arg THEN NoKeg ELSE record[n][g]
      /\ UnlinkRecord =>
           /\ UnlinkRest /\ \E u : UnlinkingOf(u)
           /\ \A n \in Names, g \in Formulae :
                 record'[n][g] = record[n][g] \/ record'[n][g] = NoKeg
           /\ pc' = "apply" => record'["linked"][FormulaOf(Arg)] # Arg
  <2>1. RemoveRecord => Arg \in Formulae
    BY <1>0 DEF CallsKept, RemoveRecord, Applying, Names
  <2>2. UnlinkRecord => Arg \in Kegs /\ FormulaOf(Arg) \in Formulae /\ bare \in BOOLEAN
    BY <1>0, Belongs DEF CallsKept, UnlinkRecord, Applying, Names, RemovalInv, ControlInv
  <2> QED
    BY <2>1, <2>2, RemoveRecordFacts, UnlinkRecordFacts, UnlinkRecordJournal DEF RemovalInv
<1> USE DEF diskVars, journalVars, inputVars, NoFault, Fail, Done, RelinkError, PlanInv,
            Applying, CallsKept, ToDo, Cover, Names

<1>1. CASE ReadRecords
  BY <1>1, <1>0
  DEF ReadRecords
<1>2. CASE CreateTrash
  BY <1>2, <1>0
  DEF CreateTrash
<1>3. CASE CallFails
  BY <1>3, <1>0
  DEF CallFails
<1>4. CASE RemoveRecord
  BY <1>4, <1>0, <1>r DEF RemoveRecord, Names
<1>5. CASE Unlink
  BY <1>5, <1>0
  DEF Unlink
<1>6. CASE UnlinkRecord
  <2>1. PICK u : UnlinkingOf(u)
    BY <1>6, <1>r
  <2>2. /\ UnlinkRest
        /\ \A n \in Names, g \in Formulae :
              record'[n][g] = record[n][g] \/ record'[n][g] = NoKeg
        /\ pc' = "apply" => record'["linked"][FormulaOf(Arg)] # Arg
    BY <1>6, <1>r
  <2>3. CASE pc' # "apply"
    BY <2>1, <2>3 DEF UnlinkingOf
  <2>4. CASE pc' = "apply"
    <3>1. /\ tasks' = Tail(tasks) /\ Op = "unlink" /\ Arg \in Kegs /\ tasks # <<>>
          /\ pc = "unlinking"
      BY <1>0, <2>1, <2>2, <2>4 DEF UnlinkingOf, UnlinkRest
    <3>2. \A name \in Names, f \in Formulae : record'[name][f] \in targets =>
             \/ Holds(Tail(tasks), name, f)
             \/ name = "linked" /\ Holds(Tail(tasks), "unlink", record'[name][f])
      BY <1>0, <2>2, <2>4, <3>1 DEF OwnRecords
    <3> QED BY <1>0, <2>2, <3>1, <3>2 DEF UnlinkRest
  <2> QED BY <2>3, <2>4
<1>7. CASE MoveAway
  <2>1. /\ Op = "move" /\ Arg \in Kegs /\ tasks # <<>> /\ pc = "apply" /\ tasks' = Tail(tasks)
        /\ \A k \in Kegs : place'[k] = IF k = Arg THEN "trash" ELSE place[k]
        /\ UNCHANGED <<targets, kind, before, record, rackDir, pc>>
    BY <1>7, <1>0 DEF MoveAway
  <2>2. \A k \in targets : place'[k] = "rack" => Holds(Tail(tasks), "move", k)
    BY <1>0, <2>1
  <2>3. \A k \in Kegs : Holds(Tail(tasks), "unlink", k) => place'[k] = "rack"
    BY <1>0, <2>1
  <2>4. /\ \A name \in Names : \A f : Holds(tasks, name, f) => Holds(Tail(tasks), name, f)
        /\ \A f : Holds(tasks, "rack", f) => Holds(Tail(tasks), "rack", f)
        /\ \A k : Holds(tasks, "unlink", k) => Holds(Tail(tasks), "unlink", k)
        /\ \A op, arg : Holds(Tail(tasks), op, arg) => Holds(tasks, op, arg)
    BY <1>0, <2>1
  <2> QED BY <1>0, <2>1, <2>2, <2>3, <2>4
<1>8. CASE RemoveRackDir
  <2>1. CASE pc' = "apply"
    <3>1. /\ Op = "rack" /\ Arg \in Formulae /\ tasks # <<>> /\ pc = "apply" /\ tasks' = Tail(tasks)
          /\ rackDir' = rackDir \ {Arg} /\ UNCHANGED <<targets, kind, before, record, place, pc>>
      BY <1>8, <1>0, <2>1 DEF RemoveRackDir
    <3>2. /\ \A op, arg : op # "rack" /\ Holds(tasks, op, arg) => Holds(Tail(tasks), op, arg)
          /\ \A f : f # Arg /\ Holds(tasks, "rack", f) => Holds(Tail(tasks), "rack", f)
          /\ \A op, arg : Holds(Tail(tasks), op, arg) => Holds(tasks, op, arg)
      BY <1>0, <3>1
    <3> QED BY <1>0, <3>1, <3>2
  <2>2. CASE pc' # "apply"
    BY <1>8, <2>2 DEF RemoveRackDir
  <2> QED BY <2>1, <2>2
<1>9. CASE Commit
  BY <1>9, <1>0
  DEF Commit
<1>10. CASE Delete
  BY <1>10, <1>0
  DEF Delete
<1>11. CASE EmptyTrash
  BY <1>11, <1>0
  DEF EmptyTrash
<1>12. ASSUME NEW d \in Files, UnlinkFile(d)
      PROVE  PlanInv'
  BY <1>12, <1>0
  DEF UnlinkFile
<1>13. CASE Unwind
  BY <1>13, <1>0
  DEF Unwind
<1>14. CASE RestoreRackDir
  BY <1>14, <1>0
  DEF RestoreRackDir
<1>15. CASE PutBack
  BY <1>15, <1>0
  DEF PutBack
<1>16. CASE Relink
  BY <1>16, <1>0
  DEF Relink
<1>17. CASE RelinkRecords
  BY <1>17, <1>0
  DEF RelinkRecords
<1>18. CASE ClearRecord
  BY <1>18, <1>0
  DEF ClearRecord
<1>19. CASE RestoreRecord
  BY <1>19, <1>0
  DEF RestoreRecord
<1>20. CASE Undone
  BY <1>20, <1>0
  DEF Undone
<1>21. ASSUME NEW d \in Files, RelinkFile(d)
      PROVE  PlanInv'
  BY <1>21, <1>0
  DEF RelinkFile
<1>22. CASE Crash
  BY <1>22, <1>0
  DEF Crash
<1>23. ASSUME NEW d \in Files, OtherFormula(d)
      PROVE  PlanInv'
  BY <1>23, <1>0
  DEF OtherFormula
<1>24. CASE UNCHANGED vars
  BY <1>24, <1>0
  DEF vars
<1> QED
  BY <1>1, <1>2, <1>3, <1>4, <1>5, <1>6, <1>7, <1>8, <1>9, <1>10, <1>11, <1>12, <1>13,
     <1>14, <1>15, <1>16, <1>17, <1>18, <1>19, <1>20, <1>21, <1>22, <1>23, <1>24
  DEF Work, Apply, RollBack

-----------------------------------------------------------------------------
(* Kegs.                                                                   *)

\* Phases and results, as the steps need them.
Phases ==
    /\ committed => pc \in {"commit", "idle"}
    /\ pc = "commit" => committed
    /\ pc = "idle" => result \notin {"running", "committed"}
    /\ pc \notin {"idle", "commit"} => result = "running"
    /\ pc = "commit" => result = "committed"
    /\ result \in {"committed", "ok", "cleanup"} => committed
    /\ pc = "fail" => tasks = <<>>

\* They follow from the control part of the invariant.
LEMMA PhaseFacts == ControlInv => Phases
BY DEF ControlInv, Phases, Applying, Undoing, Succeeded

\* The journal's kegs.
LEMMA StagedMoved ==
    ASSUME ControlInv, NEW k, staged' = Append(staged, k)
    PROVE  \A j : j = k \/ Moved(j) => Moved(j)'
<1>1. staged \in Seq(targets) /\ Len(staged) \in Nat
  BY DEF ControlInv
<1>2. /\ Len(staged') = Len(staged) + 1 /\ staged'[Len(staged) + 1] = k
      /\ \A i \in 1 .. Len(staged) : staged'[i] = staged[i]
  BY <1>1
<1> QED BY <1>1, <1>2 DEF Moved

\* Kegs.
LEMMA PlaceStep == RemovalInv /\ Work => PlaceInv'
<1> SUFFICES ASSUME RemovalInv, Work PROVE PlaceInv'
  OBVIOUS
<1>0. /\ PlaceInv /\ CallsKept /\ Phases /\ targets \subseteq Kegs
      /\ place \in [Kegs -> {"rack", "trash", "torn", "gone"}]
  BY CallsFacts, PhaseFacts DEF RemovalInv, TypeOK
<1>m. staged' = staged => \A k : Moved(k)' <=> Moved(k)
  BY DEF Moved
<1> USE DEF diskVars, journalVars, inputVars, NoFault, Fail, Done, RelinkError, PlaceInv,
            Applying, Undoing, Phases, CallsKept, ToDo, Report, Names

<1>1. CASE ReadRecords
  BY <1>1, <1>0, <1>m
  DEF ReadRecords
<1>2. CASE CreateTrash
  BY <1>2, <1>0, <1>m
  DEF CreateTrash
<1>3. CASE CallFails
  BY <1>3, <1>0, <1>m
  DEF CallFails
<1>4. CASE RemoveRecord
  BY <1>4, <1>0, <1>m
  DEF RemoveRecord
<1>5. CASE Unlink
  BY <1>5, <1>0, <1>m
  DEF Unlink
<1>6. CASE UnlinkRecord
  <2>1. UnlinkRest /\ \E u : UnlinkingOf(u)
    <3>1. UnlinkRecord => Arg \in Kegs /\ FormulaOf(Arg) \in Formulae /\ bare \in BOOLEAN
      BY <1>0, Belongs DEF UnlinkRecord, RemovalInv, ControlInv, Names
    <3> QED BY <1>6, <3>1, UnlinkRecordJournal
  <2> QED BY <1>0, <1>m, <2>1 DEF UnlinkRest, UnlinkingOf
<1>7. CASE MoveAway
  <2>1. Arg \in targets /\ Arg \in Kegs
    BY <1>7, <1>0 DEF RemovalInv, PlanInv, MoveAway
  <2>2. \A k : k = Arg \/ Moved(k) => Moved(k)'
    BY <1>7, StagedMoved DEF MoveAway, RemovalInv
  <2> QED BY <1>7, <1>0, <2>1, <2>2 DEF MoveAway
<1>8. CASE RemoveRackDir
  BY <1>8, <1>0, <1>m
  DEF RemoveRackDir
<1>9. CASE Commit
  <2>1. \A k \in targets : place[k] # "rack"
    BY <1>9, <1>0 DEF Commit, RemovalInv, PlanInv
  <2>2. /\ \A k : Holds(CallEach("delete", staged), "delete", k) <=> Moved(k)
        /\ \A k : Moved(k) => k \in targets
    BY CommitFacts DEF RemovalInv, ControlInv, Moved
  <2> QED BY <1>9, <1>0, <2>1, <2>2 DEF Commit
<1>10. CASE Delete
  <2>1. Op = "delete" /\ Arg \in Kegs /\ Arg \in targets /\ tasks # <<>> /\ pc = "commit"
    BY <1>10, <1>0, NextCallFacts DEF Delete, NextCall, RemovalInv
  <2>2. /\ tasks' = Tail(tasks) /\ leftovers \subseteq leftovers'
        /\ UNCHANGED <<targets, before, committed, result, staged, pc>>
        /\ \E c \in {"gone", "trash", "torn"} :
              place' = [place EXCEPT ![Arg] = c] /\ (c = "gone" \/ Arg \in leftovers')
    BY <1>10 DEF Delete
  <2>3. /\ \A k \in Kegs : k # Arg => place'[k] = place[k]
        /\ place'[Arg] # "rack" /\ (place'[Arg] = "gone" \/ leftovers' # {})
    BY <1>0, <2>1, <2>2
  <2>4. /\ \A k : k # Arg /\ Holds(tasks, "delete", k) => Holds(Tail(tasks), "delete", k)
        /\ \A k : Holds(Tail(tasks), "delete", k) => Holds(tasks, "delete", k)
    BY <1>0, <2>1
  <2>5. leftovers # {} => leftovers' # {}
    BY <2>2
  <2>6. committed /\ result = "committed"
    BY <1>0, <2>1
  <2>7. PlaceInv /\ targets \subseteq Kegs
    BY <1>0
  <2> QED BY <2>1, <2>2, <2>3, <2>4, <2>5, <2>6, <2>7
<1>11. CASE EmptyTrash
  BY <1>11, <1>0, <1>m
  DEF EmptyTrash
<1>12. ASSUME NEW d \in Files, UnlinkFile(d)
      PROVE  PlaceInv'
  BY <1>12, <1>0, <1>m
  DEF UnlinkFile
<1>13. CASE Unwind
  <2>1. \A k : Holds(UndoTasks, "putBack", k) <=> Moved(k)
    BY UndoFacts DEF UndoOK
  <2>2. \A k : Moved(k) => k \in targets
    BY DEF RemovalInv, ControlInv, Moved
  <2> QED BY <1>13, <1>0, <1>m, <2>1, <2>2 DEF Unwind
<1>14. CASE RestoreRackDir
  BY <1>14, <1>0, <1>m
  DEF RestoreRackDir
<1>15. CASE PutBack
  BY <1>15, <1>0, <1>m
  DEF PutBack
<1>16. CASE Relink
  <2>1. \A k : Holds(Tail(tasks), "putBack", k) <=> Holds(tasks, "putBack", k)
    BY <1>16, <1>0 DEF Relink
  <2>2. /\ pc = "undo" /\ pc' \in {"undo", "relinking"}
        /\ UNCHANGED <<place, targets, before, committed, result, staged>>
        /\ tasks' = tasks \/ tasks' = Tail(tasks)
        /\ leftovers \subseteq leftovers'
    BY <1>16 DEF Relink
  <2>3. /\ PlaceInv /\ ~committed /\ committed' = committed /\ result' # "ok" /\ pc' # "commit"
        /\ \A k : Moved(k)' <=> Moved(k)
        /\ leftovers # {} => leftovers' # {}
        /\ before' = before /\ targets' = targets /\ place' = place
    BY <1>0, <1>m, <2>2
  <2>4. \A k : Holds(tasks', "putBack", k) <=> Holds(tasks, "putBack", k)
    BY <2>1, <2>2
  <2>5. /\ \A k \in targets : place[k] = "rack" \/ (place[k] = "trash" /\ Moved(k))
        /\ \A k \in targets : place[k] = "rack" \/ Holds(tasks, "putBack", k) \/ leftovers # {}
        /\ \A k \in Kegs : Holds(tasks, "putBack", k) => k \in targets
        /\ \A k \in Kegs \ targets : place[k] = before.place[k]
    BY <2>2, <2>3
  <2> QED BY <2>3, <2>4, <2>5
<1>17. CASE RelinkRecords
  <2>1. \A k : Holds(Tail(tasks), "putBack", k) <=> Holds(tasks, "putBack", k)
    BY <1>17, <1>0 DEF RelinkRecords
  <2>2. /\ pc = "relinking" /\ pc' = "undo" /\ tasks' = Tail(tasks)
        /\ UNCHANGED <<place, targets, before, committed, result, staged>>
        /\ leftovers \subseteq leftovers'
    BY <1>17 DEF RelinkRecords
  <2>3. /\ PlaceInv /\ ~committed /\ committed' = committed /\ result' # "ok" /\ pc' # "commit"
        /\ \A k : Moved(k)' <=> Moved(k)
        /\ leftovers # {} => leftovers' # {}
        /\ before' = before /\ targets' = targets /\ place' = place
    BY <1>0, <1>m, <2>2
  <2>4. \A k : Holds(tasks', "putBack", k) <=> Holds(tasks, "putBack", k)
    BY <2>1, <2>2
  <2>5. /\ \A k \in targets : place[k] = "rack" \/ (place[k] = "trash" /\ Moved(k))
        /\ \A k \in targets : place[k] = "rack" \/ Holds(tasks, "putBack", k) \/ leftovers # {}
        /\ \A k \in Kegs : Holds(tasks, "putBack", k) => k \in targets
        /\ \A k \in Kegs \ targets : place[k] = before.place[k]
    BY <2>2, <2>3
  <2> QED BY <2>3, <2>4, <2>5
<1>18. CASE ClearRecord
  <2>1. \A k : Holds(Tail(Tail(tasks)), "putBack", k) => Holds(tasks, "putBack", k)
    <3>1. pc # "idle" /\ tasks # <<>> /\ Op = "clear" /\ NextCall
      BY <1>18, NextCallFacts DEF ClearRecord, RemovalInv
    <3>2. Tail(tasks) # <<>> /\ Tail(tasks) \in Seq(Calls)
      BY <1>18, <3>1 DEF NextCall, ClearRecord
    <3>3. \A k : Holds(Tail(Tail(tasks)), "putBack", k) => Holds(Tail(tasks), "putBack", k)
      BY <3>2, HoldsTail
    <3>4. \A k : Holds(Tail(tasks), "putBack", k) => Holds(tasks, "putBack", k)
      BY <1>0, <3>1
    <3> QED BY <3>3, <3>4
  <2>2. \A k : Holds(Tail(tasks), "putBack", k) <=> Holds(tasks, "putBack", k)
    BY <1>18, <1>0 DEF ClearRecord
  <2>3. /\ pc = "undo" /\ UNCHANGED <<place, targets, before, committed, pc, result, staged>>
        /\ tasks' = Tail(tasks) \/ (tasks' = Tail(Tail(tasks)) /\ leftovers' # {})
        /\ leftovers \subseteq leftovers'
    BY <1>18 DEF ClearRecord
  <2>4. /\ PlaceInv /\ ~committed /\ committed' = committed /\ result' # "ok" /\ pc' # "commit"
        /\ \A k : Moved(k)' <=> Moved(k)
        /\ leftovers # {} => leftovers' # {}
        /\ before' = before /\ targets' = targets /\ place' = place
    BY <1>0, <1>m, <2>3
  <2>5. /\ \A k : Holds(tasks', "putBack", k) => Holds(tasks, "putBack", k)
        /\ \A k : Holds(tasks, "putBack", k) => Holds(tasks', "putBack", k) \/ leftovers' # {}
    BY <2>1, <2>2, <2>3
  <2>6. /\ \A k \in targets : place[k] = "rack" \/ (place[k] = "trash" /\ Moved(k))
        /\ \A k \in targets : place[k] = "rack" \/ Holds(tasks, "putBack", k) \/ leftovers # {}
        /\ \A k \in Kegs : Holds(tasks, "putBack", k) => k \in targets
        /\ \A k \in Kegs \ targets : place[k] = before.place[k]
    BY <2>3, <2>4
  <2> QED BY <2>4, <2>5, <2>6
<1>19. CASE RestoreRecord
  BY <1>19, <1>0, <1>m
  DEF RestoreRecord
<1>20. CASE Undone
  BY <1>20, <1>0, <1>m
  DEF Undone
<1>21. ASSUME NEW d \in Files, RelinkFile(d)
      PROVE  PlaceInv'
  <2>1. \A k : Holds(Tail(tasks), "putBack", k) => Holds(tasks, "putBack", k)
    BY <1>21, <1>0 DEF RelinkFile
  <2>2. /\ pc = "relinking" /\ pc' \in {"undo", "relinking"}
        /\ UNCHANGED <<place, targets, before, committed, result, staged>>
        /\ tasks' = tasks \/ (tasks' = Tail(tasks) /\ leftovers' # {})
        /\ leftovers \subseteq leftovers'
    BY <1>21 DEF RelinkFile
  <2>3. /\ PlaceInv /\ ~committed /\ committed' = committed /\ result' # "ok" /\ pc' # "commit"
        /\ \A k : Moved(k)' <=> Moved(k)
        /\ leftovers # {} => leftovers' # {}
        /\ before' = before /\ targets' = targets /\ place' = place
    BY <1>0, <1>m, <2>2
  <2>4. /\ \A k : Holds(tasks', "putBack", k) => Holds(tasks, "putBack", k)
        /\ \A k : Holds(tasks, "putBack", k) => Holds(tasks', "putBack", k) \/ leftovers' # {}
    BY <2>1, <2>2
  <2>5. /\ \A k \in targets : place[k] = "rack" \/ (place[k] = "trash" /\ Moved(k))
        /\ \A k \in targets : place[k] = "rack" \/ Holds(tasks, "putBack", k) \/ leftovers # {}
        /\ \A k \in Kegs : Holds(tasks, "putBack", k) => k \in targets
        /\ \A k \in Kegs \ targets : place[k] = before.place[k]
    BY <2>2, <2>3
  <2> QED BY <2>3, <2>4, <2>5
<1>22. CASE Crash
  BY <1>22, <1>0, <1>m
  DEF Crash
<1>23. ASSUME NEW d \in Files, OtherFormula(d)
      PROVE  PlaceInv'
  BY <1>23, <1>0, <1>m
  DEF OtherFormula
<1>24. CASE UNCHANGED vars
  BY <1>m, <1>24, <1>0
  DEF vars
<1> QED
  BY <1>1, <1>2, <1>3, <1>4, <1>5, <1>6, <1>7, <1>8, <1>9, <1>10, <1>11, <1>12, <1>13,
     <1>14, <1>15, <1>16, <1>17, <1>18, <1>19, <1>20, <1>21, <1>22, <1>23, <1>24
  DEF Work, Apply, RollBack

-----------------------------------------------------------------------------
(* Rack directories.                                                       *)

\* Rack directories.
LEMMA RackStep == RemovalInv /\ Work => RackInv'
<1> SUFFICES ASSUME RemovalInv, Work PROVE RackInv'
  OBVIOUS
<1>0. /\ RackInv /\ CallsKept /\ Phases
      /\ pc = "begin" => racked = {}
      /\ result \in {"committed", "ok", "cleanup"} <=> committed /\ result # "crashed"
  BY CallsFacts, PhaseFacts DEF RemovalInv, ControlInv, Succeeded
<1>n. pc # "idle" /\ tasks # <<>> => NextCall
  BY NextCallFacts DEF RemovalInv
<1> USE DEF diskVars, journalVars, inputVars, NoFault, Fail, Done, RelinkError, RackInv,
            Applying, Undoing, Phases, CallsKept, ToDo, Report, Names, Succeeded

<1>1. CASE ReadRecords
  BY <1>1, <1>0
  DEF ReadRecords
<1>2. CASE CreateTrash
  BY <1>2, <1>0
  DEF CreateTrash
<1>3. CASE CallFails
  BY <1>3, <1>0
  DEF CallFails
<1>4. CASE RemoveRecord
  BY <1>4, <1>0
  DEF RemoveRecord
<1>5. CASE Unlink
  BY <1>5, <1>0
  DEF Unlink
<1>6. CASE UnlinkRecord
  <2>1. UnlinkRest /\ \E u : UnlinkingOf(u)
    <3>1. UnlinkRecord => Arg \in Kegs /\ FormulaOf(Arg) \in Formulae /\ bare \in BOOLEAN
      BY <1>0, Belongs DEF UnlinkRecord, RemovalInv, ControlInv, Names
    <3> QED BY <1>6, <3>1, UnlinkRecordJournal
  <2> QED BY <1>0, <2>1 DEF UnlinkRest, UnlinkingOf
<1>7. CASE MoveAway
  BY <1>7, <1>0
  DEF MoveAway
<1>8. CASE RemoveRackDir
  <2>1. Arg \in Cover /\ kind = "uninstall" /\ Arg \in before.rackDir /\ records = Cover
    BY <1>8, <1>0 DEF RemoveRackDir, RemovalInv, PlanInv, RecordInv
  <2>2. \/ rackDir' = rackDir \ {Arg} /\ racked' = racked \cup {Arg}
        \/ UNCHANGED <<rackDir, racked>>
    BY <1>8 DEF RemoveRackDir
  <2>3. UNCHANGED <<before, records, kind, targets, result>> /\ pc' \in {"apply", "fail"}
        /\ (pc' = "fail" => tasks' = <<>>) /\ result = "running"
    BY <1>8, <1>0 DEF RemoveRackDir
  <2> QED BY <1>0, <2>1, <2>2, <2>3
<1>9. CASE Commit
  <2>1. kind = "uninstall" => \A f \in rackDir :
           \E k \in KegsOf(f) \ targets : before.place[k] = "rack"
    BY <1>9, <1>0 DEF Commit, RemovalInv, PlanInv
  <2>2. /\ UNCHANGED <<rackDir, before, racked, records, kind, targets>>
        /\ pc' = "commit"
    BY <1>9 DEF Commit
  <2> QED BY <1>0, <2>1, <2>2
<1>10. CASE Delete
  BY <1>10, <1>0
  DEF Delete
<1>11. CASE EmptyTrash
  BY <1>11, <1>0
  DEF EmptyTrash
<1>12. ASSUME NEW d \in Files, UnlinkFile(d)
      PROVE  RackInv'
  BY <1>12, <1>0
  DEF UnlinkFile
<1>13. CASE Unwind
  <2>1. \A f : Holds(UndoTasks, "makeRack", f) <=> f \in racked
    BY UndoFacts DEF UndoOK
  <2>2. /\ UNCHANGED <<rackDir, before, racked, records, kind, targets, result>>
        /\ pc' = "undo" /\ tasks' = UndoTasks /\ pc = "fail"
    BY <1>13 DEF Unwind
  <2> QED BY <1>0, <2>1, <2>2
<1>14. CASE RestoreRackDir
  <2>1. /\ pc = "undo" /\ Op = "makeRack" /\ tasks # <<>> /\ tasks' = Tail(tasks)
        /\ UNCHANGED <<before, records, racked, kind, targets, pc, result>>
        /\ \/ rackDir' = rackDir \cup {Arg} /\ leftovers' = leftovers
           \/ rackDir' = rackDir /\ leftovers' = leftovers \cup {Arg}
    BY <1>14 DEF RestoreRackDir
  <2>2. /\ Arg \in before.rackDir
        /\ \A f : f # Arg /\ Holds(tasks, "makeRack", f) => Holds(Tail(tasks), "makeRack", f)
        /\ \A f : Holds(Tail(tasks), "makeRack", f) => Holds(tasks, "makeRack", f)
    BY <1>0, <1>n, <2>1 DEF NextCall
  <2>3. result = "running"
    BY <1>0, <2>1
  <2> QED BY <1>0, <2>1, <2>2, <2>3
<1>15. CASE PutBack
  <2>1. /\ \A f : Holds(Tail(tasks), "makeRack", f) <=> Holds(tasks, "makeRack", f)
        /\ result = "running"
    BY <1>15, <1>0 DEF PutBack
  <2>3. /\ pc \in {"undo", "relinking"} /\ pc' \in {"undo", "relinking"}
        /\ UNCHANGED <<rackDir, before, records, racked, kind, targets, result>>
        /\ tasks' = tasks \/ tasks' = Tail(tasks)
        /\ leftovers \subseteq leftovers'
    BY <1>15 DEF PutBack
  <2> QED BY <1>0, <2>1, <2>3
<1>16. CASE Relink
  <2>1. /\ \A f : Holds(Tail(tasks), "makeRack", f) <=> Holds(tasks, "makeRack", f)
        /\ result = "running"
    BY <1>16, <1>0 DEF Relink
  <2>3. /\ pc \in {"undo", "relinking"} /\ pc' \in {"undo", "relinking"}
        /\ UNCHANGED <<rackDir, before, records, racked, kind, targets, result>>
        /\ tasks' = tasks \/ tasks' = Tail(tasks)
        /\ leftovers \subseteq leftovers'
    BY <1>16 DEF Relink
  <2> QED BY <1>0, <2>1, <2>3
<1>17. CASE RelinkRecords
  <2>1. /\ \A f : Holds(Tail(tasks), "makeRack", f) <=> Holds(tasks, "makeRack", f)
        /\ result = "running"
    BY <1>17, <1>0 DEF RelinkRecords
  <2>3. /\ pc \in {"undo", "relinking"} /\ pc' \in {"undo", "relinking"}
        /\ UNCHANGED <<rackDir, before, records, racked, kind, targets, result>>
        /\ tasks' = tasks \/ tasks' = Tail(tasks)
        /\ leftovers \subseteq leftovers'
    BY <1>17 DEF RelinkRecords
  <2> QED BY <1>0, <2>1, <2>3
<1>18. CASE ClearRecord
  <2>1. /\ \A f : Holds(Tail(tasks), "makeRack", f) <=> Holds(tasks, "makeRack", f)
        /\ result = "running"
    BY <1>18, <1>0 DEF ClearRecord
  <2>2. \A k : Holds(Tail(Tail(tasks)), "makeRack", k) => Holds(tasks, "makeRack", k)
    <3>1. Tail(tasks) # <<>> /\ Tail(tasks) \in Seq(Calls)
      BY <1>18, <1>n DEF NextCall, ClearRecord
    <3> QED BY <2>1, <3>1, HoldsTail
  <2>3. /\ pc \in {"undo", "relinking"} /\ pc' \in {"undo", "relinking"}
        /\ UNCHANGED <<rackDir, before, records, racked, kind, targets, result>>
        /\ \/ tasks' = tasks \/ tasks' = Tail(tasks)
           \/ tasks' = Tail(Tail(tasks)) /\ leftovers' # {} /\ Op = "clear"
        /\ leftovers \subseteq leftovers'
    BY <1>18 DEF ClearRecord
  <2> QED BY <1>0, <2>1, <2>2, <2>3
<1>19. CASE RestoreRecord
  <2>1. /\ \A f : Holds(Tail(tasks), "makeRack", f) <=> Holds(tasks, "makeRack", f)
        /\ result = "running"
    BY <1>19, <1>0 DEF RestoreRecord
  <2>3. /\ pc \in {"undo", "relinking"} /\ pc' \in {"undo", "relinking"}
        /\ UNCHANGED <<rackDir, before, records, racked, kind, targets, result>>
        /\ tasks' = tasks \/ tasks' = Tail(tasks)
        /\ leftovers \subseteq leftovers'
    BY <1>19 DEF RestoreRecord
  <2> QED BY <1>0, <2>1, <2>3
<1>20. CASE Undone
  BY <1>20, <1>0
  DEF Undone
<1>21. ASSUME NEW d \in Files, RelinkFile(d)
      PROVE  RackInv'
  BY <1>21, <1>0
  DEF RelinkFile
<1>22. CASE Crash
  BY <1>22, <1>0
  DEF Crash
<1>23. ASSUME NEW d \in Files, OtherFormula(d)
      PROVE  RackInv'
  BY <1>23, <1>0
  DEF OtherFormula
<1>24. CASE UNCHANGED vars
  BY <1>24, <1>0
  DEF vars
<1> QED
  BY <1>1, <1>2, <1>3, <1>4, <1>5, <1>6, <1>7, <1>8, <1>9, <1>10, <1>11, <1>12, <1>13,
     <1>14, <1>15, <1>16, <1>17, <1>18, <1>19, <1>20, <1>21, <1>22, <1>23, <1>24
  DEF Work, Apply, RollBack

-----------------------------------------------------------------------------
(* Symlinks.                                                               *)

\* Symlinks.
LEMMA RecordStep == RemovalInv /\ Work => RecordInv'
<1> SUFFICES ASSUME RemovalInv, Work PROVE RecordInv'
  OBVIOUS
<1>0. /\ RecordInv /\ CallsKept /\ Phases /\ targets \subseteq Kegs /\ NoKeg \notin Kegs
      /\ pc = "begin" => unlinked = <<>>
      /\ unlinked \in Seq(Unlinkings)
      /\ result \in {"committed", "ok", "cleanup"} <=> committed /\ result # "crashed"
  BY CallsFacts, PhaseFacts, RemovalAssumption DEF RemovalInv, ControlInv, Succeeded, TypeOK
<1>n. pc # "idle" /\ tasks # <<>> => NextCall
  BY NextCallFacts DEF RemovalInv
<1>r. pc \in {"undo", "relinking"} =>
         /\ \A name \in Names, f \in Formulae :
               \/ record[name][f] = before.record[name][f] \/ leftovers # {}
               \/ Holds(tasks, "restore", [name |-> name, of |-> f])
         /\ \A name \in Names, f \in Formulae :
               Holds(tasks, "clear", [name |-> name, of |-> f]) => f \in records
  BY DEF RemovalInv, RecordInv, Undoing, ToDo
<1>c. Cover = {FormulaOf(k) : k \in targets}
  BY DEF Cover
<1>h. UNCHANGED targets => Cover' = Cover
  BY DEF Cover
<1> HIDE DEF Cover
<1> USE DEF diskVars, journalVars, inputVars, NoFault, Fail, Done, RelinkError, RecordInv,
            Applying, Undoing, Phases, CallsKept, ToDo, Report, Names, Succeeded

<1>1. CASE ReadRecords
  <2>1. records' \subseteq Cover /\ (pc' = "trash" /\ kind = "uninstall" => records' = Cover)
    BY <1>1, <1>c DEF ReadRecords
  <2>2. /\ UNCHANGED <<record, before, unlinked, targets, kind, committed, result>>
        /\ pc = "begin" /\ pc' \in {"trash", "fail"} /\ (pc' = "fail" => tasks' = <<>>)
    BY <1>1 DEF ReadRecords
  <2> QED BY <1>0, <1>h, <2>1, <2>2
<1>2. CASE CreateTrash
  BY <1>2, <1>0, <1>h
  DEF CreateTrash
<1>3. CASE CallFails
  BY <1>3, <1>0, <1>h
  DEF CallFails
<1>4. CASE RemoveRecord
  <2>1. Arg \in Formulae /\ Arg \in Cover /\ kind = "uninstall" /\ records = Cover
        /\ before.record[Op][Arg] \in targets \cup {NoKeg} /\ Op \in Names
    BY <1>4, <1>0 DEF RemoveRecord, RemovalInv, PlanInv
  <2>2. \A n \in Names, g \in Formulae :
           record'[n][g] = IF n = Op /\ g = Arg THEN NoKeg ELSE record[n][g]
    BY <1>4, <2>1, RemoveRecordFacts DEF RemovalInv
  <2>3. UNCHANGED <<records, before, unlinked, targets, kind, committed, result, pc>>
        /\ pc = "apply" /\ tasks' = Tail(tasks)
    BY <1>4 DEF RemoveRecord
  <2>4. ~committed /\ result = "running"
    BY <1>0, <2>3
  <2>7. /\ before' = before /\ records' = records /\ targets' = targets /\ kind' = kind
        /\ pc' = "apply" /\ ~committed' /\ result' = "running"
    BY <2>3, <2>4
  <2>5. /\ records' = Cover' /\ Cover' = Cover
        /\ \A i \in 1 .. Len(unlinked') :
              unlinked'[i].keg \in targets' /\ FormulaOf(unlinked'[i].keg) \in records'
    BY <1>0, <1>h, <2>1, <2>3
  <2>6. \A name \in Names, f \in Formulae :
           /\ record'[name][f] # before.record[name][f] => f \in records
           /\ record'[name][f] \in {before.record[name][f], NoKeg}
           /\ before.record[name][f] \notin targets => record'[name][f] = before.record[name][f]
    BY <1>0, <2>1, <2>2, <2>3
  <2> QED BY <2>5, <2>6, <2>7
<1>5. CASE Unlink
  BY <1>5, <1>0, <1>h
  DEF Unlink
<1>6. CASE UnlinkRecord
  <2>1. Arg \in Kegs /\ FormulaOf(Arg) \in Formulae /\ bare \in BOOLEAN
        /\ kind = "uninstall" /\ Arg \in targets /\ records = Cover /\ pc = "unlinking"
    BY <1>6, <1>0, Belongs DEF UnlinkRecord, RemovalInv, ControlInv, PlanInv
  <2>2. PICK u : UnlinkingOf(u)
    BY <1>6, <2>1, UnlinkRecordJournal
  <2>3. UnlinkRest
    BY <1>6, <2>1, UnlinkRecordJournal
  <2>4. \A n \in Names, g \in Formulae :
           \/ record'[n][g] = record[n][g]
           \/ n = "linked" /\ g = FormulaOf(Arg) /\ record[n][g] = Arg /\ record'[n][g] = NoKeg
    BY <1>6, <2>1, UnlinkRecordFacts DEF RemovalInv
  <2>5. FormulaOf(Arg) \in Cover
    BY <2>1, <1>c
  <2>6. \A i \in 1 .. Len(unlinked') :
           unlinked'[i].keg \in targets /\ FormulaOf(unlinked'[i].keg) \in records
    <3>1. CASE unlinked' = unlinked
      BY <1>0, <3>1
    <3>2. CASE unlinked' = Append(unlinked, u)
      <4>1. /\ Len(unlinked') = Len(unlinked) + 1 /\ unlinked'[Len(unlinked) + 1] = u
            /\ \A i \in 1 .. Len(unlinked) : unlinked'[i] = unlinked[i]
            /\ Len(unlinked) \in Nat
        BY <1>0, <3>2, <2>2 DEF UnlinkingOf
      <4>2. u.keg = Arg
        BY <2>2 DEF UnlinkingOf
      <4> QED BY <1>0, <2>1, <2>5, <4>1, <4>2
    <3> QED BY <2>2, <3>1, <3>2 DEF UnlinkingOf
  <2>7. ~committed /\ result = "running" /\ pc' \in {"apply", "fail"}
        /\ (pc' = "fail" => tasks' = <<>>)
    BY <1>0, <2>1, <2>2 DEF UnlinkingOf
  <2>8. UNCHANGED <<records, before, targets, kind, committed, result>>
    BY <2>3 DEF UnlinkRest
  <2>9. \A n \in Names, g \in Formulae :
           record'[n][g] # before.record[n][g] => g \in records
    BY <1>0, <2>1, <2>4, <2>5, <2>8
  <2>10. \A n \in Names, g \in Formulae :
            /\ record'[n][g] \in {before.record[n][g], NoKeg}
            /\ before.record[n][g] \notin targets => record'[n][g] = before.record[n][g]
    BY <1>0, <2>1, <2>4, <2>8
  <2> QED BY <1>0, <1>h, <2>1, <2>6, <2>7, <2>8, <2>9, <2>10
<1>7. CASE MoveAway
  BY <1>7, <1>0, <1>h
  DEF MoveAway
<1>8. CASE RemoveRackDir
  BY <1>8, <1>0, <1>h
  DEF RemoveRackDir
<1>9. CASE Commit
  <2>1. \A n \in Names, g \in Formulae : record[n][g] \notin targets
    BY <1>9, <1>0 DEF Commit, RemovalInv, PlanInv
  <2>2. UNCHANGED <<record, records, before, unlinked, targets, kind>>
        /\ pc = "apply" /\ pc' = "commit"
    BY <1>9 DEF Commit
  <2> QED BY <1>0, <1>h, <2>1, <2>2
<1>10. CASE Delete
  <2>1. /\ UNCHANGED <<record, before, records, unlinked, kind, targets, committed, result>>
        /\ pc = "commit" /\ pc' = "commit"
    BY <1>10 DEF Delete
  <2> QED BY <1>0, <1>h, <2>1
<1>11. CASE EmptyTrash
  BY <1>11, <1>0, <1>h
  DEF EmptyTrash
<1>12. ASSUME NEW d \in Files, UnlinkFile(d)
      PROVE  RecordInv'
  BY <1>12, <1>0, <1>h
  DEF UnlinkFile
<1>13. CASE Unwind
  <2>1. /\ \A w : Holds(UndoTasks, "restore", w) <=> w \in [name : Names, of : records]
        /\ \A w : Holds(UndoTasks, "clear", w) <=> w \in [name : Names, of : records]
    BY UndoFacts DEF UndoOK
  <2>2. /\ UNCHANGED <<record, before, unlinked, records, kind, targets, committed, result>>
        /\ pc' = "undo" /\ tasks' = UndoTasks /\ pc = "fail"
    BY <1>13 DEF Unwind
  <2>3. \A name \in Names, f \in Formulae :
           /\ f \in records => [name |-> name, of |-> f] \in [name : Names, of : records]
           /\ [name |-> name, of |-> f] \in [name : Names, of : records] => f \in records
    OBVIOUS
  <2>4. result = "running" /\ ~committed
    BY <1>0, <2>2
  <2> QED BY <1>0, <1>h, <2>1, <2>2, <2>3, <2>4
<1>14. CASE RestoreRackDir
  <2>1. /\ \A w : Holds(Tail(tasks), "restore", w) <=> Holds(tasks, "restore", w)
        /\ \A w : Holds(Tail(tasks), "clear", w) <=> Holds(tasks, "clear", w)
        /\ result = "running" /\ ~committed
    BY <1>14, <1>0 DEF RestoreRackDir
  <2>3. /\ pc \in {"undo", "relinking"} /\ pc' \in {"undo", "relinking"}
        /\ UNCHANGED <<record, before, records, unlinked, kind, targets, committed, result>>
        /\ tasks' = tasks \/ tasks' = Tail(tasks)
        /\ leftovers \subseteq leftovers'
    BY <1>14 DEF RestoreRackDir
  <2>4. leftovers # {} => leftovers' # {}
    BY <2>3
  <2>5. \A w : /\ Holds(tasks', "restore", w) <=> Holds(tasks, "restore", w)
               /\ Holds(tasks', "clear", w) <=> Holds(tasks, "clear", w)
    BY <2>1, <2>3
  <2>6. \A n \in Names, g \in Formulae :
           \/ record'[n][g] = before'.record[n][g] \/ leftovers' # {}
           \/ Holds(tasks', "restore", [name |-> n, of |-> g])
    BY <1>r, <2>3, <2>4, <2>5
  <2>7. \A n \in Names, g \in Formulae :
           Holds(tasks', "clear", [name |-> n, of |-> g]) => g \in records
    BY <1>r, <2>3, <2>5
  <2> QED BY <1>0, <1>h, <2>1, <2>3, <2>6, <2>7
<1>15. CASE PutBack
  <2>1. /\ \A w : Holds(Tail(tasks), "restore", w) <=> Holds(tasks, "restore", w)
        /\ \A w : Holds(Tail(tasks), "clear", w) <=> Holds(tasks, "clear", w)
        /\ result = "running" /\ ~committed
    BY <1>15, <1>0 DEF PutBack
  <2>3. /\ pc \in {"undo", "relinking"} /\ pc' \in {"undo", "relinking"}
        /\ UNCHANGED <<record, before, records, unlinked, kind, targets, committed, result>>
        /\ tasks' = tasks \/ tasks' = Tail(tasks)
        /\ leftovers \subseteq leftovers'
    BY <1>15 DEF PutBack
  <2>4. leftovers # {} => leftovers' # {}
    BY <2>3
  <2>5. \A w : /\ Holds(tasks', "restore", w) <=> Holds(tasks, "restore", w)
               /\ Holds(tasks', "clear", w) <=> Holds(tasks, "clear", w)
    BY <2>1, <2>3
  <2>6. \A n \in Names, g \in Formulae :
           \/ record'[n][g] = before'.record[n][g] \/ leftovers' # {}
           \/ Holds(tasks', "restore", [name |-> n, of |-> g])
    BY <1>r, <2>3, <2>4, <2>5
  <2>7. \A n \in Names, g \in Formulae :
           Holds(tasks', "clear", [name |-> n, of |-> g]) => g \in records
    BY <1>r, <2>3, <2>5
  <2> QED BY <1>0, <1>h, <2>1, <2>3, <2>6, <2>7
<1>16. CASE Relink
  <2>1. /\ \A w : Holds(Tail(tasks), "restore", w) <=> Holds(tasks, "restore", w)
        /\ \A w : Holds(Tail(tasks), "clear", w) <=> Holds(tasks, "clear", w)
        /\ result = "running" /\ ~committed
    BY <1>16, <1>0 DEF Relink
  <2>3. /\ pc \in {"undo", "relinking"} /\ pc' \in {"undo", "relinking"}
        /\ UNCHANGED <<record, before, records, unlinked, kind, targets, committed, result>>
        /\ tasks' = tasks \/ tasks' = Tail(tasks)
        /\ leftovers \subseteq leftovers'
    BY <1>16 DEF Relink
  <2>4. leftovers # {} => leftovers' # {}
    BY <2>3
  <2>5. \A w : /\ Holds(tasks', "restore", w) <=> Holds(tasks, "restore", w)
               /\ Holds(tasks', "clear", w) <=> Holds(tasks, "clear", w)
    BY <2>1, <2>3
  <2>6. \A n \in Names, g \in Formulae :
           \/ record'[n][g] = before'.record[n][g] \/ leftovers' # {}
           \/ Holds(tasks', "restore", [name |-> n, of |-> g])
    BY <1>r, <2>3, <2>4, <2>5
  <2>7. \A n \in Names, g \in Formulae :
           Holds(tasks', "clear", [name |-> n, of |-> g]) => g \in records
    BY <1>r, <2>3, <2>5
  <2> QED BY <1>0, <1>h, <2>1, <2>3, <2>6, <2>7
<1>17. CASE RelinkRecords
  <2>1. /\ pc = "relinking" /\ Op = "relink" /\ tasks # <<>> /\ result = "running"
        /\ Arg \in Unlinkings /\ Arg.keg \in Kegs /\ FormulaOf(Arg.keg) \in Formulae
        /\ ToDo("relink", Arg) /\ ~committed
    BY <1>17, <1>0, <1>n, Belongs DEF RelinkRecords, NextCall
  <2>2. FormulaOf(Arg.keg) \in records
    BY <1>0, <2>1 DEF RemovalInv, RelinkInv
  <2>3. \A n \in Names, g \in Formulae :
           record'[n][g] = record[n][g] \/ g = FormulaOf(Arg.keg)
    BY <1>17, <2>1, RelinkRecordsFacts DEF RemovalInv
  <2>4. /\ pc' = "undo" /\ tasks' = Tail(tasks)
        /\ UNCHANGED <<before, records, unlinked, kind, targets, committed, result>>
        /\ leftovers \subseteq leftovers'
    BY <1>17 DEF RelinkRecords
  <2>5. /\ \A w : Holds(Tail(tasks), "restore", w) <=> Holds(tasks, "restore", w)
        /\ \A w : Holds(Tail(tasks), "clear", w) <=> Holds(tasks, "clear", w)
        /\ \A n \in Names : Holds(Tail(tasks), "restore",
                                  [name |-> n, of |-> FormulaOf(Arg.keg)])
    BY <1>0, <1>n, <2>1 DEF NextCall
  <2> QED BY <1>0, <1>h, <2>1, <2>2, <2>3, <2>4, <2>5
<1>18. CASE ClearRecord
  <2>1. /\ pc = "undo" /\ Op = "clear" /\ tasks # <<>> /\ result = "running"
        /\ Arg.name \in Names /\ Arg.of \in Formulae /\ ~committed
        /\ Arg = [name |-> Arg.name, of |-> Arg.of] /\ ToDo("clear", Arg)
    BY <1>18, <1>0, <1>n DEF ClearRecord, NextCall
  <2>2. Arg.of \in records
    BY <1>0, <2>1
  <2>3. \A n \in Names, g \in Formulae :
           record'[n][g] = record[n][g] \/ (n = Arg.name /\ g = Arg.of)
    BY <1>18, <2>1, ClearRecordFacts DEF RemovalInv
  <2>4. /\ pc' = "undo"
        /\ tasks' = Tail(tasks) \/ (tasks' = Tail(Tail(tasks)) /\ leftovers' # {})
        /\ UNCHANGED <<before, records, unlinked, kind, targets, committed, result>>
        /\ leftovers \subseteq leftovers'
    BY <1>18 DEF ClearRecord
  <2>5. /\ \A w : Holds(Tail(tasks), "restore", w) <=> Holds(tasks, "restore", w)
        /\ \A w : Holds(Tail(tasks), "clear", w) => Holds(tasks, "clear", w)
        /\ Holds(Tail(tasks), "restore", [name |-> Arg.name, of |-> Arg.of])
    BY <1>0, <1>n, <2>1 DEF NextCall
  <2>6. \A w : Holds(Tail(Tail(tasks)), "clear", w) => Holds(tasks, "clear", w)
    <3>1. Tail(tasks) # <<>> /\ Tail(tasks) \in Seq(Calls)
      BY <1>n, <2>1 DEF NextCall
    <3> QED BY <2>5, <3>1, HoldsTail
  <2>7. \A w : w.of = w.of => (Holds(tasks', "clear", w) => Holds(tasks, "clear", w))
    BY <2>4, <2>5, <2>6
  <2>8. \A n \in Names, g \in Formulae :
           \/ record'[n][g] = before.record[n][g] \/ leftovers' # {}
           \/ Holds(tasks', "restore", [name |-> n, of |-> g])
    <3> TAKE n \in Names, g \in Formulae
    <3>1. CASE n = Arg.name /\ g = Arg.of
      BY <2>4, <2>5, <3>1
    <3>2. CASE ~(n = Arg.name /\ g = Arg.of)
      <4>1. \/ leftovers' # {}
            \/ Holds(tasks, "restore", [name |-> n, of |-> g])
               => Holds(tasks', "restore", [name |-> n, of |-> g])
        BY <2>4, <2>5
      <4>2. record'[n][g] = record[n][g] /\ leftovers \subseteq leftovers'
        BY <2>3, <2>4, <3>2
      <4> QED BY <1>0, <2>1, <4>1, <4>2
    <3> QED BY <3>1, <3>2
  <2>9. \A n \in Names, g \in Formulae :
           record'[n][g] # before.record[n][g] => g \in records
    BY <1>0, <2>2, <2>3
  <2> QED BY <1>0, <1>h, <2>1, <2>4, <2>7, <2>8, <2>9
<1>19. CASE RestoreRecord
  <2>1. /\ pc = "undo" /\ Op = "restore" /\ tasks # <<>> /\ result = "running"
        /\ Arg.name \in Names /\ Arg.of \in Formulae /\ ~committed
        /\ Arg = [name |-> Arg.name, of |-> Arg.of]
    BY <1>19, <1>0, <1>n DEF RestoreRecord, NextCall
  <2>3. \/ record' = record /\ leftovers' = leftovers \cup {Arg.name}
        \/ /\ \A n \in Names, g \in Formulae :
                 record'[n][g] = IF n = Arg.name /\ g = Arg.of
                                 THEN before.record[n][g] ELSE record[n][g]
           /\ leftovers' = leftovers
    BY <1>19, <2>1, RestoreRecordFacts DEF RemovalInv, PastInv, RecordType
  <2>4. /\ pc' = "undo" /\ tasks' = Tail(tasks)
        /\ UNCHANGED <<before, records, unlinked, kind, targets, committed, result>>
    BY <1>19 DEF RestoreRecord
  <2>5. /\ \A w : w # Arg => (Holds(Tail(tasks), "restore", w) <=> Holds(tasks, "restore", w))
        /\ \A w : Holds(Tail(tasks), "clear", w) => Holds(tasks, "clear", w)
    BY <1>0, <1>n, <2>1 DEF NextCall
  <2>6. \A n \in Names, g \in Formulae :
           [name |-> n, of |-> g] = Arg => n = Arg.name /\ g = Arg.of
    BY <2>1
  <2>8. \A n \in Names, g \in Formulae :
           \/ record'[n][g] = before.record[n][g] \/ leftovers' # {}
           \/ Holds(tasks', "restore", [name |-> n, of |-> g])
    <3> TAKE n \in Names, g \in Formulae
    <3>1. CASE n = Arg.name /\ g = Arg.of
      BY <2>3, <3>1
    <3>2. CASE ~(n = Arg.name /\ g = Arg.of)
      <4>1. [name |-> n, of |-> g] # Arg
        BY <2>6, <3>2
      <4>2. Holds(tasks, "restore", [name |-> n, of |-> g])
            => Holds(tasks', "restore", [name |-> n, of |-> g])
        BY <2>4, <2>5, <4>1
      <4>3. record'[n][g] = record[n][g] /\ leftovers \subseteq leftovers'
        BY <2>3, <3>2
      <4> QED BY <1>0, <2>1, <4>2, <4>3
    <3> QED BY <3>1, <3>2
  <2>9. \A n \in Names, g \in Formulae :
           record'[n][g] # before.record[n][g] => g \in records
    BY <1>0, <2>3
  <2> QED BY <1>0, <1>h, <2>1, <2>4, <2>5, <2>8, <2>9
<1>20. CASE Undone
  BY <1>20, <1>0, <1>h
  DEF Undone
<1>21. ASSUME NEW d \in Files, RelinkFile(d)
      PROVE  RecordInv'
  <2>1. /\ \A w : Holds(Tail(tasks), "restore", w) <=> Holds(tasks, "restore", w)
        /\ \A w : Holds(Tail(tasks), "clear", w) <=> Holds(tasks, "clear", w)
        /\ result = "running" /\ ~committed
    BY <1>21, <1>0 DEF RelinkFile
  <2>3. /\ pc \in {"undo", "relinking"} /\ pc' \in {"undo", "relinking"}
        /\ UNCHANGED <<record, before, records, unlinked, kind, targets, committed, result>>
        /\ tasks' = tasks \/ tasks' = Tail(tasks)
        /\ leftovers \subseteq leftovers'
    BY <1>21 DEF RelinkFile
  <2>4. leftovers # {} => leftovers' # {}
    BY <2>3
  <2>5. \A w : /\ Holds(tasks', "restore", w) <=> Holds(tasks, "restore", w)
               /\ Holds(tasks', "clear", w) <=> Holds(tasks, "clear", w)
    BY <2>1, <2>3
  <2>6. \A n \in Names, g \in Formulae :
           \/ record'[n][g] = before'.record[n][g] \/ leftovers' # {}
           \/ Holds(tasks', "restore", [name |-> n, of |-> g])
    BY <1>r, <2>3, <2>4, <2>5
  <2>7. \A n \in Names, g \in Formulae :
           Holds(tasks', "clear", [name |-> n, of |-> g]) => g \in records
    BY <1>r, <2>3, <2>5
  <2> QED BY <1>0, <1>h, <2>1, <2>3, <2>6, <2>7
<1>22. CASE Crash
  BY <1>22, <1>0, <1>h
  DEF Crash
<1>23. ASSUME NEW d \in Files, OtherFormula(d)
      PROVE  RecordInv'
  BY <1>23, <1>0, <1>h
  DEF OtherFormula
<1>24. CASE UNCHANGED vars
  BY <1>h, <1>24, <1>0
  DEF vars
<1> QED
  BY <1>1, <1>2, <1>3, <1>4, <1>5, <1>6, <1>7, <1>8, <1>9, <1>10, <1>11, <1>12, <1>13,
     <1>14, <1>15, <1>16, <1>17, <1>18, <1>19, <1>20, <1>21, <1>22, <1>23, <1>24
  DEF Work, Apply, RollBack

-----------------------------------------------------------------------------
(* Prefix links and what the journal says of them.                         *)

\* What is called for is a keg where it should be one.
LEMMA UnlinkArg == ControlInv /\ Applying => \A k : ToDo("unlink", k) => k \in Kegs
<1> SUFFICES ASSUME ControlInv, Applying, NEW k, ToDo("unlink", k) PROVE k \in Kegs
  OBVIOUS
<1>1. PICK i \in 1 .. Len(tasks) : tasks[i] = [op |-> "unlink", arg |-> k]
  BY DEF ToDo, Holds
<1>2. tasks[i] \in ApplyCalls
  BY DEF ControlInv, Applying
<1> QED BY <1>1, <1>2 DEF ApplyCalls, Names

\* Nothing dangles, so a link that is no keg's is free or somebody else's.
LEMMA LinkFacts ==
    RemovalInv => /\ \A d \in Files : ~Dangling(d)
                  /\ link \in [Files -> Kegs \cup {"free", "other"}]
                  /\ "free" \notin Kegs /\ "other" \notin Kegs
BY RemovalAssumption DEF RemovalInv, LinkInv, Dangling, TypeOK

\* The journal says of an unlink that took no link away that there was none, and of
\* another that all the links of its keg were there.
Journalled(u) ==
    /\ u.bare => \A d \in Files : before.link[d] # u.keg
    /\ ~u.bare => \A d \in Ships[u.keg] : before.link[d] = u.keg

\* All of the journal is so.
Heard == \A i \in 1 .. Len(unlinked) : Journalled(unlinked[i])

\* The end of an unlink is.
LEMMA UnlinkedWhole ==
    ASSUME RemovalInv, UnlinkRecord, Arg \in Kegs, NEW u, u.keg = Arg, u.bare <=> bare
    PROVE  Journalled(u)
<1>1. pc = "unlinking" /\ todo = {}
  BY DEF UnlinkRecord
<1>2. /\ \A d \in Files : before.link[d] = Arg => ~bare
      /\ ~bare => \E d \in Files : before.link[d] = Arg
  BY <1>1 DEF RemovalInv, UnlinkInv
<1>3. (\E d \in Files : before.link[d] = Arg) => \A d \in Ships[Arg] : before.link[d] = Arg
  BY DEF RemovalInv, PastInv
<1>4. ~u.bare => \A d \in Ships[u.keg] : before.link[d] = u.keg
  BY <1>2, <1>3, Zenon
<1>5. u.bare => \A d \in Files : before.link[d] # u.keg
  BY <1>2, Zenon
<1> QED BY <1>4, <1>5, Zenon DEF Journalled

\* It follows from the invariant,
LEMMA HeardFacts == RemovalInv => Heard /\ clear = {}
BY Zenon DEF RemovalInv, LinkInv, Journalled, Heard

\* and stays so.
LEMMA HeardStep == RemovalInv /\ Work => Heard'
<1> SUFFICES ASSUME RemovalInv, Work PROVE Heard'
  OBVIOUS
<1>1. CASE UnlinkRecord
  <2>1. Arg \in Kegs /\ bare \in BOOLEAN
    BY <1>1, CallsFacts DEF CallsKept, UnlinkRecord, RemovalInv, ControlInv, Applying, Names
  <2>2. PICK u : UnlinkingOf(u)
    BY <1>1, <2>1, UnlinkRecordJournal
  <2>3. before' = before
    BY <1>1 DEF UnlinkRecord, inputVars
  <2>4. CASE unlinked' = unlinked
    BY <2>3, <2>4, HeardFacts DEF Heard, Journalled
  <2>5. CASE unlinked' = Append(unlinked, u)
    <3>1. Journalled(u)
      BY <1>1, <2>1, <2>2, UnlinkedWhole DEF UnlinkingOf
    <3>2. Journalled(u)'
      BY <2>3, <3>1, Zenon DEF Journalled
    <3>3. \A i \in 1 .. Len(unlinked) : Journalled(unlinked[i])
      BY HeardFacts DEF Heard
    <3>4. \A x : Journalled(x) => Journalled(x)'
      BY <2>3, Zenon DEF Journalled
    <3>5. /\ Len(unlinked') = Len(unlinked) + 1 /\ unlinked'[Len(unlinked) + 1] = u
          /\ \A i \in 1 .. Len(unlinked) : unlinked'[i] = unlinked[i]
          /\ Len(unlinked) \in Nat
      BY <2>2, <2>5 DEF UnlinkingOf, RemovalInv, ControlInv
    <3> QED BY <3>2, <3>3, <3>4, <3>5 DEF Heard
  <2> QED BY <2>2, <2>4, <2>5 DEF UnlinkingOf
<1>2. CASE ~UnlinkRecord
  <2>1. UNCHANGED <<unlinked, before>>
    BY <1>2 DEF Work, Apply, RollBack, ReadRecords, CreateTrash, CallFails, RemoveRecord, Unlink,
     MoveAway, RemoveRackDir, Commit, Delete, EmptyTrash, UnlinkFile, Unwind,
     RestoreRackDir, PutBack, Relink, RelinkRecords, ClearRecord, RestoreRecord, Undone,
     RelinkFile, Crash, OtherFormula, vars, inputVars, journalVars
  <2> QED BY <2>1, HeardFacts, Zenon DEF Heard, Journalled
<1> QED BY <1>1, <1>2

\* The links themselves.
Links ==
    /\ \A d \in Files : link[d] \in Kegs =>
          link[d] = before.link[d] /\ place[link[d]] = "rack"
    /\ \A d \in Files : before.link[d] \in Kegs \ targets => link[d] = before.link[d]

\* Every step keeps them so.
LEMMA LinksStep == RemovalInv /\ Work => Links' /\ clear' = {}
<1> SUFFICES ASSUME RemovalInv, Work PROVE Links' /\ clear' = {}
  OBVIOUS
<1>0. /\ Links /\ CallsKept /\ Phases /\ targets \subseteq Kegs /\ clear = {}
      /\ place \in [Kegs -> {"rack", "trash", "torn", "gone"}]
      /\ link \in [Files -> Kegs \cup {"free", "other"}]
      /\ "free" \notin Kegs /\ "other" \notin Kegs
      /\ \A d \in Files : ~Dangling(d)
  BY CallsFacts, PhaseFacts, HeardFacts, LinkFacts DEF RemovalInv, TypeOK, LinkInv, Links
<1>n. pc # "idle" /\ tasks # <<>> => NextCall
  BY NextCallFacts DEF RemovalInv
<1> USE DEF diskVars, journalVars, inputVars, NoFault, Fail, Done, RelinkError, Applying,
            Undoing, Phases, CallsKept, ToDo, Report, Names, Links

<1>1. CASE ReadRecords
  BY <1>1, <1>0
  DEF ReadRecords
<1>2. CASE CreateTrash
  BY <1>2, <1>0
  DEF CreateTrash
<1>3. CASE CallFails
  BY <1>3, <1>0
  DEF CallFails
<1>4. CASE RemoveRecord
  BY <1>4, <1>0
  DEF RemoveRecord
<1>5. CASE Unlink
  BY <1>5, <1>0
  DEF Unlink
<1>6. CASE UnlinkRecord
  <2>1. UNCHANGED <<place, link, before, targets, clear>>
    BY <1>6, Zenon DEF UnlinkRecord
  <2> QED BY <1>0, <2>1
<1>7. CASE MoveAway
  <2>1. Arg \in Kegs /\ pc = "apply" /\ Op = "move" /\ Arg \in targets /\ ~ToDo("unlink", Arg)
    BY <1>7, <1>0 DEF MoveAway, RemovalInv, PlanInv
  <2>2. \A d \in Files : link[d] # Arg
    BY <2>1 DEF RemovalInv, UnlinkInv
  <2>3. place' = [place EXCEPT ![Arg] = "trash"] /\ UNCHANGED <<link, before, targets, clear>>
    BY <1>7 DEF MoveAway
  <2> QED BY <1>0, <2>1, <2>2, <2>3
<1>8. CASE RemoveRackDir
  BY <1>8, <1>0
  DEF RemoveRackDir
<1>9. CASE Commit
  BY <1>9, <1>0
  DEF Commit
<1>10. CASE Delete
  <2>1. Arg \in Kegs /\ Arg \in targets
    BY <1>10, <1>0, <1>n DEF Delete, NextCall, RemovalInv, PlaceInv
  <2>2. /\ UNCHANGED <<link, before, targets, clear>>
        /\ \E c : place' = [place EXCEPT ![Arg] = c]
    BY <1>10 DEF Delete
  <2>3. place[Arg] # "rack"
    BY <1>10, <1>0, <2>1 DEF Delete, RemovalInv, PlaceInv
  <2>4. \A k \in Kegs : k # Arg => place'[k] = place[k]
    BY <1>0, <2>1, <2>2
  <2> QED BY <1>0, <2>1, <2>2, <2>3, <2>4
<1>11. CASE EmptyTrash
  BY <1>11, <1>0
  DEF EmptyTrash
<1>12. ASSUME NEW d \in Files, UnlinkFile(d)
      PROVE  Links' /\ clear' = {}
  <2>1. /\ link[d] = Arg /\ Arg \in targets
        /\ UNCHANGED <<place, before, targets, clear>>
        /\ link' \in {link, [link EXCEPT ![d] = "free"]}
    BY <1>12, <1>0 DEF UnlinkFile, RemovalInv, UnlinkInv, PlanInv
  <2> QED BY <1>0, <2>1
<1>13. CASE Unwind
  BY <1>13, <1>0
  DEF Unwind
<1>14. CASE RestoreRackDir
  BY <1>14, <1>0
  DEF RestoreRackDir
<1>15. CASE PutBack
  <2>1. Arg \in Kegs
    BY <1>15, <1>0, <1>n DEF PutBack, NextCall
  <2>2. /\ UNCHANGED <<link, before, targets, clear>>
        /\ place' \in {place, [place EXCEPT ![Arg] = "rack"]}
    BY <1>15 DEF PutBack
  <2> QED BY <1>0, <2>1, <2>2
<1>16. CASE Relink
  <2>1. UNCHANGED <<place, link, before, targets>>
        /\ (clear' = clear \/ clear' = {d \in Planned(Arg) : Dangling(d)})
    BY <1>16 DEF Relink
  <2>2. Arg \in Unlinkings /\ Arg.keg \in Kegs
    BY <1>16, <1>0, <1>n DEF Relink, NextCall
  <2>3. Planned(Arg) \subseteq Files
    BY <2>2, RemovalAssumption DEF Planned
  <2>4. clear' = {}
    BY <1>0, <2>1, <2>3
  <2> QED BY <1>0, <2>1, <2>4
<1>17. CASE RelinkRecords
  BY <1>17, <1>0
  DEF RelinkRecords
<1>18. CASE ClearRecord
  BY <1>18, <1>0
  DEF ClearRecord
<1>19. CASE RestoreRecord
  BY <1>19, <1>0
  DEF RestoreRecord
<1>20. CASE Undone
  BY <1>20, <1>0
  DEF Undone
<1>21. ASSUME NEW d \in Files, RelinkFile(d)
      PROVE  Links' /\ clear' = {}
  <2>1. /\ pc = "relinking" /\ d \in todo /\ d \in Files /\ tasks # <<>> /\ Op = "relink"
        /\ Arg \in Unlinkings /\ Arg.keg \in Kegs /\ ToDo("relink", Arg)
    BY <1>21, <1>0, <1>n DEF RelinkFile, NextCall
  <2>2. PICK i \in 1 .. Len(unlinked) : unlinked[i] = Arg
    BY <1>0, <2>1 DEF RemovalInv, RelinkInv
  <2>3. place[Arg.keg] = "rack" /\ ~Arg.bare /\ d \in Ships[Arg.keg]
    BY <2>1, Zenon DEF RemovalInv, RelinkInv
  <2>4. before.link[d] = Arg.keg
    BY <2>2, <2>3, HeardFacts, Zenon DEF Heard, Journalled
  <2>5. Arg.keg \in targets
    BY <2>2 DEF RemovalInv, RecordInv
  <2>6. /\ UNCHANGED <<place, before, targets>>
        /\ clear' = clear \/ clear' = {}
        /\ link' = link \/ link' = [link EXCEPT ![d] = Arg.keg] \/ d \in clear
    BY <1>21 DEF RelinkFile
  <2> QED BY <1>0, <2>1, <2>3, <2>4, <2>5, <2>6
<1>22. CASE Crash
  BY <1>22, <1>0
  DEF Crash
<1>23. ASSUME NEW d \in Files, OtherFormula(d)
      PROVE  Links' /\ clear' = {}
  BY <1>23, <1>0
  DEF OtherFormula
<1>24. CASE UNCHANGED vars
  BY <1>24, <1>0
  DEF vars
<1> QED
  BY <1>1, <1>2, <1>3, <1>4, <1>5, <1>6, <1>7, <1>8, <1>9, <1>10, <1>11, <1>12, <1>13,
     <1>14, <1>15, <1>16, <1>17, <1>18, <1>19, <1>20, <1>21, <1>22, <1>23, <1>24
  DEF Work, Apply, RollBack

\* Links.
LEMMA LinkStep == RemovalInv /\ Work => LinkInv'
<1> SUFFICES ASSUME RemovalInv, Work PROVE LinkInv'
  OBVIOUS
<1>1. Links' /\ clear' = {} /\ Heard'
  BY LinksStep, HeardStep
<1> QED BY <1>1, Zenon DEF LinkInv, Links, Heard, Journalled

-----------------------------------------------------------------------------
(* Unlinking.                                                              *)

\* While kegs are moved away, their links are about to go.
Pending ==
    Applying =>
        /\ \A d \in Files : link[d] \in targets => ToDo("unlink", link[d])
        /\ \A d \in Files : ToDo("unlink", before.link[d]) =>
              link[d] = before.link[d] \/ (pc = "unlinking" /\ Arg = before.link[d])

\* The walk of the unlink that is under way.
Walking ==
    pc = "unlinking" =>
        /\ \A d \in todo : link[d] = Arg
        /\ \A d \in Files \ todo : before.link[d] = Arg => link[d] # Arg /\ ~bare
        /\ ~bare => \E d \in Files : before.link[d] = Arg

\* The two parts of the invariant about unlinking.
LEMMA UnlinkParts == UnlinkInv <=> Pending /\ Walking
BY Zenon DEF UnlinkInv, Pending, Walking

\* The links of targets: until unlinked they are there.
LEMMA PendingStep == RemovalInv /\ Work => Pending'
<1> SUFFICES ASSUME RemovalInv, Work PROVE Pending'
  OBVIOUS
<1>0. /\ Pending /\ CallsKept /\ Phases /\ targets \subseteq Kegs
      /\ link \in [Files -> Kegs \cup {"free", "other"}]
      /\ "free" \notin Kegs /\ "other" \notin Kegs
      /\ \A d \in Files : ~Dangling(d)
      /\ Applying => \A k : ToDo("unlink", k) => k \in Kegs
      /\ \A d \in Files : link[d] \in Kegs => link[d] = before.link[d]
  BY CallsFacts, PhaseFacts, LinkFacts, UnlinkParts, UnlinkArg DEF RemovalInv, TypeOK, LinkInv
<1>a. tasks' = tasks => Arg' = Arg
  BY DEF Arg
<1>w. pc = "unlinking" => /\ \A d \in todo : link[d] = Arg
                          /\ \A d \in Files \ todo : before.link[d] = Arg => link[d] # Arg
  BY UnlinkParts DEF Walking, RemovalInv
<1> USE DEF diskVars, journalVars, inputVars, NoFault, Fail, Done, RelinkError, Applying,
            Undoing, Phases, CallsKept, ToDo, Report, Names, Pending

<1>1. CASE ReadRecords
  BY <1>1, <1>0
  DEF ReadRecords, Arg
<1>2. CASE CreateTrash
  BY <1>2, <1>0
  DEF CreateTrash, Arg
<1>3. CASE CallFails
  BY <1>3, <1>0
  DEF CallFails
<1>4. CASE RemoveRecord
  BY <1>4, <1>0
  DEF RemoveRecord
<1>5. CASE Unlink
  BY <1>5, <1>0
  DEF Unlink
<1>6. CASE UnlinkRecord
  <2>1. Arg \in Kegs /\ bare \in BOOLEAN /\ pc = "unlinking" /\ todo = {} /\ tasks # <<>>
        /\ Op = "unlink" /\ ~Holds(Tail(tasks), "unlink", Arg)
    BY <1>6, <1>0 DEF UnlinkRecord, RemovalInv, ControlInv
  <2>2. UNCHANGED <<link, before, targets>>
    BY <1>6, Zenon DEF UnlinkRecord
  <2>3. PICK u : UnlinkingOf(u)
    BY <1>6, <2>1, UnlinkRecordJournal
  <2>4. (pc' = "apply" /\ tasks' = Tail(tasks)) \/ pc' = "fail"
    BY <2>3 DEF UnlinkingOf
  <2>5. \A d \in Files : link[d] # Arg
    BY <1>0, <1>w, <2>1
  <2>6. CASE pc' = "fail"
    BY <2>6
  <2>7. CASE pc' = "apply" /\ tasks' = Tail(tasks)
    <3>1. \A k : Holds(tasks, "unlink", k) /\ k # Arg => Holds(Tail(tasks), "unlink", k)
      BY <1>0, <2>1
    <3>2. \A k : Holds(Tail(tasks), "unlink", k) => Holds(tasks, "unlink", k) /\ k # Arg
      BY <1>0, <2>1
    <3>3. \A d \in Files : link[d] \in targets => Holds(Tail(tasks), "unlink", link[d])
      BY <1>0, <2>1, <2>5, <3>1
    <3>4. \A d \in Files : Holds(Tail(tasks), "unlink", before.link[d]) => link[d] = before.link[d]
      BY <1>0, <2>1, <3>2
    <3> QED BY <2>2, <2>7, <3>3, <3>4
  <2> QED BY <2>4, <2>6, <2>7
<1>7. CASE MoveAway
  BY <1>7, <1>0
  DEF MoveAway
<1>8. CASE RemoveRackDir
  <2>1. /\ pc = "apply" /\ Op = "rack" /\ tasks # <<>>
        /\ UNCHANGED <<link, before, targets>>
        /\ pc' = "fail" \/ (pc' = "apply" /\ tasks' = Tail(tasks))
    BY <1>8 DEF RemoveRackDir
  <2>2. \A k : Holds(tasks, "unlink", k) => Holds(Tail(tasks), "unlink", k)
    BY <1>0, <2>1
  <2>3. \A k : Holds(Tail(tasks), "unlink", k) => Holds(tasks, "unlink", k)
    BY <1>0, <2>1
  <2> QED BY <1>0, <2>1, <2>2, <2>3
<1>9. CASE Commit
  BY <1>9, <1>0
  DEF Commit
<1>10. CASE Delete
  BY <1>10, <1>0
  DEF Delete
<1>11. CASE EmptyTrash
  BY <1>11, <1>0
  DEF EmptyTrash
<1>12. ASSUME NEW d \in Files, UnlinkFile(d)
      PROVE  Pending'
  <2>1. /\ pc = "unlinking" /\ link[d] = Arg /\ tasks # <<>> /\ Op = "unlink"
        /\ Arg \in Kegs
    BY <1>12, <1>0, <1>w DEF UnlinkFile
  <2>2. /\ UNCHANGED <<before, targets>>
        /\ \/ link' = [link EXCEPT ![d] = "free"] /\ pc' = pc /\ tasks' = tasks
           \/ pc' = "fail"
    BY <1>12 DEF UnlinkFile
  <2>3. before.link[d] = Arg
    BY <1>0, <2>1
  <2> QED BY <1>0, <2>1, <2>2, <2>3 DEF Arg
<1>13. CASE Unwind
  BY <1>13, <1>0
  DEF Unwind
<1>14. CASE RestoreRackDir
  BY <1>14, <1>0
  DEF RestoreRackDir
<1>15. CASE PutBack
  BY <1>15, <1>0
  DEF PutBack
<1>16. CASE Relink
  BY <1>16, <1>0
  DEF Relink
<1>17. CASE RelinkRecords
  BY <1>17, <1>0
  DEF RelinkRecords
<1>18. CASE ClearRecord
  BY <1>18, <1>0
  DEF ClearRecord
<1>19. CASE RestoreRecord
  BY <1>19, <1>0
  DEF RestoreRecord
<1>20. CASE Undone
  BY <1>20, <1>0
  DEF Undone
<1>21. ASSUME NEW d \in Files, RelinkFile(d)
      PROVE  Pending'
  BY <1>21, <1>0
  DEF RelinkFile
<1>22. CASE Crash
  BY <1>22, <1>0
  DEF Crash
<1>23. ASSUME NEW d \in Files, OtherFormula(d)
      PROVE  Pending'
  <2>1. /\ UNCHANGED <<before, targets, pc, tasks>>
        /\ link[d] \notin Kegs
        /\ \E x \in {"free", "other"} : link' = [link EXCEPT ![d] = x]
    BY <1>23, <1>0 DEF OtherFormula
  <2>2. link'[d] \notin Kegs /\ \A e \in Files : e # d => link'[e] = link[e]
    BY <1>0, <2>1
  <2> QED BY <1>0, <2>1, <2>2 DEF Arg
<1>24. CASE UNCHANGED vars
  BY <1>a, <1>24, <1>0
  DEF vars
<1> QED
  BY <1>1, <1>2, <1>3, <1>4, <1>5, <1>6, <1>7, <1>8, <1>9, <1>10, <1>11, <1>12, <1>13,
     <1>14, <1>15, <1>16, <1>17, <1>18, <1>19, <1>20, <1>21, <1>22, <1>23, <1>24
  DEF Work, Apply, RollBack

\* Each step of the walk removes one of them.
LEMMA WalkingStep == RemovalInv /\ Work => Walking'
<1> SUFFICES ASSUME RemovalInv, Work PROVE Walking'
  OBVIOUS
<1>1. ASSUME Unlink PROVE Walking'
  <2>1. /\ pc = "apply" /\ tasks # <<>> /\ Op = "unlink" /\ UNCHANGED <<link, before, tasks>>
        /\ todo' = {d \in Ships[Arg] : Mine(d, Arg)}
    BY <1>1 DEF Unlink, diskVars, inputVars
  <2>2. bare'
    BY <1>1, Zenon DEF Unlink
  <2>3. Arg \in Kegs /\ ToDo("unlink", Arg) /\ place[Arg] = "rack"
    BY <2>1, CallsFacts DEF CallsKept, Applying, RemovalInv, PlanInv, Names
  <2>4. Ships[Arg] \subseteq Files
    BY <2>3, RemovalAssumption
  <2>5. \A d \in Files : before.link[d] = Arg => d \in Ships[Arg] /\ link[d] = Arg
    BY <2>1, <2>3, UnlinkParts DEF RemovalInv, PastInv, Pending, Applying
  <2>6. \A d \in Files : before.link[d] = Arg => d \in todo'
    BY <2>1, <2>3, <2>5 DEF Mine
  <2>7. \A d \in todo' : link[d] = Arg
    BY <2>1 DEF Mine
  <2>8. Arg' = Arg /\ link' = link /\ before' = before
    BY <2>1 DEF Arg
  <2> QED BY <2>2, <2>6, <2>7, <2>8, Zenon DEF Walking
<1>2. ASSUME NEW d \in Files, UnlinkFile(d) PROVE Walking'
  <2>1. pc = "unlinking" /\ d \in todo
    BY <1>2, Zenon DEF UnlinkFile
  <2>2. CASE pc' = "unlinking"
    <3>1. /\ todo' = todo \ {d} /\ link' = [link EXCEPT ![d] = "free"]
          /\ UNCHANGED <<before, tasks>>
      BY <1>2, <2>2 DEF UnlinkFile, inputVars, Fail
    <3>2. ~bare'
      <4>1. bare' = FALSE \/ pc' = "fail"
        BY <1>2, Zenon DEF UnlinkFile, Fail
      <4>2. pc' # "fail"
        BY <2>2
      <4> QED BY <4>1, <4>2, Zenon
    <3>3. link[d] = Arg /\ Arg \in Kegs /\ link[d] = before.link[d]
      BY <2>1, CallsFacts, UnlinkParts
      DEF CallsKept, Applying, RemovalInv, LinkInv, Walking, Names
    <3>4. /\ \A e \in Files : link'[e] = IF e = d THEN "free" ELSE link[e]
          /\ "free" \notin Kegs /\ todo \subseteq Files
      BY <3>1, LinkFacts DEF RemovalInv, TypeOK
    <3>5. /\ \A e \in todo : link[e] = Arg
          /\ \A e \in Files \ todo : before.link[e] = Arg => link[e] # Arg
      BY <2>1, UnlinkParts, Zenon DEF Walking, RemovalInv
    <3>6. Arg' = Arg /\ before' = before
      BY <3>1 DEF Arg
    <3>7. /\ \A e \in todo' : link'[e] = Arg
          /\ \A e \in Files \ todo' : before.link[e] = Arg => link'[e] # Arg
          /\ before.link[d] = Arg
      BY <3>1, <3>3, <3>4, <3>5
    <3> QED BY <3>2, <3>6, <3>7, Zenon DEF Walking
  <2>3. CASE pc' # "unlinking"
    BY <2>3, Zenon DEF Walking
  <2> QED BY <2>2, <2>3
<1>3. ASSUME NEW d \in Files, OtherFormula(d) PROVE Walking'
  <2>1. CASE pc = "unlinking"
    <3>1. /\ UNCHANGED <<before, tasks, todo, pc>>
          /\ link[d] \notin Kegs
          /\ \E x \in {"free", "other"} : link' = [link EXCEPT ![d] = x]
      BY <1>3, LinkFacts DEF OtherFormula, inputVars
    <3>2. UNCHANGED bare
      BY <1>3, Zenon DEF OtherFormula
    <3>3. /\ \A e \in Files : e # d => link'[e] = link[e]
          /\ link'[d] \in {"free", "other"} /\ "free" \notin Kegs /\ "other" \notin Kegs
      BY <3>1, LinkFacts
    <3>4. Arg \in Kegs
      BY <2>1, CallsFacts DEF CallsKept, Applying, Names
    <3>5. /\ \A e \in todo : link[e] = Arg
          /\ \A e \in Files \ todo : before.link[e] = Arg => link[e] # Arg
      BY <2>1, UnlinkParts, Zenon DEF Walking, RemovalInv
    <3>6. /\ \A e \in Files \ todo : before.link[e] = Arg => ~bare
          /\ ~bare => \E e \in Files : before.link[e] = Arg
      BY <2>1, UnlinkParts, Zenon DEF Walking, RemovalInv
    <3>7. /\ \A e \in todo' : link'[e] = Arg
          /\ \A e \in Files \ todo' : before.link[e] = Arg => link'[e] # Arg
      <4>1. todo \subseteq Files /\ todo' = todo
        BY <3>1 DEF RemovalInv, TypeOK
      <4> QED BY <3>1, <3>3, <3>4, <3>5, <4>1
    <3>8. Arg' = Arg /\ before' = before /\ todo' = todo
      BY <3>1 DEF Arg
    <3> QED BY <3>2, <3>6, <3>7, <3>8, Zenon DEF Walking
  <2>2. CASE pc # "unlinking"
    <3>1. pc' # "unlinking"
      BY <1>3, <2>2, Zenon DEF OtherFormula
    <3> QED BY <3>1, Zenon DEF Walking
  <2> QED BY <2>1, <2>2
<1>4. CASE UNCHANGED vars
  <2>1. UNCHANGED <<pc, todo, link, before, tasks, bare>>
    BY <1>4, Zenon DEF vars, diskVars, inputVars
  <2>2. Arg' = Arg
    BY <2>1 DEF Arg
  <2>3. Walking
    BY UnlinkParts DEF RemovalInv
  <2> QED BY <2>1, <2>2, <2>3, Zenon DEF Walking
<1>5. \/ pc' # "unlinking" \/ Unlink \/ UNCHANGED vars
      \/ \E d \in Files : UnlinkFile(d) \/ OtherFormula(d)
  <2>1. CASE UnlinkRecord
    <3>1. pc' \in {"apply", "fail"}
      BY <2>1, Zenon DEF UnlinkRecord, Fail
    <3> QED BY <3>1
  <2>2. CASE ~UnlinkRecord
    BY <2>2 DEF Work, Apply, RollBack, ReadRecords, CreateTrash, CallFails, RemoveRecord,
     MoveAway, RemoveRackDir, Commit, Delete, EmptyTrash, Unwind, Fail, RelinkError,
     RestoreRackDir, PutBack, Relink, RelinkRecords, ClearRecord, RestoreRecord, Undone,
     RelinkFile, Crash
  <2> QED BY <2>1, <2>2
<1>6. pc' # "unlinking" => Walking'
  BY Zenon DEF Walking
<1> QED BY <1>1, <1>2, <1>3, <1>4, <1>5, <1>6

\* Unlinking.
LEMMA UnlinkStep == RemovalInv /\ Work => UnlinkInv'
<1> SUFFICES ASSUME RemovalInv, Work PROVE UnlinkInv'
  OBVIOUS
<1>1. Pending' /\ Walking'
  BY PendingStep, WalkingStep
<1> QED BY <1>1, Zenon DEF UnlinkInv, Pending, Walking

-----------------------------------------------------------------------------
(* Relinking.                                                              *)

\* Relinking is asked for what was unlinked, and an unlinked keg has its links back,
\* or is asked for, or something is left over.
Asked ==
    Undoing => \A u \in Unlinkings : ToDo("relink", u) =>
                  \E i \in 1 .. Len(unlinked) : unlinked[i] = u

\* All links of an unlinked keg are back.
Linked(k) == \A d \in Ships[k] : link[d] = k

\* They are, or they are still to be made, or something is left over.
Awaited ==
    pc \in {"undo", "relinking"} => \A i \in 1 .. Len(unlinked) :
       \/ unlinked[i].bare \/ Linked(unlinked[i].keg) \/ leftovers # {}
       \/ ToDo("relink", unlinked[i])

\* The walk of the relink that is under way.
Rewalking ==
    pc = "relinking" =>
       /\ todo # {} => place[Arg.keg] = "rack" /\ ~Arg.bare
       /\ todo \subseteq Ships[Arg.keg]
       /\ ~Arg.bare => \A d \in Ships[Arg.keg] :
             d \in todo \/ link[d] = Arg.keg \/ leftovers # {}

\* The three parts of the invariant about relinking.
LEMMA RelinkParts == RelinkInv <=> Asked /\ Awaited /\ Rewalking
BY Zenon DEF RelinkInv, Asked, Awaited, Rewalking, Linked

\* Rollback relinks only what the journal says.
LEMMA AskedStep == RemovalInv /\ Work => Asked'
<1> SUFFICES ASSUME RemovalInv, Work PROVE Asked'
  OBVIOUS
<1>0. /\ Asked /\ CallsKept /\ Phases /\ unlinked \in Seq(Unlinkings)
  BY CallsFacts, PhaseFacts, RelinkParts DEF RemovalInv, ControlInv
<1>n. pc # "idle" /\ tasks # <<>> => NextCall
  BY NextCallFacts DEF RemovalInv
<1>k. pc = "undo" /\ tasks # <<>> /\ Op = "clear" =>
         \A u : Holds(Tail(Tail(tasks)), "relink", u) => Holds(tasks, "relink", u)
  <2> SUFFICES ASSUME pc = "undo", tasks # <<>>, Op = "clear"
               PROVE  \A u : Holds(Tail(Tail(tasks)), "relink", u) => Holds(tasks, "relink", u)
    OBVIOUS
  <2>1. /\ Tail(tasks) # <<>> /\ Tail(tasks) \in Seq(Calls)
        /\ \A u : Holds(Tail(tasks), "relink", u) => Holds(tasks, "relink", u)
    BY <1>n DEF NextCall, Undoing, ToDo
  <2>2. \A u : Holds(Tail(Tail(tasks)), "relink", u) => Holds(Tail(tasks), "relink", u)
    BY <2>1, HoldsTail
  <2> QED BY <2>1, <2>2
<1> USE DEF diskVars, journalVars, inputVars, NoFault, Fail, Done, RelinkError, Applying,
            Undoing, Phases, CallsKept, ToDo, Report, Names, Asked

<1>1. CASE ReadRecords
  BY <1>1, <1>0
  DEF ReadRecords
<1>2. CASE CreateTrash
  BY <1>2, <1>0
  DEF CreateTrash
<1>3. CASE CallFails
  BY <1>3, <1>0
  DEF CallFails
<1>4. CASE RemoveRecord
  BY <1>4, <1>0
  DEF RemoveRecord
<1>5. CASE Unlink
  BY <1>5, <1>0
  DEF Unlink
<1>6. CASE UnlinkRecord
  <2>1. pc' \in {"apply", "fail"} /\ (pc' = "fail" => tasks' = <<>>)
    BY <1>6, Zenon DEF UnlinkRecord
  <2> QED BY <1>0, <2>1
<1>7. CASE MoveAway
  BY <1>7, <1>0
  DEF MoveAway
<1>8. CASE RemoveRackDir
  BY <1>8, <1>0
  DEF RemoveRackDir
<1>9. CASE Commit
  BY <1>9, <1>0
  DEF Commit
<1>10. CASE Delete
  BY <1>10, <1>0
  DEF Delete
<1>11. CASE EmptyTrash
  BY <1>11, <1>0
  DEF EmptyTrash
<1>12. ASSUME NEW d \in Files, UnlinkFile(d)
      PROVE  Asked'
  BY <1>12, <1>0
  DEF UnlinkFile
<1>13. CASE Unwind
  <2>1. \A u : Holds(UndoTasks, "relink", u) <=> \E i \in 1 .. Len(unlinked) : unlinked[i] = u
    BY UndoFacts DEF UndoOK
  <2>2. UNCHANGED unlinked /\ tasks' = UndoTasks
    BY <1>13 DEF Unwind
  <2> QED BY <2>1, <2>2
<1>14. CASE RestoreRackDir
  <2>1. /\ UNCHANGED unlinked /\ pc \in {"undo", "relinking"}
        /\ tasks' = tasks \/ (tasks # <<>> /\ tasks' = Tail(tasks))
    BY <1>14, <1>0 DEF RestoreRackDir
  <2> QED BY <1>0, <2>1
<1>15. CASE PutBack
  <2>1. /\ UNCHANGED unlinked /\ pc \in {"undo", "relinking"}
        /\ tasks' = tasks \/ (tasks # <<>> /\ tasks' = Tail(tasks))
    BY <1>15, <1>0 DEF PutBack
  <2> QED BY <1>0, <2>1
<1>16. CASE Relink
  <2>1. /\ UNCHANGED unlinked /\ pc \in {"undo", "relinking"}
        /\ tasks' = tasks \/ (tasks # <<>> /\ tasks' = Tail(tasks))
    BY <1>16, <1>0 DEF Relink
  <2> QED BY <1>0, <2>1
<1>17. CASE RelinkRecords
  <2>1. /\ UNCHANGED unlinked /\ pc \in {"undo", "relinking"}
        /\ tasks' = tasks \/ (tasks # <<>> /\ tasks' = Tail(tasks))
    BY <1>17, <1>0 DEF RelinkRecords
  <2> QED BY <1>0, <2>1
<1>18. CASE ClearRecord
  <2>1. /\ UNCHANGED unlinked /\ pc \in {"undo", "relinking"}
        /\ tasks' = tasks \/ (tasks # <<>> /\ tasks' = Tail(tasks))
           \/ (tasks # <<>> /\ tasks' = Tail(Tail(tasks)) /\ pc = "undo" /\ Op = "clear")
    BY <1>18, <1>0 DEF ClearRecord
  <2> QED BY <1>0, <1>k, <2>1
<1>19. CASE RestoreRecord
  <2>1. /\ UNCHANGED unlinked /\ pc \in {"undo", "relinking"}
        /\ tasks' = tasks \/ (tasks # <<>> /\ tasks' = Tail(tasks))
    BY <1>19, <1>0 DEF RestoreRecord
  <2> QED BY <1>0, <2>1
<1>20. CASE Undone
  <2>1. /\ UNCHANGED unlinked /\ pc \in {"undo", "relinking"}
        /\ tasks' = tasks \/ (tasks # <<>> /\ tasks' = Tail(tasks))
    BY <1>20, <1>0 DEF Undone
  <2> QED BY <1>0, <2>1
<1>21. ASSUME NEW d \in Files, RelinkFile(d)
      PROVE  Asked'
  <2>1. /\ UNCHANGED unlinked /\ pc \in {"undo", "relinking"}
        /\ tasks' = tasks \/ (tasks # <<>> /\ tasks' = Tail(tasks))
    BY <1>21, <1>0 DEF RelinkFile
  <2> QED BY <1>0, <2>1
<1>22. CASE Crash
  BY <1>22, <1>0
  DEF Crash
<1>23. ASSUME NEW d \in Files, OtherFormula(d)
      PROVE  Asked'
  BY <1>23, <1>0
  DEF OtherFormula
<1>24. CASE UNCHANGED vars
  BY <1>24, <1>0
  DEF vars
<1> QED
  BY <1>1, <1>2, <1>3, <1>4, <1>5, <1>6, <1>7, <1>8, <1>9, <1>10, <1>11, <1>12, <1>13,
     <1>14, <1>15, <1>16, <1>17, <1>18, <1>19, <1>20, <1>21, <1>22, <1>23, <1>24
  DEF Work, Apply, RollBack

\* No unlinked keg is forgotten.
LEMMA AwaitedStep == RemovalInv /\ Work => Awaited'
<1> SUFFICES ASSUME RemovalInv, Work PROVE Awaited'
  OBVIOUS
<1>0. /\ Awaited /\ CallsKept /\ Phases
      /\ link \in [Files -> Kegs \cup {"free", "other"}]
      /\ "free" \notin Kegs /\ "other" \notin Kegs
      /\ \A d \in Files : ~Dangling(d)
      /\ unlinked \in Seq(Unlinkings)
      /\ \A i \in 1 .. Len(unlinked) : unlinked[i].keg \in Kegs
      /\ Ships \in [Kegs -> SUBSET Files]
  BY CallsFacts, PhaseFacts, RelinkParts, LinkFacts, RemovalAssumption
  DEF RemovalInv, ControlInv, RecordInv, TypeOK
<1>n. pc # "idle" /\ tasks # <<>> => NextCall
  BY NextCallFacts DEF RemovalInv
<1>f. (Undoing' /\ pc' # "fail") => pc' \in {"undo", "relinking"}
  BY DEF Undoing
<1> DEFINE Kept == \A i \in 1 .. Len(unlinked) :
                      Linked(unlinked[i].keg) => Linked(unlinked[i].keg)'
\* The general step: links stay, calls other than relink are made.
<1>g. ASSUME pc \in {"undo", "relinking"}, UNCHANGED unlinked, Kept,
             leftovers # {} => leftovers' # {},
             \A u : ToDo("relink", u) => ToDo("relink", u)' \/ leftovers' # {}
      PROVE  Awaited'
  BY <1>0, <1>g DEF Awaited
<1>h. UNCHANGED link => \A k : Linked(k) => Linked(k)'
  BY DEF Linked
<1> USE DEF diskVars, journalVars, inputVars, NoFault, Fail, Done, RelinkError, Applying,
            Undoing, Phases, CallsKept, Report, Names
<1> HIDE DEF Kept

<1>1. CASE ReadRecords
  <2>1. pc' \notin {"undo", "relinking"}
    BY <1>1, <1>0 DEF ReadRecords
  <2> QED BY <2>1 DEF Awaited
<1>2. CASE CreateTrash
  <2>1. pc' \notin {"undo", "relinking"}
    BY <1>2, <1>0 DEF CreateTrash
  <2> QED BY <2>1 DEF Awaited
<1>3. CASE CallFails
  <2>1. pc' \notin {"undo", "relinking"}
    BY <1>3, <1>0 DEF CallFails
  <2> QED BY <2>1 DEF Awaited
<1>4. CASE RemoveRecord
  <2>1. pc' \notin {"undo", "relinking"}
    BY <1>4, <1>0 DEF RemoveRecord
  <2> QED BY <2>1 DEF Awaited
<1>5. CASE Unlink
  <2>1. pc' \notin {"undo", "relinking"}
    BY <1>5, <1>0 DEF Unlink
  <2> QED BY <2>1 DEF Awaited
<1>6. CASE UnlinkRecord
  <2>1. pc' \notin {"undo", "relinking"}
    BY <1>6, <1>0, Zenon DEF UnlinkRecord
  <2> QED BY <2>1 DEF Awaited
<1>7. CASE MoveAway
  <2>1. pc' \notin {"undo", "relinking"}
    BY <1>7, <1>0 DEF MoveAway
  <2> QED BY <2>1 DEF Awaited
<1>8. CASE RemoveRackDir
  <2>1. pc' \notin {"undo", "relinking"}
    BY <1>8, <1>0 DEF RemoveRackDir
  <2> QED BY <2>1 DEF Awaited
<1>9. CASE Commit
  <2>1. pc' \notin {"undo", "relinking"}
    BY <1>9, <1>0 DEF Commit
  <2> QED BY <2>1 DEF Awaited
<1>10. CASE Delete
  <2>1. pc' \notin {"undo", "relinking"}
    BY <1>10, <1>0 DEF Delete
  <2> QED BY <2>1 DEF Awaited
<1>11. CASE EmptyTrash
  <2>1. pc' \notin {"undo", "relinking"}
    BY <1>11, Zenon DEF EmptyTrash
  <2> QED BY <2>1 DEF Awaited
<1>12. ASSUME NEW d \in Files, UnlinkFile(d)
      PROVE  Awaited'
  <2>1. pc' \notin {"undo", "relinking"}
    BY <1>12, <1>0 DEF UnlinkFile
  <2> QED BY <2>1 DEF Awaited
<1>13. CASE Unwind
  <2>1. \A u : Holds(UndoTasks, "relink", u) <=> \E i \in 1 .. Len(unlinked) : unlinked[i] = u
    BY UndoFacts DEF UndoOK
  <2>2. UNCHANGED unlinked /\ tasks' = UndoTasks
    BY <1>13 DEF Unwind
  <2>3. \A i \in 1 .. Len(unlinked') : Holds(tasks', "relink", unlinked'[i])
    BY <2>1, <2>2
  <2> QED BY <2>3 DEF Awaited, ToDo
<1>14. CASE RestoreRackDir
  <2>1. /\ UNCHANGED <<unlinked, link>> /\ pc = "undo"
        /\ tasks # <<>> /\ Op # "relink"
        /\ tasks' = Tail(tasks)
        /\ leftovers \subseteq leftovers'
    BY <1>14, <1>0 DEF RestoreRackDir
  <2>4. \A u : Holds(tasks, "relink", u) => Holds(Tail(tasks), "relink", u)
    BY <1>0, <2>1 DEF ToDo
  <2>2. \A u : ToDo("relink", u) => ToDo("relink", u)' \/ leftovers' # {}
    BY <2>1, <2>4 DEF ToDo
  <2>3. Kept
    BY <1>h, <2>1 DEF Kept
  <2> QED BY <1>g, <2>1, <2>2, <2>3
<1>15. CASE PutBack
  <2>1. /\ UNCHANGED <<unlinked, link>> /\ pc = "undo"
        /\ tasks # <<>> /\ Op # "relink"
        /\ tasks' = Tail(tasks)
        /\ leftovers \subseteq leftovers'
    BY <1>15, <1>0 DEF PutBack
  <2>4. \A u : Holds(tasks, "relink", u) => Holds(Tail(tasks), "relink", u)
    BY <1>0, <2>1 DEF ToDo
  <2>2. \A u : ToDo("relink", u) => ToDo("relink", u)' \/ leftovers' # {}
    BY <2>1, <2>4 DEF ToDo
  <2>3. Kept
    BY <1>h, <2>1 DEF Kept
  <2> QED BY <1>g, <2>1, <2>2, <2>3
<1>16. CASE Relink
  <2>1. /\ UNCHANGED <<unlinked, link>> /\ pc = "undo" /\ leftovers \subseteq leftovers'
        /\ tasks' = tasks \/ leftovers' # {}
    BY <1>16, <1>0 DEF Relink
  <2>2. \A u : ToDo("relink", u) => ToDo("relink", u)' \/ leftovers' # {}
    BY <1>0, <2>1 DEF ToDo
  <2>3. Kept
    BY <1>h, <2>1 DEF Kept
  <2> QED BY <1>g, <2>1, <2>2, <2>3
<1>17. CASE RelinkRecords
  <2>1. /\ UNCHANGED <<unlinked, link>> /\ pc = "relinking" /\ leftovers \subseteq leftovers'
        /\ tasks' = Tail(tasks) /\ todo = {} /\ tasks # <<>> /\ Op = "relink"
    BY <1>17, <1>0 DEF RelinkRecords
  <2>2. \/ Arg.bare \/ Linked(Arg.keg) \/ leftovers # {}
    BY <2>1, RelinkParts, Zenon DEF Rewalking, Linked, RemovalInv
  <2>3. \A u : u # Arg /\ Holds(tasks, "relink", u) => Holds(Tail(tasks), "relink", u)
    BY <1>0, <2>1 DEF ToDo
  <2>4. \A i \in 1 .. Len(unlinked) :
           \/ unlinked[i].bare \/ Linked(unlinked[i].keg) \/ leftovers # {}
           \/ Holds(Tail(tasks), "relink", unlinked[i])
    <3> TAKE i \in 1 .. Len(unlinked)
    <3>1. \/ unlinked[i].bare \/ Linked(unlinked[i].keg) \/ leftovers # {}
          \/ ToDo("relink", unlinked[i])
      BY <1>0, <2>1, Zenon DEF Awaited
    <3>2. CASE unlinked[i] = Arg
      BY <2>2, <3>2, Zenon
    <3>3. CASE unlinked[i] # Arg
      BY <2>3, <3>1, <3>3, Zenon DEF ToDo
    <3> QED BY <3>2, <3>3
  <2>5. \A k : Linked(k) => Linked(k)'
    BY <1>h, <2>1
  <2>6. leftovers # {} => leftovers' # {}
    BY <2>1
  <2> QED BY <2>1, <2>4, <2>5, <2>6, Zenon DEF Awaited, ToDo
<1>18. CASE ClearRecord
  <2>1. /\ UNCHANGED <<unlinked, link>> /\ pc = "undo"
        /\ tasks # <<>> /\ Op # "relink"
        /\ tasks' = Tail(tasks) \/ leftovers' # {}
        /\ leftovers \subseteq leftovers'
    BY <1>18, <1>0 DEF ClearRecord
  <2>4. \A u : Holds(tasks, "relink", u) => Holds(Tail(tasks), "relink", u)
    BY <1>0, <2>1 DEF ToDo
  <2>2. \A u : ToDo("relink", u) => ToDo("relink", u)' \/ leftovers' # {}
    BY <2>1, <2>4 DEF ToDo
  <2>3. Kept
    BY <1>h, <2>1 DEF Kept
  <2> QED BY <1>g, <2>1, <2>2, <2>3
<1>19. CASE RestoreRecord
  <2>1. /\ UNCHANGED <<unlinked, link>> /\ pc = "undo"
        /\ tasks # <<>> /\ Op # "relink"
        /\ tasks' = Tail(tasks)
        /\ leftovers \subseteq leftovers'
    BY <1>19, <1>0 DEF RestoreRecord
  <2>4. \A u : Holds(tasks, "relink", u) => Holds(Tail(tasks), "relink", u)
    BY <1>0, <2>1 DEF ToDo
  <2>2. \A u : ToDo("relink", u) => ToDo("relink", u)' \/ leftovers' # {}
    BY <2>1, <2>4 DEF ToDo
  <2>3. Kept
    BY <1>h, <2>1 DEF Kept
  <2> QED BY <1>g, <2>1, <2>2, <2>3
<1>20. CASE Undone
  <2>1. pc' \notin {"undo", "relinking"}
    BY <1>20, Zenon DEF Undone
  <2> QED BY <2>1 DEF Awaited
<1>21. ASSUME NEW d \in Files, RelinkFile(d)
      PROVE  Awaited'
  <2>1. /\ UNCHANGED <<unlinked, before, place>> /\ pc = "relinking" /\ leftovers \subseteq leftovers'
        /\ tasks' = tasks \/ leftovers' # {}
        /\ tasks # <<>> /\ Op = "relink" /\ d \in todo
        /\ link' = link \/ link' = [link EXCEPT ![d] = Arg.keg] \/ d \in clear
    BY <1>21, <1>0 DEF RelinkFile
  <2>2. \A u : ToDo("relink", u) => ToDo("relink", u)' \/ leftovers' # {}
    BY <1>0, <2>1 DEF ToDo
  <2>3. clear = {}
    BY DEF RemovalInv, LinkInv
  <2>4. Arg \in Unlinkings /\ Arg.keg \in Kegs /\ ToDo("relink", Arg)
    BY <1>n, <2>1 DEF NextCall
  <2>5. PICK i \in 1 .. Len(unlinked) : unlinked[i] = Arg
    BY <2>1, <2>4, RelinkParts DEF RemovalInv, Asked
  <2>6. ~Arg.bare /\ d \in Ships[Arg.keg]
    BY <2>1, RelinkParts, Zenon DEF RemovalInv, Rewalking
  <2>7. before.link[d] = Arg.keg
    BY <2>5, <2>6, HeardFacts, Zenon DEF Heard, Journalled
  <2>8. \A k \in Kegs : link[d] = k => k = Arg.keg
    BY <2>7 DEF RemovalInv, LinkInv
  <2>9. \A e \in Files : link'[e] = IF e = d THEN link'[d] ELSE link[e]
    BY <1>0, <2>1, <2>3
  <2>10. link'[d] = link[d] \/ link'[d] = Arg.keg
    BY <1>0, <2>1, <2>3
  <2>11. ASSUME NEW j \in 1 .. Len(unlinked), Linked(unlinked[j].keg)
         PROVE  Linked(unlinked[j].keg)'
    <3> DEFINE k == unlinked[j].keg
    <3>1. k \in Kegs /\ Ships[k] \subseteq Files /\ k' = k
      BY <1>0, <2>1
    <3>2. \A e \in Ships[k] : link[e] = k
      BY <2>11 DEF Linked
    <3> HIDE DEF k
    <3>3. \A e \in Ships[k] : link'[e] = k
      BY <2>8, <2>9, <2>10, <3>1, <3>2
    <3> QED BY <3>1, <3>3 DEF Linked, k
  <2>12. Kept
    BY <2>11 DEF Kept
  <2> QED BY <1>g, <2>1, <2>2, <2>12
<1>22. CASE Crash
  <2>1. pc' \notin {"undo", "relinking"}
    BY <1>22, <1>0 DEF Crash
  <2> QED BY <2>1 DEF Awaited
<1>23. ASSUME NEW d \in Files, OtherFormula(d)
      PROVE  Awaited'
  <2>1. UNCHANGED <<unlinked, leftovers, tasks, pc>> /\ pc # "idle"
        /\ link[d] \notin Kegs
        /\ \E x \in {"free", "other"} : link' = [link EXCEPT ![d] = x]
    BY <1>23, <1>0 DEF OtherFormula
  <2>2. \A e \in Files : e # d => link'[e] = link[e]
    BY <1>0, <2>1
  <2>3. Kept
    BY <1>0, <2>1, <2>2 DEF Linked, Kept
  <2>4. \A u : ToDo("relink", u) => ToDo("relink", u)'
    BY <2>1 DEF ToDo
  <2>5. CASE pc \in {"undo", "relinking"}
    BY <1>g, <2>1, <2>3, <2>4, <2>5
  <2>6. CASE pc \notin {"undo", "relinking"}
    BY <2>1, <2>6 DEF Awaited
  <2> QED BY <2>5, <2>6
<1>24. CASE UNCHANGED vars
  <2>1. UNCHANGED <<unlinked, leftovers, tasks, pc, link>>
    BY <1>24, Zenon DEF vars
  <2> QED BY <1>0, <1>h, <2>1, Zenon DEF Awaited, ToDo
<1> QED
  BY <1>1, <1>2, <1>3, <1>4, <1>5, <1>6, <1>7, <1>8, <1>9, <1>10, <1>11, <1>12, <1>13,
     <1>14, <1>15, <1>16, <1>17, <1>18, <1>19, <1>20, <1>21, <1>22, <1>23, <1>24
  DEF Work, Apply, RollBack

\* Each step of the walk makes one link.
LEMMA RewalkingStep == RemovalInv /\ Work => Rewalking'
<1> SUFFICES ASSUME RemovalInv, Work PROVE Rewalking'
  OBVIOUS
<1>n. pc # "idle" /\ tasks # <<>> => NextCall
  BY NextCallFacts DEF RemovalInv
<1>0. /\ \A d \in Files : ~Dangling(d)
      /\ link \in [Files -> Kegs \cup {"free", "other"}]
      /\ "free" \notin Kegs /\ "other" \notin Kegs
      /\ Ships \in [Kegs -> SUBSET Files] /\ clear = {} /\ todo \subseteq Files
  BY LinkFacts, RemovalAssumption DEF RemovalInv, LinkInv, TypeOK
<1>r. pc = "relinking" =>
         /\ tasks # <<>> /\ Op = "relink" /\ Arg \in Unlinkings /\ Arg.keg \in Kegs
         /\ todo # {} => place[Arg.keg] = "rack"
         /\ todo # {} => ~Arg.bare
         /\ todo \subseteq Ships[Arg.keg]
         /\ Arg.bare \/ \A d \in Ships[Arg.keg] :
                           d \in todo \/ link[d] = Arg.keg \/ leftovers # {}
  <2>1. pc = "relinking" => tasks # <<>> /\ Op = "relink"
    BY DEF RemovalInv, ControlInv
  <2>2. pc = "relinking" => Arg \in Unlinkings /\ Arg.keg \in Kegs
    BY <1>n, <2>1 DEF NextCall, Undoing
  <2>3. Rewalking
    BY RelinkParts DEF RemovalInv
  <2> QED BY <2>1, <2>2, <2>3, Zenon DEF Rewalking
<1>1. ASSUME Relink, pc' = "relinking" PROVE Rewalking'
  <2>1. /\ Conflicts(Arg) = {} /\ todo' = Planned(Arg) /\ pc = "undo"
        /\ UNCHANGED <<place, link, tasks, leftovers>> /\ tasks # <<>> /\ Op = "relink"
    BY <1>1 DEF Relink, diskVars
  <2>2. /\ Arg \in Unlinkings /\ Arg.keg \in Kegs /\ Arg' = Arg
        /\ \A k : ~Holds(Tail(tasks), "putBack", k)
        /\ ~ToDo("putBack", Arg.keg)
    BY <1>n, <2>1 DEF NextCall, Undoing, Arg
  <2>3. todo' # {} => place[Arg.keg] = "rack"
    BY <2>1 DEF Planned
  <2>4. todo' # {} => ~Arg.bare
    BY <2>1, Zenon DEF Planned
  <2>5. todo' \subseteq Ships[Arg.keg]
    BY <2>1 DEF Planned
  <2>6. Arg.bare \/ \A d \in Ships[Arg.keg] :
                       d \in todo' \/ link[d] = Arg.keg \/ leftovers # {}
    <3> SUFFICES ASSUME ~Arg.bare, NEW d \in Ships[Arg.keg], d \notin todo', link[d] # Arg.keg
                 PROVE  leftovers # {}
      OBVIOUS
    <3>1. place[Arg.keg] = "rack" => d \in Planned(Arg) \/ d \in Conflicts(Arg)
      BY Zenon DEF Planned, Conflicts, Mine
    <3>2. place[Arg.keg] # "rack"
      BY <2>1, <3>1
    <3>3. \E i \in 1 .. Len(unlinked) : unlinked[i] = Arg
      BY <1>n, <2>1, <2>2, RelinkParts DEF NextCall, Asked, Undoing, RemovalInv
    <3>4. Arg.keg \in targets
      BY <3>3 DEF RemovalInv, RecordInv
    <3> QED BY <2>1, <2>2, <3>2, <3>4 DEF RemovalInv, PlaceInv
  <2> QED BY <2>1, <2>2, <2>3, <2>4, <2>5, <2>6, Zenon DEF Rewalking
<1>2. ASSUME NEW d \in Files, RelinkFile(d), pc' = "relinking" PROVE Rewalking'
  <2>1. /\ pc = "relinking" /\ d \in todo /\ todo' = todo \ {d}
        /\ link' = [link EXCEPT ![d] = Arg.keg]
        /\ UNCHANGED <<place, tasks, leftovers>>
    BY <1>2 DEF RelinkFile, RelinkError
  <2>2. Arg' = Arg
    BY <2>1 DEF Arg
  <2>3. place[Arg.keg] = "rack" /\ todo' \subseteq Ships[Arg.keg] /\ todo # {}
    BY <1>r, <2>1
  <2>4. ~Arg.bare
    BY <1>r, <2>1, <2>3, Zenon
  <2>5. \A e \in Ships[Arg.keg] : e \in todo \/ link[e] = Arg.keg \/ leftovers # {}
    BY <1>r, <2>1, <2>4, Zenon
  <2>6. \A e \in Ships[Arg.keg] : e \in todo' \/ link'[e] = Arg.keg \/ leftovers # {}
    BY <1>0, <1>r, <2>1, <2>5
  <2> QED BY <2>1, <2>2, <2>3, <2>4, <2>6, Zenon DEF Rewalking
<1>3. ASSUME NEW d \in Files, OtherFormula(d), pc' = "relinking" PROVE Rewalking'
  <2>1. /\ UNCHANGED <<place, tasks, leftovers, todo, pc>>
        /\ link[d] \notin Kegs
        /\ \E x \in {"free", "other"} : link' = [link EXCEPT ![d] = x]
    BY <1>0, <1>3 DEF OtherFormula
  <2>2. Arg' = Arg /\ pc = "relinking"
    BY <1>3, <2>1 DEF Arg
  <2>3. \A e \in Files : e # d => link'[e] = link[e]
    BY <1>0, <2>1
  <2>4. \A e \in Ships[Arg.keg] : link[e] = Arg.keg => link'[e] = Arg.keg
    BY <1>0, <1>r, <2>1, <2>2, <2>3
  <2> QED BY <1>r, <2>1, <2>2, <2>4, Zenon DEF Rewalking
<1>4. ASSUME UNCHANGED vars PROVE Rewalking'
  <2>1. UNCHANGED <<place, tasks, leftovers, todo, pc, link>>
    BY <1>4, Zenon DEF vars, diskVars
  <2>2. Arg' = Arg
    BY <2>1 DEF Arg
  <2>3. Rewalking
    BY RelinkParts DEF RemovalInv
  <2> QED BY <2>1, <2>2, <2>3, Zenon DEF Rewalking
<1>5. \/ pc' # "relinking" \/ Relink \/ UNCHANGED vars
      \/ \E d \in Files : RelinkFile(d) \/ OtherFormula(d)
  <2>1. CASE UnlinkRecord
    <3>1. pc' \in {"apply", "fail"}
      BY <2>1, Zenon DEF UnlinkRecord, Fail
    <3> QED BY <3>1
  <2>2. CASE ~UnlinkRecord
    BY <2>2 DEF Work, Apply, RollBack, ReadRecords, CreateTrash, CallFails, RemoveRecord,
     MoveAway, RemoveRackDir, Commit, Delete, EmptyTrash, Unwind, Fail, RelinkError, Unlink,
     UnlinkFile, RestoreRackDir, PutBack, RelinkRecords, ClearRecord, RestoreRecord, Undone,
     Crash
  <2> QED BY <2>1, <2>2
<1>6. pc' # "relinking" => Rewalking'
  BY Zenon DEF Rewalking
<1> QED BY <1>1, <1>2, <1>3, <1>4, <1>5, <1>6

\* Relinking.
LEMMA RelinkStep == RemovalInv /\ Work => RelinkInv'
<1> SUFFICES ASSUME RemovalInv, Work PROVE RelinkInv'
  OBVIOUS
<1>1. Asked' /\ Awaited' /\ Rewalking'
  BY AskedStep, AwaitedStep, RewalkingStep
<1> QED BY <1>1, Zenon DEF RelinkInv, Asked, Awaited, Rewalking, Linked

-----------------------------------------------------------------------------
(* The theorems.                                                           *)

\* The invariant holds at first, with any disk that installs and links leave,
LEMMA InitInv == Init => RemovalInv
<1> SUFFICES ASSUME Init PROVE RemovalInv
  OBVIOUS
<1>1. /\ place \in [Kegs -> {"rack", "gone"}]
      /\ rackDir = {f \in Formulae : \E k \in KegsOf(f) : place[k] = "rack"}
      /\ record \in [Names -> [Formulae -> Kegs \cup {NoKeg}]]
      /\ link \in [Files -> Kegs \cup {"free", "other"}]
      /\ trash = FALSE /\ kind = "none" /\ targets = {}
      /\ records = {} /\ racked = {} /\ staged = <<>> /\ unlinked = <<>>
      /\ committed = FALSE
      /\ tasks = <<>> /\ todo = {} /\ clear = {} /\ bare = TRUE /\ leftovers = {}
      /\ pc = "idle" /\ result = "none" /\ faults = 0
      /\ before = [place |-> place, rackDir |-> rackDir, link |-> link, record |-> record]
  BY DEF Init
<1>2. /\ before.place = place /\ before.rackDir = rackDir /\ before.link = link
      /\ before.record = record
  BY <1>1
<1>3. TypeOK
  <2>1. faults \in 0 .. MaxFaults
    BY <1>1, RemovalAssumption
  <2>2. /\ place \in [Kegs -> {"rack", "trash", "torn", "gone"}]
        /\ rackDir \subseteq Formulae /\ records \subseteq Formulae /\ racked \subseteq Formulae
        /\ targets \subseteq Kegs /\ todo \subseteq Files /\ clear \subseteq Files
    BY <1>1
  <2>3. trash \in BOOLEAN /\ committed \in BOOLEAN
    BY <1>1, Zenon
  <2> QED BY <1>1, <2>1, <2>2, <2>3, Zenon DEF TypeOK
<1>4. ControlInv
  BY <1>1 DEF ControlInv, Applying, Undoing, Succeeded
<1>5. \A f \in Formulae : \A name \in Names : record[name][f] # NoKeg =>
         /\ record[name][f] \in KegsOf(f) /\ place[record[name][f]] = "rack"
         /\ record[name][f] = record["opt"][f]
  <2> TAKE f \in Formulae
  <2> TAKE name \in Names
  <2>1. /\ record["opt"][f] \in (Installed \cap KegsOf(f)) \cup {NoKeg}
        /\ record["linked"][f] \in {record["opt"][f], NoKeg}
        /\ record["pin"][f] \in {record["opt"][f], NoKeg}
    BY DEF Init
  <2> QED BY <2>1 DEF Names, Installed
<1>6. \A d \in Files : link[d] \in Kegs =>
         /\ record["linked"][FormulaOf(link[d])] = link[d] /\ place[link[d]] = "rack"
         /\ d \in Ships[link[d]] /\ \A e \in Ships[link[d]] : link[e] = link[d]
  <2> TAKE d \in Files
  <2> HAVE link[d] \in Kegs
  <2> DEFINE k == link[d]
  <2>1. {e \in Files : link[e] = k}
             \in {{}, IF record["linked"][FormulaOf(k)] = k THEN Ships[k] ELSE {}}
    BY DEF Init
  <2>2. d \in {e \in Files : link[e] = k}
    OBVIOUS
  <2>3. record["linked"][FormulaOf(k)] = k /\ {e \in Files : link[e] = k} = Ships[k]
    BY <2>1, <2>2
  <2>4. place[k] = "rack"
    <3>1. FormulaOf(k) \in Formulae /\ k # NoKeg
      BY Belongs, RemovalAssumption
    <3> QED BY <1>5, <2>3, <3>1 DEF Names
  <2> QED BY <2>2, <2>3, <2>4
<1>7. PastInv
  BY <1>1, <1>2, <1>5, <1>6 DEF PastInv
<1>8. ~Applying /\ ~Undoing /\ ~Succeeded
  BY <1>1 DEF Applying, Undoing, Succeeded
<1>9. PlanInv /\ PlaceInv /\ RackInv /\ RecordInv
  BY <1>1, <1>2, <1>8 DEF PlanInv, PlaceInv, RackInv, RecordInv
<1>10. LinkInv /\ UnlinkInv /\ RelinkInv
  BY <1>1, <1>2, <1>6, <1>8 DEF LinkInv, UnlinkInv, RelinkInv
<1> QED BY <1>3, <1>4, <1>7, <1>9, <1>10 DEF RemovalInv

\* and every step keeps it.
LEMMA StepInv == RemovalInv /\ [Next]_vars => RemovalInv'
<1> SUFFICES ASSUME RemovalInv, [Next]_vars PROVE RemovalInv'
  OBVIOUS
<1>1. CASE Work
  BY <1>1, ControlStep, PastStep, PlanStep, PlaceStep, RackStep, RecordStep, LinkStep,
     UnlinkStep, RelinkStep, TypeStep DEF RemovalInv
<1>2. CASE BeginUninstall \/ BeginCleanup
  BY <1>2, BeginStep
<1> QED
  BY <1>1, <1>2 DEF Next, Work

\* The inductive invariant is one: in every state of every removal, of any number of
\* formulae and kegs, with any number of failing calls and with other formulae linking
\* meanwhile.
THEOREM Invariant == Spec => []RemovalInv
<1>1. Init => RemovalInv
  BY InitInv
<1>2. RemovalInv /\ [Next]_vars => RemovalInv'
  BY StepInv
<1> QED BY <1>1, <1>2, PTL DEF Spec

\* Every variable keeps its type.
THEOREM TypeCorrect == Spec => []TypeOK
<1>1. RemovalInv => TypeOK
  BY DEF RemovalInv
<1> QED BY <1>1, Invariant, PTL

\* It says that kegs are whole.
LEMMA WholeFromInv == RemovalInv => KegsWhole
<1> SUFFICES ASSUME RemovalInv, NEW k \in Kegs, before.place[k] = "rack",
                    place[k] # "rack"
             PROVE  k \in targets /\ (place[k] = "trash" \/ committed)
  BY DEF KegsWhole
<1>1. k \in targets
  BY DEF RemovalInv, PlaceInv
<1>2. ~committed => place[k] = "trash"
  BY <1>1 DEF RemovalInv, PlaceInv
<1> QED BY <1>1, <1>2

\* Until the commit every keg is whole in its rack or in the trash, and only targets
\* ever move (the renames of apply and rollback; nothing is deleted before the commit).
THEOREM Whole == Spec => []KegsWhole
<1> QED BY WholeFromInv, Invariant, PTL

\* It says that a success is complete.
LEMMA CompleteFromInv == RemovalInv => RemovedCompletely
<1> SUFFICES ASSUME RemovalInv, result \in {"ok", "cleanup"} PROVE RemovedCompletely
  BY DEF RemovedCompletely
<1>1. Succeeded /\ committed /\ ~Applying /\ ~Undoing
  BY DEF RemovalInv, ControlInv, Succeeded
<1>2. \A k \in targets : place[k] # "rack"
  BY <1>1 DEF RemovalInv, PlaceInv
<1>3. \A k \in targets : result = "ok" => place[k] = "gone"
  BY DEF RemovalInv, PlaceInv
<1>4. \A name \in Names, f \in Formulae : record[name][f] \notin targets
  BY <1>1 DEF RemovalInv, RecordInv
<1>5. \A d \in Files : link[d] \notin targets
  <2>1. targets \subseteq Kegs
    BY DEF RemovalInv, TypeOK
  <2>2. \A d \in Files : link[d] \in Kegs => place[link[d]] = "rack"
    BY DEF RemovalInv, LinkInv
  <2> QED BY <1>2, <2>1, <2>2
<1>6. ASSUME kind = "uninstall", NEW f \in rackDir
      PROVE  f \in before.rackDir /\ \E k \in KegsOf(f) : place[k] = "rack"
  <2>1. f \in before.rackDir /\ f \in Formulae
    BY <1>6 DEF RemovalInv, RackInv, TypeOK
  <2>2. PICK k \in KegsOf(f) \ targets : before.place[k] = "rack"
    BY <1>1, <1>6 DEF RemovalInv, RackInv
  <2>3. place[k] = before.place[k]
    BY <2>1, <2>2, Belongs DEF RemovalInv, PlaceInv
  <2> QED BY <2>1, <2>2, <2>3
<1>7. ASSUME NEW k \in Installed, NEW name \in Names,
             before.record[name][FormulaOf(k)] = k
      PROVE  record[name][FormulaOf(k)] = k
  <2>1. k \in Kegs /\ k \notin targets /\ FormulaOf(k) \in Formulae
    BY <1>2, Belongs DEF Installed
  <2> QED BY <1>1, <1>7, <2>1 DEF RemovalInv, RecordInv
<1> QED BY <1>2, <1>3, <1>4, <1>5, <1>6, <1>7 DEF RemovedCompletely

\* After success nothing is left of the targets and other kegs keep all they had (apply's
\* unlink, the three symlinks and the rack of each formula).
THEOREM Complete == Spec => []RemovedCompletely
<1> QED BY CompleteFromInv, Invariant, PTL

-----------------------------------------------------------------------------
(* Failures.                                                               *)

\* A removal that has ended does nothing more.
LEMMA Ended ==
    ASSUME RemovalInv, [Next]_vars, result \in {"failed", "incomplete", "crashed", "ok", "cleanup"}
    PROVE  UNCHANGED vars
<1>1. pc = "idle" /\ result # "none"
  BY DEF RemovalInv, ControlInv, Applying, Undoing
<1>2. ~Apply
  BY <1>1 DEF Apply, ReadRecords, CreateTrash, CallFails, RemoveRecord, Unlink, UnlinkRecord,
     MoveAway, RemoveRackDir, Commit, Delete, EmptyTrash, UnlinkFile
<1>3. ~RollBack
  BY <1>1 DEF RollBack, Unwind, RestoreRackDir, PutBack, Relink, RelinkRecords, ClearRecord,
     RestoreRecord, Undone, RelinkFile
<1>4. ~Crash /\ \A d \in Files : ~OtherFormula(d)
  BY <1>1 DEF Crash, OtherFormula
<1>5. ~BeginUninstall /\ ~BeginCleanup
  BY <1>1 DEF BeginUninstall, BeginCleanup, Start
<1> QED
  BY <1>2, <1>3, <1>4, <1>5 DEF Next

\* Only the end of a rollback reports a failure.
LEMMA OnlyUndone ==
    ASSUME Next, result # "failed", result' = "failed"
    PROVE  Undone
<1>1. ~BeginUninstall /\ ~BeginCleanup
  BY DEF BeginUninstall, BeginCleanup, Start
<1>2. ~Apply
  BY DEF Apply, ReadRecords, CreateTrash, CallFails, RemoveRecord, Unlink, UnlinkRecord,
     MoveAway, RemoveRackDir, Commit, Delete, EmptyTrash, UnlinkFile
<1>3. ~Crash /\ \A d \in Files : ~OtherFormula(d)
  BY DEF Crash, OtherFormula
<1> QED
  BY <1>1, <1>2, <1>3 DEF Next, RollBack, Unwind, RestoreRackDir, PutBack, Relink,
     RelinkRecords, ClearRecord, RestoreRecord, RelinkFile

\* When rollback has made its last call and nothing is left over.
LEMMA AllBack ==
    ASSUME RemovalInv, pc = "undo", tasks = <<>>, leftovers = {}
    PROVE  place = before.place /\ rackDir = before.rackDir /\ record = before.record /\ LinksBack
<1>1. \A op, arg : ~ToDo(op, arg)
  BY HoldsNone DEF ToDo
<1>2. ~committed
  BY DEF RemovalInv, ControlInv, Succeeded, Applying, Undoing
<1>3. place = before.place
  <2>1. /\ place \in [Kegs -> {"rack", "trash", "torn", "gone"}]
        /\ before.place \in [Kegs -> {"rack", "gone"}]
    BY DEF RemovalInv, TypeOK, PastInv
  <2>2. \A k \in Kegs : place[k] = before.place[k]
    <3> TAKE k \in Kegs
    <3>1. CASE k \in targets
      BY <1>1, <3>1 DEF RemovalInv, PlaceInv, PastInv
    <3>2. CASE k \notin targets
      BY <3>2 DEF RemovalInv, PlaceInv
    <3> QED BY <3>1, <3>2
  <2> QED BY <2>1, <2>2
<1>4. rackDir = before.rackDir
  BY <1>1 DEF RemovalInv, RackInv
<1>5. record = before.record
  <2>1. /\ record \in [Names -> [Formulae -> Kegs \cup {NoKeg}]]
        /\ before.record \in [Names -> [Formulae -> Kegs \cup {NoKeg}]]
    BY DEF RemovalInv, TypeOK, PastInv
  <2>2. \A name \in Names, f \in Formulae : record[name][f] = before.record[name][f]
    BY <1>1 DEF RemovalInv, RecordInv
  <2>3. \A name \in Names : record[name] = before.record[name]
    <3> TAKE name \in Names
    <3>1. /\ record[name] \in [Formulae -> Kegs \cup {NoKeg}]
          /\ before.record[name] \in [Formulae -> Kegs \cup {NoKeg}]
      BY <2>1
    <3> QED BY <2>2, <3>1
  <2> QED BY <2>1, <2>3
<1>6. LinksBack
  <2> SUFFICES ASSUME NEW d \in Files, before.link[d] \in Kegs,
                      before.link[d] \notin targets
                      \/ \E i \in 1 .. Len(unlinked) : unlinked[i].keg = before.link[d]
               PROVE  link[d] = before.link[d]
    BY DEF LinksBack
  <2>1. CASE before.link[d] \notin targets
    BY <2>1 DEF RemovalInv, LinkInv
  <2>2. CASE \E i \in 1 .. Len(unlinked) : unlinked[i].keg = before.link[d]
    <3>1. PICK i \in 1 .. Len(unlinked) : unlinked[i].keg = before.link[d]
      BY <2>2
    <3>2. unlinked[i].bare => \A e \in Files : before.link[e] # unlinked[i].keg
      BY Zenon DEF RemovalInv, LinkInv
    <3>3. ~unlinked[i].bare
      BY <3>1, <3>2, Zenon
    <3>4. pc \in {"undo", "relinking"} => \A j \in 1 .. Len(unlinked) :
             ~unlinked[j].bare => \A e \in Ships[unlinked[j].keg] :
                \/ link[e] = unlinked[j].keg \/ leftovers # {}
                \/ ToDo("relink", unlinked[j])
      BY Zenon DEF RemovalInv, RelinkInv
    <3>5. pc \in {"undo", "relinking"}
      OBVIOUS
    <3>6. \A e \in Ships[unlinked[i].keg] : link[e] = unlinked[i].keg
      BY <1>1, <3>3, <3>4, <3>5, Zenon
    <3>7. d \in Ships[before.link[d]]
      BY DEF RemovalInv, PastInv
    <3> QED BY <3>1, <3>6, <3>7
  <2> QED BY <2>1, <2>2
<1> QED BY <1>3, <1>4, <1>5, <1>6

\* So a failure that reports nothing is clean.
LEMMA CleanStep == RemovalInv /\ CleanFailure /\ [Next]_vars => CleanFailure'
<1> SUFFICES ASSUME RemovalInv, CleanFailure, [Next]_vars, result' = "failed"
             PROVE  /\ place' = before'.place /\ rackDir' = before'.rackDir
                    /\ record' = before'.record
                    /\ kind' = "uninstall" => ~trash'
                    /\ LinksBack'
  BY Zenon DEF CleanFailure
<1>1. CASE result = "failed"
  <2>1. UNCHANGED vars
    BY <1>1, Ended
  <2>2. UNCHANGED <<place, rackDir, record, link, before, targets, unlinked>>
    BY <2>1 DEF vars, diskVars, inputVars, journalVars
  <2>3. kind' = kind /\ trash' = trash
    BY <2>1, Zenon DEF vars, diskVars, inputVars
  <2>4. place = before.place /\ rackDir = before.rackDir /\ record = before.record /\ LinksBack
    BY <1>1 DEF CleanFailure
  <2>5. LinksBack'
    BY <2>2, <2>4 DEF LinksBack
  <2>6. kind = "uninstall" => ~trash
    BY <1>1, Zenon DEF CleanFailure
  <2>7. kind' = "uninstall" => ~trash'
    BY <2>3, <2>6, Zenon
  <2> QED BY <2>2, <2>4, <2>5, <2>7
<1>2. CASE result # "failed"
  <2>1. Undone
    <3>1. Next
      BY <1>2 DEF vars
    <3> QED BY <1>2, <3>1, OnlyUndone
  <2>2. /\ pc = "undo" /\ tasks = <<>>
        /\ UNCHANGED <<place, rackDir, record, link, before, targets, unlinked, kind>>
    BY <2>1 DEF Undone, journalVars, inputVars
  <2>3. leftovers' = {} /\ leftovers = {}
    <3>1. leftovers' = {}
      BY <2>1 DEF Undone
    <3>2. leftovers \subseteq leftovers'
      BY <2>1 DEF Undone, Report
    <3> QED BY <3>1, <3>2
  <2>4. place = before.place /\ rackDir = before.rackDir /\ record = before.record /\ LinksBack
    BY <2>2, <2>3, AllBack
  <2>5. LinksBack'
    BY <2>2, <2>4 DEF LinksBack
  <2>6. kind' = "uninstall" => ~trash'
    <3> SUFFICES ASSUME kind' = "uninstall" PROVE ~trash'
      OBVIOUS
    <3>1. ~(leftovers # {})
      BY <2>3
    <3>2. kind = "uninstall" => ~(leftovers' = leftovers \cup {"trash"})
      BY <2>3
    <3>3. kind = "uninstall"
      BY <2>2
    <3>4. \/ trash' = (trash /\ leftovers # {})
          \/ kind = "uninstall" /\ Report({"trash"})
          \/ kind # "uninstall"
      BY <2>1, Zenon DEF Undone
    <3>5. trash' = (trash /\ leftovers # {})
      BY <3>2, <3>3, <3>4, Zenon DEF Report
    <3>6. CASE ~(leftovers # {})
      BY <3>1, <3>5, Zenon
    <3> QED BY <3>1, <3>6
  <2> QED BY <2>2, <2>4, <2>5, <2>6
<1> QED BY <1>1, <1>2

\* An error that reports nothing has put everything back, of every formula of the bulk
\* removal (rollback without leftovers).
THEOREM Clean == Spec => []CleanFailure
<1>1. Init => CleanFailure
  BY DEF Init, CleanFailure
<1>2. RemovalInv /\ CleanFailure /\ [Next]_vars => CleanFailure'
  BY CleanStep
<1> QED BY <1>1, <1>2, Invariant, PTL DEF Spec

-----------------------------------------------------------------------------
(* The abstract specification.                                             *)

\* The kegs that were installed when the removal began.
Was == {k \in Kegs : before.place[k] = "rack"}

\* What the abstract specification sees of the kegs.
Seen ==
    /\ result = "running" => LogicalInstalled = Was
    /\ committed => LogicalInstalled = Was \ targets
    /\ LogicalInstalled \subseteq Was /\ Was \ targets \subseteq LogicalInstalled
    /\ targets \subseteq Was

\* It follows from the invariant.
LEMMA SeenFacts == RemovalInv => Seen
<1> SUFFICES ASSUME RemovalInv PROVE Seen
  OBVIOUS
<1>1. /\ \A k \in Kegs \ targets : place[k] = before.place[k]
      /\ ~committed => \A k \in targets : place[k] = "rack" \/ place[k] = "trash"
      /\ committed => \A k \in targets : place[k] # "rack"
      /\ before.place \in [Kegs -> {"rack", "gone"}]
      /\ \A k \in targets : k \in Kegs /\ before.place[k] = "rack"
  BY DEF RemovalInv, PlaceInv, PastInv
<1>2. result = "running" => ~committed
  BY DEF RemovalInv, ControlInv, Succeeded, Applying, Undoing
<1>3. ASSUME result = "running" PROVE LogicalInstalled = Was
  <2>1. LogicalInstalled = {k \in Kegs : place[k] \in {"rack", "trash"}}
    BY <1>3 DEF LogicalInstalled
  <2>2. \A k \in Kegs : place[k] \in {"rack", "trash"} <=> before.place[k] = "rack"
    BY <1>1, <1>2, <1>3
  <2> QED BY <2>1, <2>2 DEF Was
<1>4. ASSUME result # "running"
      PROVE  /\ committed => LogicalInstalled = Was \ targets
             /\ LogicalInstalled \subseteq Was /\ Was \ targets \subseteq LogicalInstalled
  <2>1. LogicalInstalled = {k \in Kegs : place[k] = "rack"}
    BY <1>4 DEF LogicalInstalled, Installed
  <2>2. \A k \in Kegs : /\ place[k] = "rack" => before.place[k] = "rack"
                        /\ before.place[k] = "rack" /\ k \notin targets => place[k] = "rack"
                        /\ committed /\ k \in targets => place[k] # "rack"
    BY <1>1
  <2> QED BY <2>1, <2>2 DEF Was
<1>5. targets \subseteq Was
  BY <1>1 DEF Was
<1> QED BY <1>2, <1>3, <1>4, <1>5 DEF Seen

\* The first state is one of the abstract specification,
LEMMA RefinesInit == Init => Abstract!RemovalInit
<1> SUFFICES ASSUME Init PROVE Abstract!RemovalInit
  OBVIOUS
<1> QED BY DEF Init, Abstract!RemovalInit, LogicalInstalled, Installed

\* Which steps end a removal or commit it.
LEMMA Changes ==
    ASSUME Work, result' # result
    PROVE  Commit \/ EmptyTrash \/ Undone \/ Crash
<1>1. \A d \in Files : ~UnlinkFile(d) /\ ~RelinkFile(d) /\ ~OtherFormula(d)
  BY DEF UnlinkFile, RelinkFile, OtherFormula
<1>2. ~UNCHANGED vars
  BY DEF vars
<1>3. /\ ~ReadRecords /\ ~CreateTrash /\ ~CallFails /\ ~RemoveRecord /\ ~Unlink
      /\ ~UnlinkRecord /\ ~MoveAway /\ ~RemoveRackDir /\ ~Delete
  BY DEF ReadRecords, CreateTrash, CallFails, RemoveRecord, Unlink, UnlinkRecord, MoveAway,
     RemoveRackDir, Delete
<1>4. /\ ~Unwind /\ ~RestoreRackDir /\ ~PutBack /\ ~Relink /\ ~RelinkRecords /\ ~ClearRecord
      /\ ~RestoreRecord
  BY DEF Unwind, RestoreRackDir, PutBack, Relink, RelinkRecords, ClearRecord, RestoreRecord
<1> QED BY <1>1, <1>2, <1>3, <1>4 DEF Work, Apply, RollBack

\* The removal as asked for is not forgotten.
LEMMA AskedKept == Work => UNCHANGED <<before, targets>>
<1> SUFFICES ASSUME Work PROVE UNCHANGED <<before, targets>>
  OBVIOUS
<1> QED
  BY DEF Work, Apply, RollBack, ReadRecords, CreateTrash, CallFails, RemoveRecord, Unlink,
     UnlinkFile, UnlinkRecord, MoveAway, RemoveRackDir, Commit, Delete, EmptyTrash, Unwind,
     RestoreRackDir, PutBack, Relink, RelinkFile, RelinkRecords, ClearRecord, RestoreRecord,
     Undone, Crash, OtherFormula, vars, inputVars

\* and every step is a step of it, or none.
LEMMA RefinesStep ==
    /\ RemovalInv /\ CleanFailure /\ Seen /\ [Next]_vars
    /\ RemovalInv' /\ CleanFailure' /\ Seen'
    => [Abstract!RemovalNext]_(Abstract!removalVars)
<1> SUFFICES ASSUME RemovalInv, CleanFailure, Seen, [Next]_vars,
                    RemovalInv', CleanFailure', Seen'
             PROVE  [Abstract!RemovalNext]_(Abstract!removalVars)
  OBVIOUS
<1>1. CASE BeginUninstall \/ BeginCleanup
  <2>1. PICK what, calls : Start(what, calls)
    BY <1>1 DEF BeginUninstall, BeginCleanup
  <2>2. Begun(what, calls)
    BY <2>1, BegunFacts DEF RemovalInv
  <2>3. result = "none" /\ result' = "running" /\ before' = before /\ before.place = place
    BY <2>2 DEF Begun
  <2>4. LogicalInstalled = Was
    BY <2>3 DEF LogicalInstalled, Installed, Was
  <2>5. LogicalInstalled' = LogicalInstalled /\ targets' \subseteq LogicalInstalled
    BY <2>3, <2>4 DEF Seen, Was
  <2> QED
    BY <2>3, <2>5 DEF Abstract!Start, Abstract!RemovalNext
<1>2. CASE Work /\ result' = result
  <2>1. UNCHANGED <<before, targets>>
    BY <1>2, AskedKept
  <2>2. Was' = Was
    BY <2>1 DEF Was
  <2>3. LogicalInstalled' = LogicalInstalled
    <3>1. CASE result = "running"
      BY <1>2, <2>2, <3>1 DEF Seen
    <3>2. CASE result = "committed"
      <4>1. committed /\ committed'
        BY <1>2, <3>2 DEF RemovalInv, ControlInv, Succeeded
      <4>2. LogicalInstalled = Was \ targets /\ LogicalInstalled' = Was' \ targets'
        BY <4>1, Zenon DEF Seen
      <4> QED BY <2>1, <2>2, <4>2
    <3>3. CASE result = "none"
      <4>1. UNCHANGED vars
        <5>1. pc = "idle"
          BY <3>3 DEF RemovalInv, ControlInv, Applying, Undoing
        <5> QED
          BY <1>2, <5>1 DEF Work, Apply, RollBack, ReadRecords, CreateTrash, CallFails,
             RemoveRecord, Unlink, UnlinkFile, UnlinkRecord, MoveAway, RemoveRackDir, Commit,
             Delete, EmptyTrash, Unwind, RestoreRackDir, PutBack, Relink, RelinkFile,
             RelinkRecords, ClearRecord, RestoreRecord, Undone, Crash, OtherFormula
      <4> QED BY <4>1 DEF vars, diskVars, LogicalInstalled, Installed
    <3>4. CASE result \in {"failed", "incomplete", "crashed", "ok", "cleanup"}
      <4>1. UNCHANGED vars
        BY <3>4, Ended
      <4> QED BY <4>1 DEF vars, diskVars, LogicalInstalled, Installed
    <3> QED BY <3>1, <3>2, <3>3, <3>4 DEF RemovalInv, ControlInv
  <2> QED BY <1>2, <2>1, <2>3 DEF Abstract!removalVars
<1>3. CASE Work /\ result' # result
  <2>1. UNCHANGED <<before, targets>>
    BY <1>3, AskedKept
  <2>2. Was' = Was
    BY <2>1 DEF Was
  <2>3. CASE Commit
    <3>1. result' = "committed" /\ pc = "apply" /\ committed' = TRUE
      BY <2>3 DEF Commit
    <3>2. result = "running"
      BY <3>1 DEF RemovalInv, ControlInv, Applying
    <3>3. LogicalInstalled' = Was' \ targets'
      BY <3>1, Zenon DEF Seen
    <3>4. LogicalInstalled' = LogicalInstalled \ targets
      BY <2>1, <2>2, <3>2, <3>3 DEF Seen
    <3> QED BY <2>1, <3>1, <3>2, <3>4 DEF Abstract!Remove, Abstract!RemovalNext
  <2>4. CASE EmptyTrash
    <3>1. result' \in {"ok", "cleanup"} /\ pc = "commit"
      BY <2>4 DEF EmptyTrash
    <3>2. result = "committed"
      BY <3>1 DEF RemovalInv, ControlInv
    <3>3. committed /\ committed'
      BY <3>1, <3>2 DEF RemovalInv, ControlInv, Succeeded
    <3>4. LogicalInstalled = Was \ targets /\ LogicalInstalled' = Was' \ targets'
      BY <3>3, Zenon DEF Seen
    <3> QED BY <2>1, <2>2, <3>1, <3>2, <3>4 DEF Abstract!Finish, Abstract!RemovalNext
  <2>5. CASE Undone
    <3>1. result' \in {"failed", "incomplete"} /\ pc = "undo"
      BY <2>5 DEF Undone
    <3>2. result = "running"
      BY <3>1 DEF RemovalInv, ControlInv, Undoing
    <3>3. LogicalInstalled = Was
      BY <3>2 DEF Seen
    <3>4. CASE result' = "failed"
      <4>1. place' = before'.place
        BY <3>4 DEF CleanFailure
      <4>2. LogicalInstalled' = Was'
        BY <3>4, <4>1 DEF LogicalInstalled, Installed, Was
      <4> QED
        BY <2>1, <2>2, <3>2, <3>3, <3>4, <4>2 DEF Abstract!Abort, Abstract!RemovalNext
    <3>5. CASE result' = "incomplete"
      BY <2>1, <2>2, <3>2, <3>3, <3>5 DEF Seen, Abstract!GiveUp, Abstract!RemovalNext
    <3> QED BY <3>1, <3>4, <3>5
  <2>6. CASE Crash
    <3>1. result' = "crashed" /\ pc # "idle" /\ committed' = committed
      BY <2>6, Zenon DEF Crash, journalVars
    <3>2. result \in {"running", "committed"}
      BY <3>1 DEF RemovalInv, ControlInv, Applying, Undoing
    <3>3. CASE result = "running"
      BY <2>1, <2>2, <3>1, <3>3 DEF Seen, Abstract!GiveUp, Abstract!RemovalNext
    <3>4. CASE result = "committed"
      <4>1. committed
        BY <3>4 DEF RemovalInv, ControlInv, Succeeded
      <4>2. committed'
        BY <3>1, <4>1, Zenon
      <4>3. LogicalInstalled = Was \ targets /\ LogicalInstalled' = Was' \ targets'
        BY <4>1, <4>2, Zenon DEF Seen
      <4> QED
        BY <2>1, <2>2, <3>1, <3>4, <4>3 DEF Abstract!CrashLate, Abstract!RemovalNext
    <3> QED BY <3>2, <3>3, <3>4
  <2> QED BY <1>3, <2>3, <2>4, <2>5, <2>6, Changes
<1> QED
  BY <1>1, <1>2, <1>3 DEF Next, Work

\* Removal is atomic over all formulae it was asked for: RemovalTransaction and
\* cleanup_replaced_kegs implement BulkRemoval.
THEOREM Atomic == Spec => AtomicInBulk
<1>1. Spec => []RemovalInv
  BY Invariant
<1>2. Spec => []CleanFailure
  BY Clean
<1>3. RemovalInv => Seen
  BY SeenFacts
<1>4. Init => Abstract!RemovalInit
  BY RefinesInit
<1>5. /\ RemovalInv /\ CleanFailure /\ Seen /\ [Next]_vars
      /\ RemovalInv' /\ CleanFailure' /\ Seen'
      => [Abstract!RemovalNext]_(Abstract!removalVars)
  BY RefinesStep
<1> QED
  BY <1>1, <1>2, <1>3, <1>4, <1>5, PTL DEF Spec, AtomicInBulk, Abstract!RemovalSpec
=============================================================================
