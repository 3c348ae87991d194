---------------------------- MODULE CaskTxnProofs ----------------------------
(***************************************************************************)
(* Cask transactions, for every value of the constants: a rollback is      *)
(* honest, a success complete, nothing an install found is lost before its *)
(* commit, and no file of the user or of another cask is touched but by    *)
(* the removals that OthersKept names.                                     *)
(*                                                                         *)
(* The argument.  A path, a version directory or a receipt that is not as  *)
(* the command found it is in the backup and in the journal, or is told.   *)
(* The journal is undone from its end, and it is in two parts: first what  *)
(* was backed up, each thing once, then what was deployed.  So when a      *)
(* backup is moved back, nothing is left to undo that could remove it      *)
(* again.  Of the other tokens' commands only the removal of a directory   *)
(* and the removal directives reach a token's files, and what they take is *)
(* noted as robbed.                                                        *)
(***************************************************************************)
EXTENDS CaskTxn, LoopsProofs, TLAPS

-----------------------------------------------------------------------------
(* The inductive invariant.  What it says of a token is said of values: of the *)
(* command t, the deployed files a, the version directories R, those with their *)
(* record C and the receipts M. *)

Undoes == {"Restore", "RestoreVersion", "RestoreReceipt"}
Forward == {"stage", "root", "backup", "metadata", "apply", "put", "promote"}
Back == {"fail", "undo"}
Begun == {"stage", "root"}
Saving == {"backup", "metadata"}
Deploying == {"apply", "put", "promote"}
Removing == {"remove", "removeVersion", "removeMetadata"}

\* The journal s has an entry.
Has(s, r, x) == \E i \in 1 .. Len(s) : s[i] = <<r, x>>

\* The actions s, still to be done, have one that deploys to p.
Pending(s, p) == \E i \in 1 .. Len(s) : s[i].kind # "pkg" /\ s[i].target = p

Things(k) == [at : [Own(k) -> Files], rooms : SUBSET Versions, receipts : SUBSET Versions]
Actions(k) == (UNION {Range(Plan(k, v)) : v \in Versions})
                  \cup (UNION {Range(Directives[k][v][when]) :
                                   v \in Versions, when \in {"uninstall", "zap"}})

\* The command of a token: none, or one that is at work or has answered.
Quiet == [pc : {"idle"}, op : {"none"}, outcome : {"none"}, left : {{}}, journal : {<<>>},
          robbed : BOOLEAN]
Command(k) ==
    [pc : Forward \cup Back \cup Removing \cup {"idle"}, op : {"install", "uninstall", "zap"},
     outcome : {"running", "ok", "error", "incomplete"}, new : Versions,
     targets : SUBSET Own(k), versions : SUBSET Versions, cur : Versions,
     rest : Seq(Actions(k)), journal : Seq(Reverses), saved : Things(k), staged : BOOLEAN,
     wrote : {"none", "leaf", "tree"}, left : SUBSET Leftovers, before : Things(k),
     robbed : BOOLEAN]

DiskInv ==
    /\ at \in [Paths -> Files] /\ dirs \subseteq Dirs
    /\ \A p \in Paths : at[p] # Nothing => Dir[p] \in dirs
    /\ rooms \in [Tokens -> SUBSET Versions] /\ recorded \in [Tokens -> SUBSET Versions]
    /\ receipts \in [Tokens -> SUBSET Versions]
    /\ \A k \in Tokens : recorded[k] \subseteq rooms[k]
    /\ faults \in 0 .. MaxFaults /\ runs \in 0 .. MaxRuns

\* What a command is doing, and what it knows then.
Control(k, t) ==
    /\ t.pc = "idle" <=> t.outcome # "running"
    /\ t.pc \in Forward \cup Back => t.op = "install"
    /\ t.pc \in Removing => t.op \in {"uninstall", "zap"}
    /\ t.op \in {"uninstall", "zap"} => t.outcome # "incomplete"
    /\ t.pc \in Forward => t.left = {}
    /\ t.pc \in Begun \cup Saving \cup {"apply", "put"} => t.wrote = "none"
    /\ t.pc = "stage" => t.versions = {}
    /\ t.pc \in Deploying => t.rest \in Seq(Range(Plan(k, t.new)))
    /\ t.pc = "put" => /\ t.rest # <<>> /\ Head(t.rest).kind # "pkg"
                       /\ Has(t.journal, "Remove", Head(t.rest).target)
    /\ t.pc = "promote" => t.rest = <<>>
    /\ t.pc = "metadata" => t.targets = {}
    /\ t.pc \in Removing \cup Begun \cup {"idle"} => t.journal = <<>>

\* A command that has no claim on a path, which is the user's.
NoClaim(k, t, R, p) ==
    /\ \A v \in R : p \notin Planned(k, v)
    /\ t.pc # "idle" =>
          /\ p \notin t.targets
          /\ \A v \in t.versions : p \notin Planned(k, v)
          /\ ~Has(t.journal, "Remove", p) /\ ~Has(t.journal, "Restore", p)
          /\ ~Has(t.journal, "RemoveDir", Dir[p])
          /\ \A v \in Versions : Has(t.journal, "RestoreVersion", v) => p \notin Planned(k, v)
    /\ t.pc \in Deploying /\ p \in Planned(k, t.new) => Pending(t.rest, p)

\* No user's file is in the backup.
NoneSaved(k, t) == t.pc # "idle" => \A p \in Own(k) : t.saved.at[p] # User

\* The journal is in two parts, and what is restored is restored once.
Ordered(s) ==
    \A i, j \in 1 .. Len(s) :
        i < j /\ s[j][1] \in Undoes => s[i][1] \in Undoes /\ s[i] # s[j]
OrderOK(t) ==
    /\ Ordered(t.journal)
    /\ t.pc \in Saving => \A i \in 1 .. Len(t.journal) : t.journal[i][1] \in Undoes

FileOK(t, a, p) ==
    LET was == t.before.at[p]
        kept == t.saved.at[p]
        told == <<"path", p>> \in t.left
    IN  /\ t.pc \in Begun => a[p] = was /\ kept = Nothing /\ ~Has(t.journal, "Restore", p)
        /\ t.pc = "backup" /\ p \in t.targets => a[p] = was /\ ~Has(t.journal, "Restore", p)
        /\ Has(t.journal, "Restore", p) => kept = was /\ was # Nothing
        /\ was # Nothing =>
              \/ kept = was
              \/ /\ a[p] = was
                 /\ ~Has(t.journal, "Remove", p) /\ ~Has(t.journal, "RemoveDir", Dir[p])
        /\ kept # Nothing => Has(t.journal, "Restore", p) \/ told
        /\ told \/ Has(t.journal, "Restore", p) \/ Has(t.journal, "Remove", p) \/ a[p] = was
FilesOK(k, t, a) == \A p \in Own(k) : FileOK(t, a, p)

RoomsOK(t, R, C) ==
    LET was == t.before.rooms
        kept == t.saved.rooms
    IN  /\ C = R /\ R \subseteq was
        /\ t.pc \in Begun => R = was
        /\ t.pc \in Saving => R = t.versions
        /\ t.pc \in Deploying => R = {}
        /\ \A v \in Versions :
              /\ Has(t.journal, "RestoreVersion", v) => v \in was /\ v \in kept /\ v \notin R
              /\ v \in was /\ v \notin R =>
                    /\ v \in kept
                    /\ Has(t.journal, "RestoreVersion", v) \/ <<"version", v>> \in t.left

ReceiptOK(t, M, v) ==
    LET was == t.before.receipts
        kept == t.saved.receipts
        told == Has(t.journal, "RestoreReceipt", v) \/ <<"receipt", v>> \in t.left
    IN  /\ t.pc \in Begun => (v \in M <=> v \in was) /\ ~Has(t.journal, "RestoreReceipt", v)
        /\ Has(t.journal, "RestoreReceipt", v) => v \in was /\ v \in kept
        /\ v \in was /\ v \notin M => v \in kept /\ told
        /\ v \in M /\ v \notin was =>
              \/ <<"receipt", v>> \in t.left
              \/ v = t.new /\ t.wrote = "tree" /\ t.pc \in {"promote", "fail"}
        /\ t.pc \in Saving /\ Has(t.journal, "RestoreReceipt", v) => v \notin M
        /\ t.pc \in {"promote", "fail"} /\ t.wrote = "tree" /\ v = t.new /\ v \in was =>
              v \in kept /\ told
ReceiptsOK(t, M) == \A v \in Versions : ReceiptOK(t, M, v)

\* What is deployed of the old versions and of the new one.
Old(k, t, p) == \E o \in t.before.rooms : p \in Planned(k, o)
DeployOK(k, t, a, M) ==
    /\ t.pc = "backup" =>
          /\ \A p \in Own(k) : Old(k, t, p) => p \in t.targets \/ a[p] = Nothing
          /\ \A o \in t.before.rooms : o \in t.versions \/ o \notin M
    /\ t.pc = "metadata" =>
          /\ \A p \in Own(k) : Old(k, t, p) => a[p] = Nothing
          /\ \A o \in t.before.rooms : o \in t.versions \/ o = t.cur \/ o \notin M
    /\ t.pc \in Deploying =>
          /\ \A p \in Own(k) : Old(k, t, p) => p \in Planned(k, t.new) \/ a[p] = Nothing
          /\ \A o \in t.before.rooms : o \notin M \/ (o = t.new /\ t.pc = "promote")
          /\ \A p \in Planned(k, t.new) : a[p] = File(k, t.new, TRUE) \/ Pending(t.rest, p)
    /\ t.pc = "promote" => t.new \in M

InstallOK(k, t, a, R, C, M) ==
    t.pc \in Forward \cup Back /\ ~t.robbed =>
        /\ OrderOK(t) /\ FilesOK(k, t, a) /\ RoomsOK(t, R, C) /\ ReceiptsOK(t, M)
        /\ DeployOK(k, t, a, M)

\* An uninstall: what it has still to remove.
RemoveOK(k, t, a, R, M) ==
    t.pc \in Removing =>
        /\ \A o \in t.before.rooms : \A p \in Planned(k, o) :
              (t.pc = "remove" /\ p \in t.targets) \/ a[p] = Nothing
        /\ \A v \in R : v \in t.versions \/ (t.pc = "removeVersion" /\ v = t.cur)
        /\ \A v \in t.before.rooms : v \in M =>
              v \in t.versions \/ (t.pc # "remove" /\ v = t.cur)

\* The three outcomes, of one token.
HonestOK(k, t, a, R, M) ==
    t.pc = "idle" /\ t.op = "install" /\ t.outcome \in {"error", "incomplete"} /\ ~t.robbed =>
        /\ \A p \in Own(k) : a[p] # t.before.at[p] => <<"path", p>> \in t.left
        /\ \A v \in Versions :
              /\ (v \in R) # (v \in t.before.rooms) => <<"version", v>> \in t.left
              /\ (v \in M) # (v \in t.before.receipts) => <<"receipt", v>> \in t.left
        /\ t.staged => <<"staging", "tree">> \in t.left
InstalledOK(k, t, a, R, C, M) ==
    t.pc = "idle" /\ t.op = "install" /\ t.outcome = "ok" /\ ~t.robbed =>
        /\ R = {t.new} /\ C = R /\ t.new \in M
        /\ \A p \in Planned(k, t.new) : a[p] = File(k, t.new, TRUE)
        /\ \A o \in t.before.rooms \ {t.new} :
              /\ o \notin M
              /\ \A p \in Planned(k, o) \ Planned(k, t.new) : a[p] = Nothing
RemovedOK(k, t, a, R, M) ==
    t.pc = "idle" /\ t.op \in {"uninstall", "zap"} /\ t.outcome = "ok" =>
        /\ R = {} /\ M \cap t.before.rooms = {}
        /\ \A o \in t.before.rooms : \A p \in Planned(k, o) : a[p] = Nothing
AnswerOK(k, t, a, R, C, M) ==
    HonestOK(k, t, a, R, M) /\ InstalledOK(k, t, a, R, C, M) /\ RemovedOK(k, t, a, R, M)

TokenOK(k, t, a, R, C, M) ==
    /\ t \in Quiet \cup Command(k) /\ Control(k, t) /\ NoneSaved(k, t)
    /\ InstallOK(k, t, a, R, C, M) /\ RemoveOK(k, t, a, R, M) /\ AnswerOK(k, t, a, R, C, M)

CaskInv ==
    /\ DiskInv /\ DOMAIN tx = Tokens
    /\ \A k \in Tokens : TokenOK(k, tx[k], at, rooms[k], recorded[k], receipts[k])
    /\ \A p \in Paths : at[p] = User => \A k \in Tokens : NoClaim(k, tx[k], rooms[k], p)

-----------------------------------------------------------------------------
(* What a plan holds. *)

\* Every action of a plan has a way to be deployed, and what is not a pkg goes to
\* a path of the cask's own.
LEMMA PlanFacts ==
    ASSUME NEW k \in Tokens, NEW v \in Versions
    PROVE  /\ Plan(k, v) \in Seq(Range(Plan(k, v)))
           /\ Range(Plan(k, v)) \subseteq Actions(k)
           /\ Planned(k, v) \subseteq Own(k) /\ Own(k) \subseteq Paths
           /\ \A x \in Range(Plan(k, v)) : x.kind # "pkg" => x.target \in Planned(k, v)
           /\ \A p \in Planned(k, v) :
                 \E i \in 1 .. Len(Plan(k, v)) : /\ Plan(k, v)[i].kind # "pkg"
                                                 /\ Plan(k, v)[i].target = p
<1> DEFINE Y == {x \in Range(Artifacts[k][v]) : x.kind \in DOMAIN Deploys}
<1>1. Plan(k, v) = Chosen(Artifacts[k][v], Y)
  BY DEF Plan, Plans
<1>2. Artifacts[k][v] \in Seq(Range(Artifacts[k][v]))
  BY CaskAssumption
<1>3. Plan(k, v) \in Seq(Y)
  BY <1>1, <1>2, ChosenKind
<1>4. Plan(k, v) \in Seq(Range(Plan(k, v)))
  <2> HIDE DEF Y
  <2> QED BY <1>3 DEF Range
<1>5. Range(Plan(k, v)) \subseteq Actions(k)
  BY DEF Actions
<1>6. Planned(k, v) = {x.target : x \in {y \in Range(Plan(k, v)) : y.kind # "pkg"}}
  BY DEF Planned, TargetsOf
<1>7. Own(k) = UNION {Planned(k, w) : w \in Versions}
  BY DEF Own, OwnedBy
<1>8. \A p \in Planned(k, v) :
          \E i \in 1 .. Len(Plan(k, v)) : /\ Plan(k, v)[i].kind # "pkg"
                                          /\ Plan(k, v)[i].target = p
  <2> SUFFICES ASSUME NEW p \in Planned(k, v)
               PROVE  \E i \in 1 .. Len(Plan(k, v)) : /\ Plan(k, v)[i].kind # "pkg"
                                                      /\ Plan(k, v)[i].target = p
    OBVIOUS
  <2>1. PICK x \in Range(Plan(k, v)) : x.kind # "pkg" /\ x.target = p
    BY <1>6
  <2>2. PICK i \in DOMAIN Plan(k, v) : Plan(k, v)[i] = x
    BY DEF Range
  <2>3. DOMAIN Plan(k, v) = 1 .. Len(Plan(k, v))
    BY <1>4
  <2> QED BY <2>1, <2>2, <2>3
<1>9. Own(k) \subseteq Paths
  BY <1>7, CaskAssumption
<1> QED BY <1>4, <1>5, <1>6, <1>7, <1>8, <1>9

\* No path is of two casks.
LEMMA OwnApart ==
    ASSUME NEW k \in Tokens, NEW j \in Tokens, j # k, NEW p \in Own(j)
    PROVE  p \notin Own(k)
  BY CaskAssumption

-----------------------------------------------------------------------------
(* What a journal holds. *)

LEMMA HasAppend ==
    ASSUME NEW s \in Seq(Reverses), NEW e \in Reverses
    PROVE  \A r, x : Has(Append(s, e), r, x) <=> Has(s, r, x) \/ e = <<r, x>>
  <1>1. Len(Append(s, e)) = Len(s) + 1 /\ Len(s) \in Nat
    OBVIOUS
  <1>2. Append(s, e)[Len(s) + 1] = e
    OBVIOUS
  <1>3. \A i \in 1 .. Len(s) : Append(s, e)[i] = s[i]
    OBVIOUS
  <1>4. \A i \in 1 .. Len(Append(s, e)) : i \in 1 .. Len(s) \/ i = Len(s) + 1
    BY <1>1
  <1>5. \A i \in 1 .. Len(s) : i \in 1 .. Len(Append(s, e))
    BY <1>1
  <1>6. Len(s) + 1 \in 1 .. Len(Append(s, e))
    BY <1>1
  <1> QED BY ONLY <1>2, <1>3, <1>4, <1>5, <1>6, Zenon DEF Has

LEMMA HasAdded ==
    ASSUME NEW s \in Seq(Reverses), NEW r, NEW x, <<r, x>> \in Reverses
    PROVE  \A q, y : Has(Append(s, <<r, x>>), q, y) <=> Has(s, q, y) \/ (q = r /\ y = x)
<1>1. \A q, y : Has(Append(s, <<r, x>>), q, y) <=> Has(s, q, y) \/ <<r, x>> = <<q, y>>
  BY HasAppend
<1>2. \A q, y : <<r, x>> = <<q, y>> <=> q = r /\ y = x
  OBVIOUS
<1> QED BY <1>1, <1>2, Zenon

LEMMA FrontFacts ==
    ASSUME NEW s \in Seq(Reverses), s # <<>>
    PROVE  /\ Front(s) \in Seq(Reverses) /\ Last(s) \in Reverses
           /\ Len(Front(s)) = Len(s) - 1 /\ Len(s) \in Nat \ {0}
           /\ \A i \in 1 .. Len(s) - 1 : Front(s)[i] = s[i]
           /\ Last(s) = s[Len(s)] /\ s = Append(Front(s), Last(s))
  <1>1. Len(s) \in Nat \ {0}
    OBVIOUS
  <1>2. Front(s) = [i \in 1 .. Len(s) - 1 |-> s[i]]
    BY <1>1 DEF Front
  <1>3. Len(Front(s)) = Len(s) - 1
    BY <1>1, <1>2
  <1>4. Front(s) \in Seq(Reverses)
    BY <1>1, <1>2
  <1>5. Last(s) = s[Len(s)] /\ Last(s) \in Reverses
    BY <1>1 DEF Last
  <1>6. \A i \in 1 .. Len(s) - 1 : Front(s)[i] = s[i]
    BY <1>2
  <1> HIDE DEF Front, Last
  <1>7. s = Append(Front(s), Last(s))
    BY <1>1, <1>3, <1>4, <1>5, <1>6
  <1> QED BY <1>1, <1>3, <1>4, <1>5, <1>6, <1>7

LEMMA HasFront ==
    ASSUME NEW s \in Seq(Reverses), s # <<>>
    PROVE  /\ Front(s) \in Seq(Reverses) /\ Last(s) \in Reverses
           /\ \A r, x : Has(s, r, x) <=> Has(Front(s), r, x) \/ Last(s) = <<r, x>>
  <1>1. \A r, x : Has(Append(Front(s), Last(s)), r, x) <=> Has(Front(s), r, x) \/ Last(s) = <<r, x>>
    BY FrontFacts, HasAppend
  <1> QED BY <1>1, FrontFacts

LEMMA HasNone == \A r, x : ~Has(<<>>, r, x)
  BY DEF Has

\* A removal of p, and of its directory where there is none.
LEMMA HasForTarget ==
    ASSUME NEW s \in Seq(Reverses), NEW p \in Paths
    PROVE  /\ s \o ForTarget(p) \in Seq(Reverses)
           /\ \A r, x : Has(s \o ForTarget(p), r, x) <=>
                 \/ Has(s, r, x)
                 \/ r = "Remove" /\ x = p
                 \/ Dir[p] \notin dirs /\ r = "RemoveDir" /\ x = Dir[p]
<1>1. Dir[p] \in Dirs
  BY CaskAssumption
<1>2. <<"Remove", p>> \in Reverses /\ <<"RemoveDir", Dir[p]>> \in Reverses
  BY <1>1 DEF Reverses
<1>3. CASE Dir[p] \in dirs
  <2>1. s \o ForTarget(p) = Append(s, <<"Remove", p>>)
    BY <1>2, <1>3 DEF ForTarget
  <2>2. \A r, x : Has(Append(s, <<"Remove", p>>), r, x) <=> Has(s, r, x) \/ (r = "Remove" /\ x = p)
    BY <1>2, HasAdded
  <2>3. Append(s, <<"Remove", p>>) \in Seq(Reverses)
    BY <1>2
  <2> QED BY <2>1, <2>2, <2>3, <1>3
<1>4. CASE Dir[p] \notin dirs
  <2> DEFINE m == Append(s, <<"RemoveDir", Dir[p]>>)
  <2>1. s \o ForTarget(p) = Append(m, <<"Remove", p>>)
    <3> DEFINE e == <<"RemoveDir", Dir[p]>>
               f == <<"Remove", p>>
    <3>1. ForTarget(p) = <<e>> \o <<f>>
      BY <1>4 DEF ForTarget
    <3>2. e \in Reverses /\ f \in Reverses
      BY <1>2
    <3> HIDE DEF e, f
    <3>3. s \o (<<e>> \o <<f>>) = Append(Append(s, e), f)
      BY <3>2
    <3> QED BY <3>1, <3>3 DEF e, f
  <2>2. m \in Seq(Reverses)
    BY <1>2
  <2>3. \A r, x : Has(m, r, x) <=> Has(s, r, x) \/ (r = "RemoveDir" /\ x = Dir[p])
    BY <1>2, HasAdded
  <2>4. \A r, x : Has(Append(m, <<"Remove", p>>), r, x) <=>
                      Has(m, r, x) \/ (r = "Remove" /\ x = p)
    <3> HIDE DEF m
    <3> QED BY <1>2, <2>2, HasAdded
  <2>5. Append(m, <<"Remove", p>>) \in Seq(Reverses)
    BY <1>2, <2>2
  <2> HIDE DEF m
  <2> QED BY <1>4, <2>1, <2>3, <2>4, <2>5
<1> QED BY <1>3, <1>4

\* The two parts, when something deployed is added,
LEMMA OrderedForward ==
    ASSUME NEW s \in Seq(Reverses), NEW e \in Reverses, Ordered(s), e[1] \notin Undoes
    PROVE  Ordered(Append(s, e))
  <1> SUFFICES ASSUME NEW i \in 1 .. Len(Append(s, e)), NEW j \in 1 .. Len(Append(s, e)),
                      i < j, Append(s, e)[j][1] \in Undoes
               PROVE  Append(s, e)[i][1] \in Undoes /\ Append(s, e)[i] # Append(s, e)[j]
    BY DEF Ordered
  <1>1. j \in 1 .. Len(s) /\ i \in 1 .. Len(s)
    OBVIOUS
  <1>2. Append(s, e)[i] = s[i] /\ Append(s, e)[j] = s[j]
    BY <1>1
  <1> QED BY <1>1, <1>2 DEF Ordered

LEMMA OrderedForTarget ==
    ASSUME NEW s \in Seq(Reverses), NEW p \in Paths, Ordered(s)
    PROVE  Ordered(s \o ForTarget(p))
<1>1. <<"Remove", p>> \in Reverses /\ <<"RemoveDir", Dir[p]>> \in Reverses
  BY CaskAssumption DEF Reverses
<1> DEFINE e == <<"RemoveDir", Dir[p]>>
           f == <<"Remove", p>>
<1>2. e[1] \notin Undoes /\ f[1] \notin Undoes
  BY DEF Undoes
<1>3. CASE Dir[p] \in dirs
  <2>1. s \o ForTarget(p) = Append(s, f)
    BY <1>1, <1>3 DEF ForTarget
  <2> HIDE DEF f
  <2> QED BY <1>1, <1>2, <2>1, OrderedForward DEF f
<1>4. CASE Dir[p] \notin dirs
  <2>1. ForTarget(p) = <<e>> \o <<f>>
    BY <1>4 DEF ForTarget
  <2>2. e \in Reverses /\ f \in Reverses
    BY <1>1
  <2> HIDE DEF e, f
  <2>3. s \o (<<e>> \o <<f>>) = Append(Append(s, e), f)
    BY <2>2
  <2>4. Append(s, e) \in Seq(Reverses) /\ Ordered(Append(s, e))
    BY <1>2, <2>2, OrderedForward
  <2> QED BY <1>2, <2>1, <2>2, <2>3, <2>4, OrderedForward
<1> QED BY <1>3, <1>4

\* when something saved is added to what was saved,
OnlyUndoes(s) == \A i \in 1 .. Len(s) : s[i][1] \in Undoes
LEMMA OrderedUndo ==
    ASSUME NEW s \in Seq(Reverses), NEW r \in Undoes, NEW x, <<r, x>> \in Reverses,
           Ordered(s), OnlyUndoes(s), ~Has(s, r, x)
    PROVE  Ordered(Append(s, <<r, x>>)) /\ OnlyUndoes(Append(s, <<r, x>>))
  <1> DEFINE e == <<r, x>>
             l == Append(s, e)
  <1>1. e[1] \in Undoes /\ e \in Reverses
    OBVIOUS
  <1>2. \A i \in 1 .. Len(s) : s[i] # e
    BY DEF Has
  <1> HIDE DEF e
  <1>3. Len(l) = Len(s) + 1 /\ Len(s) \in Nat /\ l[Len(s) + 1] = e
    BY <1>1
  <1>4. \A i \in 1 .. Len(s) : l[i] = s[i]
    BY <1>1
  <1> HIDE DEF l
  <1>5. \A i \in 1 .. Len(l) : i \in 1 .. Len(s) \/ i = Len(s) + 1
    BY <1>3
  <1>6. OnlyUndoes(l)
    BY <1>1, <1>3, <1>4, <1>5 DEF OnlyUndoes
  <1>7. Ordered(l)
    <2> SUFFICES ASSUME NEW i \in 1 .. Len(l), NEW j \in 1 .. Len(l), i < j, l[j][1] \in Undoes
                 PROVE  l[i][1] \in Undoes /\ l[i] # l[j]
      BY DEF Ordered
    <2>1. i \in 1 .. Len(s)
      BY <1>3
    <2>2. l[i] = s[i] /\ s[i][1] \in Undoes
      BY <2>1, <1>4 DEF OnlyUndoes
    <2>3. CASE j \in 1 .. Len(s)
      BY <2>1, <2>2, <2>3, <1>4 DEF Ordered
    <2>4. CASE j = Len(s) + 1
      BY <2>1, <2>2, <2>4, <1>2, <1>3
    <2> QED BY <2>3, <2>4, <1>5
  <1> QED BY <1>6, <1>7 DEF l, e

\* and when the last entry is taken off: before one to restore there is none to
\* remove, and no second one like it.
LEMMA OrderedFront ==
    ASSUME NEW s \in Seq(Reverses), s # <<>>, Ordered(s)
    PROVE  /\ Ordered(Front(s))
           /\ Last(s)[1] \in Undoes =>
                 /\ \A r, x : Has(Front(s), r, x) => r \in Undoes
                 /\ \A r, x : Last(s) = <<r, x>> => ~Has(Front(s), r, x)
  <1>1. /\ Len(Front(s)) = Len(s) - 1 /\ Len(s) \in Nat \ {0}
        /\ \A i \in 1 .. Len(s) - 1 : Front(s)[i] = s[i]
        /\ Last(s) = s[Len(s)]
    BY FrontFacts
  <1>2. \A i \in 1 .. Len(Front(s)) :
            i \in 1 .. Len(s) /\ i < Len(s) /\ Front(s)[i] = s[i]
    BY <1>1
  <1>3. Len(s) \in 1 .. Len(s)
    BY <1>1
  <1>4. Ordered(Front(s))
    BY <1>2 DEF Ordered
  <1>5. ASSUME Last(s)[1] \in Undoes, NEW r, NEW x, Has(Front(s), r, x)
        PROVE  r \in Undoes /\ Last(s) # <<r, x>>
    <2>1. PICK i \in 1 .. Len(Front(s)) : Front(s)[i] = <<r, x>>
      BY <1>5 DEF Has
    <2>2. s[i][1] \in Undoes /\ s[i] # s[Len(s)]
      BY <1>1, <1>2, <1>3, <1>5 DEF Ordered
    <2>3. s[i] = <<r, x>>
      BY <2>1, <1>2
    <2>4. <<r, x>>[1] = r
      OBVIOUS
    <2> QED BY <2>2, <2>3, <2>4, <1>1
  <1> QED BY <1>4, <1>5

-----------------------------------------------------------------------------
(* What a step of one command means for another's. *)

\* The same command, but for robbed.
Like(t, u) ==
    /\ u.pc = t.pc /\ u.op = t.op /\ u.outcome = t.outcome /\ u.new = t.new
    /\ u.targets = t.targets /\ u.versions = t.versions /\ u.cur = t.cur /\ u.rest = t.rest
    /\ u.journal = t.journal /\ u.saved = t.saved /\ u.staged = t.staged
    /\ u.wrote = t.wrote /\ u.left = t.left /\ u.before = t.before

LEMMA PlannedIn ==
    ASSUME NEW k \in Tokens, NEW t \in Command(k)
    PROVE  /\ \A o \in t.before.rooms : Planned(k, o) \subseteq Own(k)
           /\ Planned(k, t.new) \subseteq Own(k)
  <1>1. t.before.rooms \subseteq Versions /\ t.new \in Versions
    BY DEF Command, Things
  <1> QED BY <1>1, PlanFacts

\* Files may go from under a command, if it is noted.
Loses(k, t, u, a, b) ==
    /\ t.robbed => u.robbed
    /\ \A p \in Own(k) : a[p] = Nothing => b[p] = Nothing
    /\ ~u.robbed => \A p \in Own(k) : b[p] = a[p]

LEMMA LikeFits ==
    ASSUME NEW k \in Tokens, NEW t \in Command(k), NEW u \in Command(k),
           NEW a, NEW b, NEW R, NEW C, NEW M,
           Like(t, u), Loses(k, t, u, a, b), TokenOK(k, t, a, R, C, M)
    PROVE  /\ TokenOK(k, u, b, R, C, M)
           /\ \A p : NoClaim(k, t, R, p) => NoClaim(k, u, R, p)
<1> USE DEF Loses
<1>1. Control(k, t) /\ NoneSaved(k, t) /\ InstallOK(k, t, a, R, C, M)
      /\ RemoveOK(k, t, a, R, M) /\ AnswerOK(k, t, a, R, C, M)
  BY DEF TokenOK
<1>2. Control(k, u) /\ NoneSaved(k, u)
  BY <1>1 DEF Control, NoneSaved, Like
<1>3. InstallOK(k, u, b, R, C, M)
  <2> SUFFICES ASSUME u.pc \in Forward \cup Back, ~u.robbed
               PROVE  /\ OrderOK(u) /\ FilesOK(k, u, b) /\ RoomsOK(u, R, C) /\ ReceiptsOK(u, M)
                      /\ DeployOK(k, u, b, M)
    BY DEF InstallOK
  <2>1. /\ OrderOK(t) /\ FilesOK(k, t, a) /\ RoomsOK(t, R, C) /\ ReceiptsOK(t, M)
        /\ DeployOK(k, t, a, M)
    BY <1>1 DEF InstallOK, Like
  <2>2. \A p \in Own(k) : b[p] = a[p]
    OBVIOUS
  <2>3. OrderOK(u)
    BY <2>1 DEF OrderOK, Like
  <2>4. FilesOK(k, u, b)
    BY <2>1, <2>2 DEF FilesOK, FileOK, Like
  <2>5. RoomsOK(u, R, C)
    BY <2>1 DEF RoomsOK, Like
  <2>6. ReceiptsOK(u, M)
    BY <2>1 DEF ReceiptsOK, ReceiptOK, Like
  <2>7. DeployOK(k, u, b, M)
    <3>1. \A p : Old(k, u, p) <=> Old(k, t, p)
      BY DEF Old, Like
    <3>2. \A p \in Planned(k, t.new) : b[p] = a[p]
      BY <2>2, PlannedIn
    <3> QED BY <2>1, <2>2, <3>1, <3>2 DEF DeployOK, Like
  <2> QED BY <2>3, <2>4, <2>5, <2>6, <2>7
<1>4. RemoveOK(k, u, b, R, M)
  BY <1>1, PlannedIn DEF RemoveOK, Like
<1>5. AnswerOK(k, u, b, R, C, M)
  <2>1. HonestOK(k, u, b, R, M)
    BY <1>1 DEF AnswerOK, HonestOK, Like
  <2>2. InstalledOK(k, u, b, R, C, M)
    BY <1>1, PlannedIn DEF AnswerOK, InstalledOK, Like
  <2>3. RemovedOK(k, u, b, R, M)
    BY <1>1, PlannedIn DEF AnswerOK, RemovedOK, Like
  <2> QED BY <2>1, <2>2, <2>3 DEF AnswerOK
<1>6. \A p : NoClaim(k, t, R, p) => NoClaim(k, u, R, p)
  BY DEF NoClaim, Like
<1> QED BY <1>2, <1>3, <1>4, <1>5, <1>6 DEF TokenOK

\* No command is all right whatever is on disk.
LEMMA QuietFits ==
    ASSUME NEW k \in Tokens, NEW t \in Quiet, NEW a, NEW R, NEW C, NEW M
    PROVE  /\ TokenOK(k, t, a, R, C, M)
           /\ \A p : (\A v \in R : p \notin Planned(k, v)) => NoClaim(k, t, R, p)
  BY DEF Quiet, TokenOK, Control, NoneSaved, InstallOK, RemoveOK, AnswerOK, HonestOK,
         InstalledOK, RemovedOK, NoClaim, Forward, Back, Begun, Saving, Deploying, Removing

\* What a step of k's command leaves alone.
OthersSame(k) ==
    /\ DOMAIN tx' = Tokens
    /\ \A j \in Tokens \ {k} : /\ tx'[j] = tx[j] /\ rooms'[j] = rooms[j]
                               /\ recorded'[j] = recorded[j] /\ receipts'[j] = receipts[j]
                               /\ \A p \in Own(j) : at'[p] = at[p]
    /\ \A p \in Paths : at'[p] = User => at[p] = User

\* The other tokens are still as they should be.
OthersFit(k) ==
    \A j \in Tokens \ {k} :
        /\ TokenOK(j, tx'[j], at', rooms'[j], recorded'[j], receipts'[j])
        /\ \A p \in Paths : at'[p] = User => NoClaim(j, tx'[j], rooms'[j], p)

LEMMA SameFits ==
    ASSUME CaskInv, NEW k \in Tokens, OthersSame(k)
    PROVE  OthersFit(k) /\ DOMAIN tx' = Tokens
<1>1. ASSUME NEW j \in Tokens, j # k
      PROVE  /\ TokenOK(j, tx'[j], at', rooms'[j], recorded'[j], receipts'[j])
             /\ \A p \in Paths : at'[p] = User => NoClaim(j, tx'[j], rooms'[j], p)
  <2>1. /\ tx'[j] = tx[j] /\ rooms'[j] = rooms[j] /\ recorded'[j] = recorded[j]
        /\ receipts'[j] = receipts[j] /\ \A p \in Own(j) : at'[p] = at[p]
        /\ \A p \in Paths : at'[p] = User => at[p] = User
    BY <1>1 DEF OthersSame
  <2>2. /\ TokenOK(j, tx[j], at, rooms[j], recorded[j], receipts[j])
        /\ \A p \in Paths : at[p] = User => NoClaim(j, tx[j], rooms[j], p)
    BY DEF CaskInv
  <2>3. TokenOK(j, tx[j], at', rooms[j], recorded[j], receipts[j])
    <3>1. CASE tx[j] \in Quiet
      BY <3>1, QuietFits
    <3>2. CASE tx[j] \in Command(j)
      <4>1. Like(tx[j], tx[j]) /\ Loses(j, tx[j], tx[j], at, at')
        BY <2>1 DEF Like, Loses
      <4> QED BY <2>1, <2>2, <3>2, <4>1, LikeFits
    <3> QED BY <2>2, <3>1, <3>2 DEF TokenOK
  <2> QED BY <2>1, <2>2, <2>3
<1> QED BY <1>1 DEF OthersFit, OthersSame

LEMMA StepFits ==
    ASSUME CaskInv, NEW k \in Tokens, OthersFit(k), DOMAIN tx' = Tokens, DiskInv',
           TokenOK(k, tx'[k], at', rooms'[k], recorded'[k], receipts'[k]),
           \A p \in Paths : at'[p] = User => NoClaim(k, tx'[k], rooms'[k], p)
    PROVE  CaskInv'
<1>1. /\ \A j \in Tokens : TokenOK(j, tx'[j], at', rooms'[j], recorded'[j], receipts'[j])
      /\ \A p \in Paths : at'[p] = User => \A j \in Tokens : NoClaim(j, tx'[j], rooms'[j], p)
  BY DEF OthersFit
<1> QED BY <1>1 DEF CaskInv

\* What is known of the token whose command takes the step,
LEMMA Known ==
    ASSUME CaskInv, NEW k \in Tokens
    PROVE  /\ DiskInv /\ DOMAIN tx = Tokens /\ tx[k] \in Quiet \cup Command(k)
           /\ Control(k, tx[k]) /\ NoneSaved(k, tx[k])
           /\ InstallOK(k, tx[k], at, rooms[k], recorded[k], receipts[k])
           /\ RemoveOK(k, tx[k], at, rooms[k], receipts[k])
           /\ AnswerOK(k, tx[k], at, rooms[k], recorded[k], receipts[k])
           /\ \A p \in Paths : at[p] = User => NoClaim(k, tx[k], rooms[k], p)
           /\ tx[k].pc # "idle" => tx[k] \in Command(k)
  <1>1. /\ DiskInv /\ DOMAIN tx = Tokens
        /\ TokenOK(k, tx[k], at, rooms[k], recorded[k], receipts[k])
        /\ \A p \in Paths : at[p] = User => NoClaim(k, tx[k], rooms[k], p)
    BY DEF CaskInv
  <1>2. tx[k] \in Quiet => tx[k].pc = "idle"
    BY DEF Quiet
  <1> QED BY <1>1, <1>2 DEF TokenOK

\* and what an install is to show after it.
LEMMA InstallShown ==
    ASSUME CaskInv, NEW k \in Tokens, OthersFit(k), DOMAIN tx' = Tokens, DiskInv',
           tx'[k] \in Command(k),
           tx'[k].pc \in Forward \cup Back, Control(k, tx'[k]), NoneSaved(k, tx'[k]),
           ~tx'[k].robbed =>
               /\ OrderOK(tx'[k]) /\ FilesOK(k, tx'[k], at')
               /\ RoomsOK(tx'[k], rooms'[k], recorded'[k]) /\ ReceiptsOK(tx'[k], receipts'[k])
               /\ DeployOK(k, tx'[k], at', receipts'[k]),
           \A p \in Paths : at'[p] = User => NoClaim(k, tx'[k], rooms'[k], p)
    PROVE  CaskInv'
  <1>1. tx'[k].pc # "idle" /\ tx'[k].pc \notin Removing
    BY DEF Forward, Back, Removing
  <1>2. InstallOK(k, tx'[k], at', rooms'[k], recorded'[k], receipts'[k])
    BY DEF InstallOK
  <1>3. /\ RemoveOK(k, tx'[k], at', rooms'[k], receipts'[k])
        /\ AnswerOK(k, tx'[k], at', rooms'[k], recorded'[k], receipts'[k])
    BY <1>1 DEF RemoveOK, AnswerOK, HonestOK, InstalledOK, RemovedOK
  <1> QED BY <1>2, <1>3, StepFits DEF TokenOK

LEMMA InstallFits ==
    ASSUME CaskInv, NEW k \in Tokens, OthersSame(k), DiskInv', tx'[k] \in Command(k),
           tx'[k].pc \in Forward \cup Back, Control(k, tx'[k]), NoneSaved(k, tx'[k]),
           ~tx'[k].robbed =>
               /\ OrderOK(tx'[k]) /\ FilesOK(k, tx'[k], at')
               /\ RoomsOK(tx'[k], rooms'[k], recorded'[k]) /\ ReceiptsOK(tx'[k], receipts'[k])
               /\ DeployOK(k, tx'[k], at', receipts'[k]),
           \A p \in Paths : at'[p] = User => NoClaim(k, tx'[k], rooms'[k], p)
    PROVE  CaskInv'
  BY SameFits, InstallShown

-----------------------------------------------------------------------------
(* What a step that changes little leaves true of its own command. *)

\* The journals s and s2 have the same entries of one sort.
SameOf(r, s, s2) == \A x : Has(s2, r, x) <=> Has(s, r, x)

\* s2 removes what s does, and besides only where nothing is.
Removes(s, s2, a) ==
    \A p \in Paths :
        /\ Has(s, "Remove", p) => Has(s2, "Remove", p)
        /\ Has(s2, "Remove", p) => Has(s, "Remove", p) \/ a[p] = Nothing
        /\ Has(s2, "RemoveDir", Dir[p]) => Has(s, "RemoveDir", Dir[p]) \/ a[p] = Nothing

Grows(s, s2, a) ==
    /\ \A r \in Undoes : SameOf(r, s, s2)
    /\ Removes(s, s2, a)

LEMMA GrowsSame ==
    /\ \A s, a : Grows(s, s, a)
    /\ \A s, s2, a : Grows(s, s2, a) =>
          /\ SameOf("Restore", s, s2) /\ SameOf("RestoreVersion", s, s2)
          /\ SameOf("RestoreReceipt", s, s2) /\ Removes(s, s2, a)
  BY DEF Grows, SameOf, Removes, Undoes

LEMMA FilesKeep ==
    ASSUME NEW k \in Tokens, NEW t, NEW u, NEW a, FilesOK(k, t, a),
           u.before = t.before, u.saved.at = t.saved.at, t.left \subseteq u.left,
           SameOf("Restore", t.journal, u.journal), Removes(t.journal, u.journal, a),
           u.pc \in Begun => t.pc \in Begun,
           u.pc = "backup" => \/ t.pc \in Begun
                              \/ u.targets = {}
                              \/ t.pc = "backup" /\ u.targets \subseteq t.targets
    PROVE  FilesOK(k, u, a)
<1> SUFFICES ASSUME NEW p \in Own(k), FileOK(t, a, p)
             PROVE  FileOK(u, a, p)
  BY DEF FilesOK
<1>1. p \in Paths
  BY CaskAssumption DEF Own, OwnedBy
<1> QED BY <1>1 DEF FileOK, SameOf, Removes

LEMMA RoomsKeep ==
    ASSUME NEW t, NEW u, NEW R, NEW C, RoomsOK(t, R, C),
           u.before = t.before, u.saved.rooms = t.saved.rooms, t.left \subseteq u.left,
           SameOf("RestoreVersion", t.journal, u.journal),
           u.pc \in Begun => t.pc \in Begun,
           u.pc \in Saving => t.pc \in Saving /\ u.versions = t.versions,
           u.pc \in Deploying => t.pc \in Deploying
    PROVE  RoomsOK(u, R, C)
  BY DEF RoomsOK, SameOf

LEMMA ReceiptsKeep ==
    ASSUME NEW t, NEW u, NEW M, ReceiptsOK(t, M),
           u.before = t.before, u.saved.receipts = t.saved.receipts, t.left \subseteq u.left,
           SameOf("RestoreReceipt", t.journal, u.journal), u.new = t.new, u.wrote = t.wrote,
           u.pc \in Begun => t.pc \in Begun,
           u.pc \in Saving => t.pc \in Saving,
           u.wrote = "tree" => (u.pc \in {"promote", "fail"} <=> t.pc \in {"promote", "fail"})
    PROVE  ReceiptsOK(u, M)
  BY DEF ReceiptsOK, ReceiptOK, SameOf

LEMMA ClaimKeep ==
    ASSUME NEW k \in Tokens, NEW t, NEW u, NEW a, NEW R, NEW p \in Paths, a[p] # Nothing,
           NoClaim(k, t, R, p), t.pc # "idle",
           Grows(t.journal, u.journal, a),
           u.targets \subseteq t.targets, u.versions \subseteq t.versions,
           u.pc \in Deploying => t.pc \in Deploying /\ u.new = t.new /\ u.rest = t.rest
    PROVE  NoClaim(k, u, R, p)
  BY GrowsSame DEF NoClaim, SameOf, Removes

\* s2 does nothing more to p than s.
NoMore(s, s2, p) ==
    /\ Has(s2, "Remove", p) => Has(s, "Remove", p)
    /\ Has(s2, "Restore", p) => Has(s, "Restore", p)
    /\ Has(s2, "RemoveDir", Dir[p]) => Has(s, "RemoveDir", Dir[p])
    /\ \A v \in Versions : Has(s2, "RestoreVersion", v) => Has(s, "RestoreVersion", v)

LEMMA ClaimNoMore ==
    ASSUME NEW k \in Tokens, NEW t, NEW u, NEW R, NEW p,
           NoClaim(k, t, R, p), t.pc # "idle", NoMore(t.journal, u.journal, p),
           u.targets \subseteq t.targets, u.versions \subseteq t.versions,
           u.pc \notin Deploying
    PROVE  NoClaim(k, u, R, p)
  BY DEF NoClaim, NoMore

\* An install begins to roll back.
LEMMA Failing ==
    ASSUME CaskInv, NEW k \in Tokens, tx[k].pc \in Forward, OthersSame(k), DiskInv',
           at' = at, rooms' = rooms, recorded' = recorded, receipts' = receipts,
           tx'[k] \in Command(k), tx'[k].pc = "fail",
           tx'[k].op = tx[k].op, tx'[k].outcome = tx[k].outcome, tx'[k].new = tx[k].new,
           tx'[k].saved = tx[k].saved, tx'[k].wrote = tx[k].wrote, tx'[k].left = tx[k].left,
           tx'[k].before = tx[k].before, tx'[k].robbed = tx[k].robbed,
           tx'[k].targets = tx[k].targets, tx'[k].versions = tx[k].versions,
           Grows(tx[k].journal, tx'[k].journal, at),
           Ordered(tx[k].journal) => Ordered(tx'[k].journal)
    PROVE  CaskInv'
<1>1. /\ tx[k].pc # "idle" /\ tx'[k].pc \in Forward \cup Back
      /\ tx'[k].pc \notin Begun /\ tx'[k].pc \notin Saving /\ tx'[k].pc \notin Deploying
      /\ tx'[k].pc \notin Forward /\ tx'[k].pc \notin Removing
      /\ tx'[k].pc # "backup" /\ tx'[k].pc # "promote"
  BY DEF Forward, Back, Begun, Saving, Deploying, Removing
<1>2. Control(k, tx'[k])
  <2>1. Control(k, tx[k])
    BY Known
  <2> QED BY <2>1, <1>1 DEF Control, Back
<1>3. NoneSaved(k, tx'[k])
  BY <1>1, Known DEF NoneSaved
<1>4. ASSUME ~tx'[k].robbed
      PROVE  /\ OrderOK(tx'[k]) /\ FilesOK(k, tx'[k], at')
             /\ RoomsOK(tx'[k], rooms'[k], recorded'[k]) /\ ReceiptsOK(tx'[k], receipts'[k])
             /\ DeployOK(k, tx'[k], at', receipts'[k])
  <2>1. /\ OrderOK(tx[k]) /\ FilesOK(k, tx[k], at) /\ RoomsOK(tx[k], rooms[k], recorded[k])
        /\ ReceiptsOK(tx[k], receipts[k])
    BY <1>4, Known DEF InstallOK
  <2>2. OrderOK(tx'[k])
    BY <2>1, <1>1 DEF OrderOK
  <2>3. FilesOK(k, tx'[k], at)
    BY <2>1, <1>1, GrowsSame, FilesKeep
  <2>4. RoomsOK(tx'[k], rooms[k], recorded[k])
    BY <2>1, <1>1, GrowsSame, RoomsKeep
  <2>5. ReceiptsOK(tx'[k], receipts[k])
    <3>1. tx[k].wrote = "tree" => tx[k].pc = "promote"
      BY Known DEF Control, Forward, Begun, Saving
    <3> QED BY <2>1, <1>1, <3>1, GrowsSame, ReceiptsKeep
  <2>6. DeployOK(k, tx'[k], at, receipts[k])
    BY <1>1 DEF DeployOK, Deploying
  <2> QED BY <2>2, <2>3, <2>4, <2>5, <2>6
<1>5. \A p \in Paths : at'[p] = User => NoClaim(k, tx'[k], rooms'[k], p)
  BY <1>1, Known, FileAssumption, ClaimKeep
<1> QED BY <1>1, <1>2, <1>3, <1>4, <1>5, InstallFits

-----------------------------------------------------------------------------
(* Beginning and answering. *)

LEMMA Counted ==
    ASSUME DiskInv, Fault \/ Fine
    PROVE  faults' \in 0 .. MaxFaults /\ runs' \in 0 .. MaxRuns
<1>1. MaxFaults \in Nat /\ MaxRuns \in Nat
  BY CaskAssumption
<1> QED BY <1>1 DEF DiskInv, Fault, Fine

LEMMA DiskSame ==
    ASSUME CaskInv, NEW k \in Tokens, UNCHANGED disk, Fault \/ Fine
    PROVE  /\ DiskInv'
           /\ at' = at /\ dirs' = dirs /\ rooms' = rooms /\ recorded' = recorded
           /\ receipts' = receipts
<1>1. DiskInv
  BY DEF CaskInv
<1> QED BY <1>1, Counted DEF DiskInv, disk

\* A command whose backup and journal are changed.
Saved(c, s, j) == [c EXCEPT !.saved = s, !.journal = j]

LEMMA Resaved ==
    ASSUME NEW k \in Tokens, NEW c \in Command(k), NEW s \in Things(k), NEW j \in Seq(Reverses)
    PROVE  LET d == Saved(c, s, j)
           IN  /\ d \in Command(k) /\ d.saved = s /\ d.journal = j /\ d.pc = c.pc
               /\ d.op = c.op /\ d.outcome = c.outcome /\ d.new = c.new /\ d.cur = c.cur
               /\ d.targets = c.targets /\ d.versions = c.versions /\ d.wrote = c.wrote
               /\ d.left = c.left /\ d.before = c.before /\ d.robbed = c.robbed
               /\ d.staged = c.staged
  BY DEF Command, Saved

\* What a token has on disk is a record of things.
LEMMA ThingsFacts ==
    ASSUME NEW k \in Tokens
    PROVE  /\ Empty(k) \in Things(k) /\ \A p \in Own(k) : Empty(k).at[p] = Nothing
           /\ Empty(k).rooms = {} /\ Empty(k).receipts = {}
           /\ DiskInv => /\ Standing(k) \in Things(k)
                         /\ \A p \in Own(k) : Standing(k).at[p] = at[p]
                         /\ Standing(k).rooms = rooms[k]
                         /\ Standing(k).receipts = receipts[k]
  <1>1. Own(k) \subseteq Paths
    BY CaskAssumption DEF Own, OwnedBy
  <1>2. Nothing \in Files
    BY DEF Files
  <1> QED BY <1>1, <1>2 DEF Empty, Standing, Things, DiskInv

\* A command begins.
LEMMA Started ==
    ASSUME CaskInv, NEW k \in Tokens, NEW op \in {"install", "uninstall", "zap"},
           NEW pc \in Forward \cup Removing, NEW new \in Versions,
           NEW targets \in SUBSET Own(k), NEW versions \in SUBSET Versions,
           Start(k, op, pc, new, targets, versions)
    PROVE  /\ DiskInv' /\ OthersSame(k) /\ tx'[k] \in Command(k)
           /\ at' = at /\ rooms' = rooms /\ recorded' = recorded /\ receipts' = receipts
           /\ tx'[k].pc = pc /\ tx'[k].op = op /\ tx'[k].outcome = "running"
           /\ tx'[k].targets = targets /\ tx'[k].versions = versions
           /\ tx'[k].journal = <<>> /\ tx'[k].saved = Empty(k) /\ tx'[k].wrote = "none"
           /\ tx'[k].left = {} /\ tx'[k].before = Standing(k)
  <1>1. DiskInv /\ DOMAIN tx = Tokens
    BY Known
  <1>2. /\ at' = at /\ dirs' = dirs /\ rooms' = rooms /\ recorded' = recorded
        /\ receipts' = receipts /\ faults' = faults /\ runs' = runs + 1 /\ runs < MaxRuns
    BY DEF Start, disk
  <1>3. DiskInv'
    BY <1>1, <1>2, CaskAssumption DEF DiskInv
  <1>4. tx'[k] = [pc |-> pc, op |-> op, outcome |-> "running", new |-> new,
                  targets |-> targets, versions |-> versions, cur |-> new,
                  rest |-> <<>>, journal |-> <<>>, saved |-> Empty(k), staged |-> FALSE,
                  wrote |-> "none", left |-> {}, before |-> Standing(k),
                  robbed |-> FALSE]
    BY <1>1 DEF Start
  <1>5. OthersSame(k)
    BY <1>1, <1>2 DEF OthersSame, Start
  <1>6. tx'[k] \in Command(k)
    <2>1. Empty(k) \in Things(k) /\ Standing(k) \in Things(k)
      BY <1>1, ThingsFacts
    <2>2. <<>> \in Seq(Actions(k)) /\ <<>> \in Seq(Reverses)
      OBVIOUS
    <2>3. {} \in SUBSET Leftovers
      OBVIOUS
    <2> QED BY <1>4, <2>1, <2>2, <2>3 DEF Command
  <1> QED BY <1>2, <1>3, <1>4, <1>5, <1>6

LEMMA UninstallStarts ==
    ASSUME CaskInv, NEW k \in Tokens, NEW op \in {"uninstall", "zap"}, Uninstall(k, op)
    PROVE  CaskInv'
  <1> DEFINE new == CHOOSE v \in rooms[k] : TRUE
  <1>1. DiskInv /\ rooms[k] \subseteq Versions /\ rooms[k] # {}
    BY Known DEF DiskInv, Uninstall
  <1>2. new \in Versions /\ Start(k, op, "remove", new, Targets(k), rooms[k])
    BY <1>1 DEF Uninstall
  <1>3. Targets(k) \in SUBSET Own(k)
    BY <1>1, PlanFacts DEF Targets
  <1> HIDE DEF new
  <1>4. /\ DiskInv' /\ OthersSame(k) /\ tx'[k] \in Command(k)
        /\ at' = at /\ rooms' = rooms /\ recorded' = recorded /\ receipts' = receipts
        /\ tx'[k].pc = "remove" /\ tx'[k].op = op /\ tx'[k].outcome = "running"
        /\ tx'[k].targets = Targets(k) /\ tx'[k].versions = rooms[k]
        /\ tx'[k].journal = <<>> /\ tx'[k].saved = Empty(k) /\ tx'[k].wrote = "none"
        /\ tx'[k].left = {} /\ tx'[k].before = Standing(k)
    <2>1. "remove" \in Forward \cup Removing
      BY DEF Removing
    <2>2. op \in {"install", "uninstall", "zap"}
      OBVIOUS
    <2> QED BY <1>1, <1>2, <1>3, <2>1, <2>2, Started
  <1>5. /\ \A p \in Own(k) : tx'[k].saved.at[p] = Nothing
        /\ tx'[k].before.rooms = rooms[k]
    BY <1>1, <1>4, ThingsFacts
  <1>6. \A r, x : ~Has(tx'[k].journal, r, x)
    BY <1>4, HasNone
  <1>7. /\ tx'[k].pc \in Removing /\ tx'[k].pc \notin Forward \cup Back
        /\ tx'[k].pc \notin Begun \cup Saving \cup Deploying
        /\ tx'[k].pc \notin {"promote", "apply", "put", "metadata", "idle"}
    BY <1>4 DEF Forward, Back, Begun, Saving, Deploying, Removing
  <1>8. Control(k, tx'[k])
    BY <1>4, <1>7 DEF Control
  <1>9. NoneSaved(k, tx'[k])
    BY <1>5, FileAssumption DEF NoneSaved
  <1>10. InstallOK(k, tx'[k], at', rooms'[k], recorded'[k], receipts'[k])
    BY <1>7 DEF InstallOK
  <1>11. RemoveOK(k, tx'[k], at', rooms'[k], receipts'[k])
    BY <1>4, <1>5 DEF RemoveOK, Targets
  <1>12. AnswerOK(k, tx'[k], at', rooms'[k], recorded'[k], receipts'[k])
    BY <1>7 DEF AnswerOK, HonestOK, InstalledOK, RemovedOK
  <1>13. \A p \in Paths : at'[p] = User => NoClaim(k, tx'[k], rooms'[k], p)
    <2>1. ASSUME NEW p \in Paths, at[p] = User
          PROVE  \A w \in rooms[k] : p \notin Planned(k, w)
      BY <2>1, Known DEF NoClaim
    <2> QED BY <1>4, <1>6, <1>7, <2>1 DEF NoClaim, Targets
  <1> QED BY <1>4, <1>8, <1>9, <1>10, <1>11, <1>12, <1>13, SameFits, StepFits DEF TokenOK

LEMMA InstallStarts ==
    ASSUME CaskInv, NEW k \in Tokens, NEW v \in Versions,
           recorded[k] = rooms[k], Start(k, "install", "stage", v, {}, {})
    PROVE  CaskInv'
  <1>1. /\ DiskInv' /\ OthersSame(k) /\ tx'[k] \in Command(k)
        /\ at' = at /\ rooms' = rooms /\ recorded' = recorded /\ receipts' = receipts
        /\ tx'[k].pc = "stage" /\ tx'[k].op = "install" /\ tx'[k].outcome = "running"
        /\ tx'[k].targets = {} /\ tx'[k].versions = {}
        /\ tx'[k].journal = <<>> /\ tx'[k].saved = Empty(k) /\ tx'[k].wrote = "none"
        /\ tx'[k].left = {} /\ tx'[k].before = Standing(k)
    <2>1. "stage" \in Forward \cup Removing
      BY DEF Forward
    <2> QED BY <2>1, Started
  <1>2. DiskInv
    BY Known
  <1>3. /\ \A p \in Own(k) : tx'[k].saved.at[p] = Nothing /\ tx'[k].before.at[p] = at[p]
        /\ tx'[k].before.rooms = rooms[k] /\ tx'[k].before.receipts = receipts[k]
    BY <1>1, <1>2, ThingsFacts
  <1>4. \A r, x : ~Has(tx'[k].journal, r, x)
    BY <1>1, HasNone
  <1>5. /\ tx'[k].pc \in Forward /\ tx'[k].pc \in Begun /\ tx'[k].pc \notin Saving
        /\ tx'[k].pc \notin Deploying /\ tx'[k].pc \notin Removing
        /\ tx'[k].pc \notin {"promote", "fail", "backup", "metadata", "put", "idle"}
    BY <1>1 DEF Forward, Begun, Saving, Deploying, Removing
  <1>6. Control(k, tx'[k])
    BY <1>1, <1>5 DEF Control
  <1>7. NoneSaved(k, tx'[k])
    BY <1>3, FileAssumption DEF NoneSaved
  <1>8. OrderOK(tx'[k])
    BY <1>1, <1>5 DEF OrderOK, Ordered
  <1>9. FilesOK(k, tx'[k], at')
    BY <1>1, <1>3, <1>4, <1>5 DEF FilesOK, FileOK
  <1>10. RoomsOK(tx'[k], rooms'[k], recorded'[k])
    BY <1>1, <1>3, <1>4, <1>5 DEF RoomsOK
  <1>11. ReceiptsOK(tx'[k], receipts'[k])
    BY <1>1, <1>3, <1>4, <1>5 DEF ReceiptsOK, ReceiptOK
  <1>12. DeployOK(k, tx'[k], at', receipts'[k])
    BY <1>5 DEF DeployOK
  <1>13. \A p \in Paths : at'[p] = User => NoClaim(k, tx'[k], rooms'[k], p)
    <2>1. ASSUME NEW p \in Paths, at[p] = User
          PROVE  \A w \in rooms[k] : p \notin Planned(k, w)
      BY <2>1, Known DEF NoClaim
    <2> QED BY <1>1, <1>4, <1>5, <2>1 DEF NoClaim
  <1> QED BY <1>1, <1>5, <1>6, <1>7, <1>8, <1>9, <1>10, <1>11, <1>12, <1>13, InstallFits

\* The order an install or an uninstall is begun in.
LEMMA BeginFits ==
    ASSUME CaskInv, NEW k \in Tokens, Begin(k)
    PROVE  CaskInv'
<1>1. DiskInv /\ rooms[k] \subseteq Versions /\ recorded[k] \subseteq rooms[k]
  BY Known DEF DiskInv
<1>2. ASSUME NEW v \in Versions, NEW replace, Install(k, v, replace)
      PROVE  CaskInv'
  BY <1>1, <1>2, InstallStarts DEF Install, Accepted, RecordsRead
<1>3. ASSUME NEW v \in Versions, Reinstall(k, v)
      PROVE  CaskInv'
  BY <1>3, InstallStarts DEF Reinstall, RecordsRead
<1>4. ASSUME NEW op \in {"uninstall", "zap"}, Uninstall(k, op)
      PROVE  CaskInv'
  BY <1>1, <1>4, UninstallStarts DEF Uninstall
<1> QED BY <1>2, <1>3, <1>4 DEF Begin

LEMMA AnswerFacts ==
    ASSUME NEW k \in Tokens, tx[k] \in Command(k)
    PROVE  /\ Answer(k, "error") \in Command(k) /\ Answer(k, "error").pc = "idle"
           /\ Answer(k, "error").outcome = "error" /\ Answer(k, "error").op = tx[k].op
           /\ Answer(k, "error").journal = <<>>
  <1>1. Empty(k) \in Things(k)
    BY ThingsFacts
  <1>2. <<>> \in Seq(Actions(k)) /\ <<>> \in Seq(Reverses)
    OBVIOUS
  <1> QED BY <1>1, <1>2 DEF Answer, Command

LEMMA Returned ==
    ASSUME CaskInv, NEW k \in Tokens, tx[k] \in Command(k), NEW o \in {"ok", "error"},
           Return(k, o)
    PROVE  /\ tx'[k] \in Command(k) /\ tx'[k].pc = "idle" /\ tx'[k].outcome = o
           /\ tx'[k].op = tx[k].op /\ tx'[k].new = tx[k].new /\ tx'[k].left = tx[k].left
           /\ tx'[k].before = tx[k].before /\ tx'[k].robbed = tx[k].robbed
           /\ tx'[k].journal = <<>> /\ tx'[k].staged = FALSE
           /\ DOMAIN tx' = Tokens /\ \A j \in Tokens \ {k} : tx'[j] = tx[j]
  <1>1. DOMAIN tx = Tokens
    BY Known
  <1>2. Empty(k) \in Things(k)
    BY ThingsFacts
  <1>3. <<>> \in Seq(Actions(k)) /\ <<>> \in Seq(Reverses)
    OBVIOUS
  <1> QED BY <1>1, <1>2, <1>3 DEF Return, Answer, Command

\* A command has answered.
LEMMA AnswerShown ==
    ASSUME CaskInv, NEW k \in Tokens, OthersFit(k), DOMAIN tx' = Tokens, DiskInv',
           tx'[k] \in Command(k),
           tx'[k].pc = "idle", tx'[k].outcome # "running", tx'[k].journal = <<>>,
           tx'[k].op \in {"uninstall", "zap"} => tx'[k].outcome # "incomplete",
           AnswerOK(k, tx'[k], at', rooms'[k], recorded'[k], receipts'[k]),
           \A p \in Paths : at'[p] = User => \A v \in rooms'[k] : p \notin Planned(k, v)
    PROVE  CaskInv'
  <1>1. /\ tx'[k].pc \notin Forward \cup Back \cup Removing
        /\ tx'[k].pc \notin Begun \cup Saving \cup Deploying
        /\ tx'[k].pc \notin {"promote", "put", "apply", "metadata", "stage"}
    BY DEF Forward, Back, Begun, Saving, Deploying, Removing
  <1>2. Control(k, tx'[k]) /\ NoneSaved(k, tx'[k])
    BY <1>1 DEF Control, NoneSaved
  <1>3. /\ InstallOK(k, tx'[k], at', rooms'[k], recorded'[k], receipts'[k])
        /\ RemoveOK(k, tx'[k], at', rooms'[k], receipts'[k])
    BY <1>1 DEF InstallOK, RemoveOK
  <1>4. \A p \in Paths : at'[p] = User => NoClaim(k, tx'[k], rooms'[k], p)
    BY <1>1 DEF NoClaim
  <1> QED BY <1>2, <1>3, <1>4, StepFits DEF TokenOK

LEMMA AnswerFits ==
    ASSUME CaskInv, NEW k \in Tokens, OthersSame(k), DiskInv', tx'[k] \in Command(k),
           tx'[k].pc = "idle", tx'[k].outcome # "running", tx'[k].journal = <<>>,
           tx'[k].op \in {"uninstall", "zap"} => tx'[k].outcome # "incomplete",
           AnswerOK(k, tx'[k], at', rooms'[k], recorded'[k], receipts'[k]),
           \A p \in Paths : at'[p] = User => \A v \in rooms'[k] : p \notin Planned(k, v)
    PROVE  CaskInv'
  BY SameFits, AnswerShown

-----------------------------------------------------------------------------
(* An install, up to the commit. *)

LEMMA StageFits ==
    ASSUME CaskInv, NEW k \in Tokens, Stage(k)
    PROVE  CaskInv'
<1>1. tx[k].pc = "stage" /\ UNCHANGED disk /\ (Fault \/ Fine)
  BY DEF Stage
<1>2. /\ DiskInv /\ DOMAIN tx = Tokens /\ tx[k] \in Command(k)
      /\ Control(k, tx[k]) /\ NoneSaved(k, tx[k])
      /\ InstallOK(k, tx[k], at, rooms[k], recorded[k], receipts[k])
      /\ \A p \in Paths : at[p] = User => NoClaim(k, tx[k], rooms[k], p)
  BY <1>1, Known
<1>3. /\ DiskInv' /\ at' = at /\ dirs' = dirs /\ rooms' = rooms /\ recorded' = recorded
      /\ receipts' = receipts
  BY <1>1, DiskSame
<1>4. tx[k].pc \in Forward /\ tx[k].pc \in Begun /\ tx[k].pc # "idle"
  BY <1>1 DEF Forward, Begun
<1>5. ~tx[k].robbed => /\ OrderOK(tx[k]) /\ FilesOK(k, tx[k], at)
                       /\ RoomsOK(tx[k], rooms[k], recorded[k]) /\ ReceiptsOK(tx[k], receipts[k])
  BY <1>2, <1>4 DEF InstallOK
<1>6. ASSUME Fine, tx' = [tx EXCEPT ![k].pc = IF rooms[k] = {} THEN "backup" ELSE "root",
                                    ![k].staged = TRUE]
      PROVE  CaskInv'
  <2>1. /\ OthersSame(k) /\ tx'[k] \in Command(k)
        /\ tx'[k].pc = IF rooms[k] = {} THEN "backup" ELSE "root"
        /\ tx'[k].op = tx[k].op /\ tx'[k].outcome = tx[k].outcome /\ tx'[k].new = tx[k].new
        /\ tx'[k].targets = tx[k].targets /\ tx'[k].versions = tx[k].versions
        /\ tx'[k].journal = tx[k].journal /\ tx'[k].rest = tx[k].rest
        /\ tx'[k].saved = tx[k].saved /\ tx'[k].wrote = tx[k].wrote
        /\ tx'[k].left = tx[k].left /\ tx'[k].before = tx[k].before
        /\ tx'[k].robbed = tx[k].robbed
    BY <1>2, <1>3, <1>6 DEF OthersSame, Command, Forward
  <2>2. /\ tx'[k].pc \in Forward /\ tx'[k].pc \notin Deploying /\ tx'[k].pc \notin Removing
        /\ tx'[k].pc \notin {"promote", "put", "apply", "metadata", "stage", "idle", "fail"}
        /\ tx'[k].pc \in Saving => rooms[k] = {}
    BY <2>1 DEF Forward, Saving, Deploying, Removing
  <2>3. Control(k, tx'[k]) /\ NoneSaved(k, tx'[k])
    <3>1. Control(k, tx'[k])
      BY <1>1, <1>2, <1>4, <2>1, <2>2 DEF Control, Forward
    <3>2. NoneSaved(k, tx'[k])
      BY <1>2, <1>4, <2>1 DEF NoneSaved
    <3> QED BY <3>1, <3>2
  <2>4. Grows(tx[k].journal, tx'[k].journal, at)
    BY <2>1, GrowsSame
  <2>5. ASSUME ~tx'[k].robbed
        PROVE  /\ OrderOK(tx'[k]) /\ FilesOK(k, tx'[k], at')
               /\ RoomsOK(tx'[k], rooms'[k], recorded'[k]) /\ ReceiptsOK(tx'[k], receipts'[k])
               /\ DeployOK(k, tx'[k], at', receipts'[k])
    <3>1. /\ OrderOK(tx[k]) /\ FilesOK(k, tx[k], at) /\ RoomsOK(tx[k], rooms[k], recorded[k])
          /\ ReceiptsOK(tx[k], receipts[k])
      BY <1>5, <2>1, <2>5
    <3>2. tx[k].journal = <<>>
      BY <1>2, <1>4 DEF Control
    <3>3. OrderOK(tx'[k])
      BY <2>1, <3>2 DEF OrderOK, Ordered
    <3>4. FilesOK(k, tx'[k], at)
      BY <2>1, <2>4, <1>4, <3>1, GrowsSame, FilesKeep
    <3>5. RoomsOK(tx'[k], rooms[k], recorded[k])
      <4>1. tx[k].versions = {}
        BY <1>1, <1>2 DEF Control
      <4> QED BY <1>4, <2>1, <2>2, <3>1, <4>1 DEF RoomsOK
    <3>6. ReceiptsOK(tx'[k], receipts[k])
      <4>1. tx[k].wrote = "none"
        BY <1>2, <1>4 DEF Control
      <4> QED BY <1>4, <2>1, <2>2, <3>1, <3>2, <4>1, HasNone DEF ReceiptsOK, ReceiptOK
    <3>7. DeployOK(k, tx'[k], at, receipts[k])
      <4>1. tx[k].before.rooms = rooms[k]
        BY <1>4, <3>1 DEF RoomsOK
      <4> QED BY <2>1, <2>2, <4>1 DEF DeployOK, Old
    <3> QED BY <1>3, <3>3, <3>4, <3>5, <3>6, <3>7
  <2>6. \A p \in Paths : at'[p] = User => NoClaim(k, tx'[k], rooms'[k], p)
    BY <1>2, <1>3, <1>4, <2>1, <2>2, <2>4, FileAssumption, ClaimKeep
  <2> QED BY <1>3, <2>1, <2>2, <2>3, <2>5, <2>6, InstallFits
<1>7. ASSUME Return(k, "error")
      PROVE  CaskInv'
  <2>1. /\ tx'[k] \in Command(k) /\ tx'[k].pc = "idle" /\ tx'[k].outcome = "error"
        /\ tx'[k].op = tx[k].op /\ tx'[k].new = tx[k].new /\ tx'[k].left = tx[k].left
        /\ tx'[k].before = tx[k].before /\ tx'[k].robbed = tx[k].robbed
        /\ tx'[k].journal = <<>> /\ tx'[k].staged = FALSE
        /\ DOMAIN tx' = Tokens /\ \A j \in Tokens \ {k} : tx'[j] = tx[j]
    BY <1>2, <1>7, Returned
  <2>2. OthersSame(k)
    BY <1>3, <2>1 DEF OthersSame
  <2>3. tx[k].op = "install"
    BY <1>2, <1>4 DEF Control
  <2>4. HonestOK(k, tx'[k], at, rooms[k], receipts[k])
    BY <1>4, <1>5, <2>1 DEF HonestOK, FilesOK, FileOK, RoomsOK, ReceiptsOK, ReceiptOK
  <2>5. AnswerOK(k, tx'[k], at', rooms'[k], recorded'[k], receipts'[k])
    BY <1>3, <2>1, <2>3, <2>4 DEF AnswerOK, InstalledOK, RemovedOK
  <2>6. \A p \in Paths : at'[p] = User => \A v \in rooms'[k] : p \notin Planned(k, v)
    BY <1>2, <1>3 DEF NoClaim
  <2> QED BY <1>3, <2>1, <2>2, <2>3, <2>5, <2>6, AnswerFits
<1>8. ASSUME tx' = [tx EXCEPT ![k].pc = "fail", ![k].staged = TRUE]
      PROVE  CaskInv'
  <2>1. /\ OthersSame(k) /\ tx'[k] \in Command(k) /\ tx'[k].pc = "fail"
        /\ tx'[k].op = tx[k].op /\ tx'[k].outcome = tx[k].outcome /\ tx'[k].new = tx[k].new
        /\ tx'[k].targets = tx[k].targets /\ tx'[k].versions = tx[k].versions
        /\ tx'[k].journal = tx[k].journal
        /\ tx'[k].saved = tx[k].saved /\ tx'[k].wrote = tx[k].wrote
        /\ tx'[k].left = tx[k].left /\ tx'[k].before = tx[k].before
        /\ tx'[k].robbed = tx[k].robbed
    BY <1>2, <1>3, <1>8 DEF OthersSame, Command, Back
  <2> QED BY <1>3, <1>4, <2>1, GrowsSame, Failing
<1> QED BY <1>6, <1>7, <1>8 DEF Stage

LEMMA Installing ==
    ASSUME CaskInv, NEW k \in Tokens, tx[k].pc \in Forward \cup Back
    PROVE  /\ DiskInv /\ DOMAIN tx = Tokens /\ tx[k] \in Command(k)
           /\ Control(k, tx[k]) /\ NoneSaved(k, tx[k])
           /\ \A p \in Paths : at[p] = User => NoClaim(k, tx[k], rooms[k], p)
           /\ tx[k].op = "install" /\ tx[k].outcome = "running" /\ tx[k].pc # "idle"
           /\ ~tx[k].robbed => /\ OrderOK(tx[k]) /\ FilesOK(k, tx[k], at)
                               /\ RoomsOK(tx[k], rooms[k], recorded[k])
                               /\ ReceiptsOK(tx[k], receipts[k])
                               /\ DeployOK(k, tx[k], at, receipts[k])
<1>1. tx[k].pc # "idle"
  BY DEF Forward, Back
<1>2. tx[k].op = "install" /\ tx[k].outcome = "running"
  BY <1>1, Known DEF Control
<1> QED BY <1>1, <1>2, Known DEF InstallOK

\* An operation fails and has done nothing.
LEMMA FailsFits ==
    ASSUME CaskInv, NEW k \in Tokens, tx[k].pc \in Forward, Fault \/ Fine,
           GoTo(k, "fail"), UNCHANGED disk
    PROVE  CaskInv'
<1>1. DOMAIN tx = Tokens /\ tx[k] \in Command(k)
  BY Installing
<1>2. /\ DiskInv' /\ at' = at /\ dirs' = dirs /\ rooms' = rooms /\ recorded' = recorded
      /\ receipts' = receipts
  BY DiskSame
<1>3. /\ OthersSame(k) /\ tx'[k] \in Command(k) /\ tx'[k].pc = "fail"
      /\ tx'[k].op = tx[k].op /\ tx'[k].outcome = tx[k].outcome /\ tx'[k].new = tx[k].new
      /\ tx'[k].targets = tx[k].targets /\ tx'[k].versions = tx[k].versions
      /\ tx'[k].journal = tx[k].journal
      /\ tx'[k].saved = tx[k].saved /\ tx'[k].wrote = tx[k].wrote
      /\ tx'[k].left = tx[k].left /\ tx'[k].before = tx[k].before
      /\ tx'[k].robbed = tx[k].robbed
  BY <1>1, <1>2 DEF GoTo, OthersSame, Command, Back
<1> QED BY <1>2, <1>3, GrowsSame, Failing

LEMMA RootFits ==
    ASSUME CaskInv, NEW k \in Tokens, Root(k)
    PROVE  CaskInv'
<1>1. tx[k].pc = "root" /\ tx[k].pc \in Forward /\ tx[k].pc \in Begun
  BY DEF Root, Forward, Begun
<1>2. CASE Fails(k)
  BY <1>1, <1>2, FailsFits DEF Fails
<1>3. ASSUME Fine, UNCHANGED disk,
             tx' = [tx EXCEPT ![k].pc = "backup", ![k].versions = rooms[k],
                              ![k].targets = Targets(k)]
      PROVE  CaskInv'
  <2>1. /\ DiskInv' /\ at' = at /\ dirs' = dirs /\ rooms' = rooms /\ recorded' = recorded
        /\ receipts' = receipts
    BY <1>3, DiskSame
  <2>2. /\ DiskInv /\ DOMAIN tx = Tokens /\ tx[k] \in Command(k)
        /\ Control(k, tx[k]) /\ NoneSaved(k, tx[k]) /\ tx[k].op = "install"
        /\ \A p \in Paths : at[p] = User => NoClaim(k, tx[k], rooms[k], p)
    BY <1>1, Installing
  <2>3. rooms[k] \subseteq Versions /\ Targets(k) \subseteq Own(k)
    <3>1. rooms[k] \subseteq Versions
      BY <2>2 DEF DiskInv
    <3> QED BY <3>1, PlanFacts DEF Targets
  <2>4. /\ OthersSame(k) /\ tx'[k] \in Command(k) /\ tx'[k].pc = "backup"
        /\ tx'[k].op = tx[k].op /\ tx'[k].outcome = tx[k].outcome /\ tx'[k].new = tx[k].new
        /\ tx'[k].targets = Targets(k) /\ tx'[k].versions = rooms[k]
        /\ tx'[k].journal = tx[k].journal
        /\ tx'[k].saved = tx[k].saved /\ tx'[k].wrote = tx[k].wrote
        /\ tx'[k].left = tx[k].left /\ tx'[k].before = tx[k].before
        /\ tx'[k].robbed = tx[k].robbed
    BY <1>3, <2>1, <2>2, <2>3 DEF OthersSame, Command, Forward
  <2>5. /\ tx'[k].pc \in Forward /\ tx'[k].pc \in Saving /\ tx'[k].pc \notin Begun
        /\ tx'[k].pc \notin Deploying /\ tx'[k].pc \notin Removing
        /\ tx'[k].pc \notin {"promote", "put", "apply", "metadata", "stage", "idle", "fail"}
    BY <2>4 DEF Forward, Begun, Saving, Deploying, Removing
  <2>6. tx[k].journal = <<>> /\ tx[k].wrote = "none" /\ tx[k].left = {}
    BY <1>1, <2>2 DEF Control
  <2>7. Control(k, tx'[k])
    BY <1>1, <2>2, <2>4, <2>5, <2>6 DEF Control
  <2>8. NoneSaved(k, tx'[k])
    BY <1>1, <2>2, <2>4 DEF NoneSaved
  <2>9. ASSUME ~tx'[k].robbed
        PROVE  /\ OrderOK(tx'[k]) /\ FilesOK(k, tx'[k], at')
               /\ RoomsOK(tx'[k], rooms'[k], recorded'[k]) /\ ReceiptsOK(tx'[k], receipts'[k])
               /\ DeployOK(k, tx'[k], at', receipts'[k])
    <3>1. /\ FilesOK(k, tx[k], at) /\ RoomsOK(tx[k], rooms[k], recorded[k])
          /\ ReceiptsOK(tx[k], receipts[k])
      BY <1>1, <2>4, <2>9, Installing
    <3>2. OrderOK(tx'[k])
      BY <2>4, <2>6 DEF OrderOK, Ordered
    <3>3. FilesOK(k, tx'[k], at)
      BY <1>1, <2>4, <2>5, <3>1, GrowsSame, FilesKeep
    <3>4. RoomsOK(tx'[k], rooms[k], recorded[k])
      BY <2>4, <2>5, <2>6, <3>1, HasNone DEF RoomsOK
    <3>5. ReceiptsOK(tx'[k], receipts[k])
      BY <2>4, <2>5, <2>6, <3>1, HasNone DEF ReceiptsOK, ReceiptOK
    <3>6. DeployOK(k, tx'[k], at, receipts[k])
      <4>1. tx[k].before.rooms = rooms[k]
        BY <1>1, <3>1 DEF RoomsOK
      <4> QED BY <2>4, <2>5, <4>1 DEF DeployOK, Old, Targets
    <3> QED BY <2>1, <3>2, <3>3, <3>4, <3>5, <3>6
  <2>10. \A p \in Paths : at'[p] = User => NoClaim(k, tx'[k], rooms'[k], p)
    BY <2>1, <2>2, <2>4, <2>5, <2>6, HasNone DEF NoClaim, Targets
  <2> QED BY <2>1, <2>4, <2>5, <2>7, <2>8, <2>9, <2>10, InstallFits
<1> QED BY <1>2, <1>3 DEF Root

LEMMA BackupReceiptFits ==
    ASSUME CaskInv, NEW k \in Tokens, BackupReceipt(k)
    PROVE  CaskInv'
<1>1. tx[k].pc = "metadata" /\ tx[k].pc \in Forward /\ tx[k].pc \in Saving
  BY DEF BackupReceipt, Forward, Saving
<1>2. /\ DiskInv /\ DOMAIN tx = Tokens /\ tx[k] \in Command(k) /\ tx[k].pc # "idle"
      /\ Control(k, tx[k]) /\ NoneSaved(k, tx[k]) /\ tx[k].op = "install"
      /\ \A p \in Paths : at[p] = User => NoClaim(k, tx[k], rooms[k], p)
  BY <1>1, Installing
<1>3. tx[k].targets = {} /\ tx[k].wrote = "none" /\ tx[k].left = {}
  BY <1>1, <1>2 DEF Control
<1>4. CASE Fails(k)
  BY <1>1, <1>4, FailsFits DEF Fails
<1>5. ASSUME tx[k].cur \notin receipts[k], Fine, GoTo(k, "backup"), UNCHANGED disk
      PROVE  CaskInv'
  <2>1. /\ DiskInv' /\ at' = at /\ dirs' = dirs /\ rooms' = rooms /\ recorded' = recorded
        /\ receipts' = receipts
    BY <1>5, DiskSame
  <2>4. /\ OthersSame(k) /\ tx'[k] \in Command(k) /\ tx'[k].pc = "backup"
        /\ tx'[k].op = tx[k].op /\ tx'[k].outcome = tx[k].outcome /\ tx'[k].new = tx[k].new
        /\ tx'[k].targets = tx[k].targets /\ tx'[k].versions = tx[k].versions
        /\ tx'[k].journal = tx[k].journal
        /\ tx'[k].saved = tx[k].saved /\ tx'[k].wrote = tx[k].wrote
        /\ tx'[k].left = tx[k].left /\ tx'[k].before = tx[k].before
        /\ tx'[k].robbed = tx[k].robbed
    BY <1>2, <1>5, <2>1 DEF GoTo, OthersSame, Command, Forward
  <2>5. /\ tx'[k].pc \in Forward /\ tx'[k].pc \in Saving /\ tx'[k].pc \notin Begun
        /\ tx'[k].pc \notin Deploying /\ tx'[k].pc \notin Removing
        /\ tx'[k].pc \notin {"promote", "put", "apply", "metadata", "stage", "idle", "fail"}
    BY <2>4 DEF Forward, Begun, Saving, Deploying, Removing
  <2>6. Grows(tx[k].journal, tx'[k].journal, at)
    BY <2>4, GrowsSame
  <2>7. Control(k, tx'[k])
    BY <1>1, <1>2, <1>3, <2>4, <2>5 DEF Control
  <2>8. NoneSaved(k, tx'[k])
    BY <1>2, <2>4 DEF NoneSaved
  <2>9. ASSUME ~tx'[k].robbed
        PROVE  /\ OrderOK(tx'[k]) /\ FilesOK(k, tx'[k], at')
               /\ RoomsOK(tx'[k], rooms'[k], recorded'[k]) /\ ReceiptsOK(tx'[k], receipts'[k])
               /\ DeployOK(k, tx'[k], at', receipts'[k])
    <3>1. /\ OrderOK(tx[k]) /\ FilesOK(k, tx[k], at) /\ RoomsOK(tx[k], rooms[k], recorded[k])
          /\ ReceiptsOK(tx[k], receipts[k]) /\ DeployOK(k, tx[k], at, receipts[k])
      BY <1>1, <2>4, <2>9, Installing
    <3>2. OrderOK(tx'[k])
      BY <1>1, <2>4, <3>1 DEF OrderOK
    <3>3. FilesOK(k, tx'[k], at)
      BY <1>1, <1>3, <2>4, <2>5, <2>6, <3>1, GrowsSame, FilesKeep
    <3>4. RoomsOK(tx'[k], rooms[k], recorded[k])
      BY <1>1, <2>4, <2>5, <2>6, <3>1, GrowsSame, RoomsKeep
    <3>5. ReceiptsOK(tx'[k], receipts[k])
      BY <1>1, <1>3, <2>4, <2>5, <2>6, <3>1, GrowsSame, ReceiptsKeep
    <3>6. DeployOK(k, tx'[k], at, receipts[k])
      BY <1>1, <1>5, <2>4, <2>5, <3>1 DEF DeployOK, Old
    <3> QED BY <2>1, <3>2, <3>3, <3>4, <3>5, <3>6
  <2>10. \A p \in Paths : at'[p] = User => NoClaim(k, tx'[k], rooms'[k], p)
    BY <1>2, <2>1, <2>4, <2>5, <2>6, FileAssumption, ClaimKeep
  <2> QED BY <2>1, <2>4, <2>5, <2>7, <2>8, <2>9, <2>10, InstallFits
<1>6. ASSUME tx[k].cur \in receipts[k], Fine,
             receipts' = [receipts EXCEPT ![k] = @ \ {tx[k].cur}],
             tx' = [tx EXCEPT ![k].pc = "backup",
                              ![k].saved.receipts = @ \cup {tx[k].cur},
                              ![k].journal = Append(@, <<"RestoreReceipt", tx[k].cur>>)],
             UNCHANGED <<at, dirs, rooms, recorded>>
      PROVE  CaskInv'
  <2> DEFINE e == <<"RestoreReceipt", tx[k].cur>>
  <2>1. e \in Reverses /\ tx[k].cur \in Versions /\ tx[k].journal \in Seq(Reverses)
    BY <1>2 DEF Reverses, Command
  <2>2. /\ DiskInv' /\ receipts'[k] = receipts[k] \ {tx[k].cur}
    BY <1>2, <1>6, Counted DEF DiskInv
  <2>3. Append(tx[k].journal, e) \in Seq(Reverses)
    <3> HIDE DEF e
    <3> QED BY <2>1
  <2>4. /\ OthersSame(k) /\ tx'[k] \in Command(k) /\ tx'[k].pc = "backup"
        /\ tx'[k].op = tx[k].op /\ tx'[k].outcome = tx[k].outcome /\ tx'[k].new = tx[k].new
        /\ tx'[k].targets = tx[k].targets /\ tx'[k].versions = tx[k].versions
        /\ tx'[k].journal = Append(tx[k].journal, e)
        /\ tx'[k].saved.at = tx[k].saved.at /\ tx'[k].saved.rooms = tx[k].saved.rooms
        /\ tx'[k].saved.receipts = tx[k].saved.receipts \cup {tx[k].cur}
        /\ tx'[k].wrote = tx[k].wrote
        /\ tx'[k].left = tx[k].left /\ tx'[k].before = tx[k].before
        /\ tx'[k].robbed = tx[k].robbed
    <3> DEFINE c == [tx[k] EXCEPT !.pc = "backup"]
               s == [tx[k].saved EXCEPT !.receipts = @ \cup {tx[k].cur}]
    <3>1. /\ tx'[k] = Saved(c, s, Append(tx[k].journal, e))
          /\ DOMAIN tx' = Tokens /\ \A j \in Tokens \ {k} : tx'[j] = tx[j]
      <4> HIDE DEF e
      <4> QED BY <1>2, <1>6 DEF Command, Saved, e
    <3>2. OthersSame(k)
      BY <1>2, <1>6, <3>1 DEF OthersSame, DiskInv
    <3>3. /\ s \in Things(k) /\ s.at = tx[k].saved.at /\ s.rooms = tx[k].saved.rooms
          /\ s.receipts = tx[k].saved.receipts \cup {tx[k].cur}
      BY <1>2 DEF Command, Things
    <3>4. /\ c \in Command(k) /\ c.pc = "backup" /\ c.op = tx[k].op
          /\ c.outcome = tx[k].outcome /\ c.new = tx[k].new /\ c.targets = tx[k].targets
          /\ c.versions = tx[k].versions /\ c.wrote = tx[k].wrote
          /\ c.left = tx[k].left /\ c.before = tx[k].before /\ c.robbed = tx[k].robbed
      BY <1>2 DEF Command, Forward
    <3> DEFINE j == Append(tx[k].journal, e)
    <3> HIDE DEF c, s, e, j
    <3>5. j \in Seq(Reverses) /\ tx'[k] = Saved(c, s, j)
      BY <2>3, <3>1 DEF j
    <3>6. /\ tx'[k] \in Command(k) /\ tx'[k].saved = s /\ tx'[k].journal = j
          /\ tx'[k].pc = c.pc /\ tx'[k].op = c.op /\ tx'[k].outcome = c.outcome
          /\ tx'[k].new = c.new /\ tx'[k].targets = c.targets /\ tx'[k].versions = c.versions
          /\ tx'[k].wrote = c.wrote /\ tx'[k].left = c.left /\ tx'[k].before = c.before
          /\ tx'[k].robbed = c.robbed
      BY <3>3, <3>4, <3>5, Resaved
    <3> QED BY <3>2, <3>3, <3>4, <3>6 DEF j
  <2>5. /\ tx'[k].pc \in Forward /\ tx'[k].pc \in Saving /\ tx'[k].pc \notin Begun
        /\ tx'[k].pc \notin Deploying /\ tx'[k].pc \notin Removing
        /\ tx'[k].pc \notin {"promote", "put", "apply", "metadata", "stage", "idle", "fail"}
    BY <2>4 DEF Forward, Begun, Saving, Deploying, Removing
  <2>6. \A r, x : Has(tx'[k].journal, r, x) <=>
                      Has(tx[k].journal, r, x) \/ (r = "RestoreReceipt" /\ x = tx[k].cur)
    BY <2>1, <2>4, HasAdded
  <2>7. Control(k, tx'[k])
    BY <1>1, <1>2, <1>3, <2>4, <2>5 DEF Control
  <2>8. NoneSaved(k, tx'[k])
    BY <1>2, <2>4 DEF NoneSaved
  <2>9. ASSUME ~tx'[k].robbed
        PROVE  /\ OrderOK(tx'[k]) /\ FilesOK(k, tx'[k], at')
               /\ RoomsOK(tx'[k], rooms'[k], recorded'[k]) /\ ReceiptsOK(tx'[k], receipts'[k])
               /\ DeployOK(k, tx'[k], at', receipts'[k])
    <3>1. /\ OrderOK(tx[k]) /\ FilesOK(k, tx[k], at) /\ RoomsOK(tx[k], rooms[k], recorded[k])
          /\ ReceiptsOK(tx[k], receipts[k]) /\ DeployOK(k, tx[k], at, receipts[k])
      BY <1>1, <2>4, <2>9, Installing
    <3>2. OrderOK(tx'[k])
      <4>1. ~Has(tx[k].journal, "RestoreReceipt", tx[k].cur)
        BY <1>1, <1>6, <2>1, <3>1 DEF ReceiptsOK, ReceiptOK
      <4>2. "RestoreReceipt" \in Undoes
        BY DEF Undoes
      <4>3. Ordered(tx[k].journal) /\ OnlyUndoes(tx[k].journal)
        BY <1>1, <3>1 DEF OrderOK, OnlyUndoes
      <4>4. Ordered(tx'[k].journal) /\ OnlyUndoes(tx'[k].journal)
        BY <2>1, <2>4, <4>1, <4>2, <4>3, OrderedUndo
      <4> QED BY <4>4 DEF OrderOK, OnlyUndoes
    <3>3. FilesOK(k, tx'[k], at)
      <4>1. /\ SameOf("Restore", tx[k].journal, tx'[k].journal)
            /\ Removes(tx[k].journal, tx'[k].journal, at)
        BY <2>6 DEF SameOf, Removes
      <4> QED BY <1>1, <1>3, <2>4, <2>5, <3>1, <4>1, FilesKeep
    <3>4. RoomsOK(tx'[k], rooms[k], recorded[k])
      <4>1. SameOf("RestoreVersion", tx[k].journal, tx'[k].journal)
        BY <2>6 DEF SameOf
      <4> QED BY <1>1, <2>4, <2>5, <3>1, <4>1, RoomsKeep
    <3>5. ReceiptsOK(tx'[k], receipts'[k])
      <4>1. tx[k].cur \in tx[k].before.receipts
        BY <1>3, <1>6, <1>1, <2>1, <3>1 DEF ReceiptsOK, ReceiptOK
      <4> QED BY <1>1, <1>3, <2>2, <2>4, <2>5, <2>6, <3>1, <4>1 DEF ReceiptsOK, ReceiptOK
    <3>6. DeployOK(k, tx'[k], at', receipts'[k])
      BY <1>1, <1>6, <2>2, <2>4, <2>5, <3>1 DEF DeployOK, Old
    <3> QED BY <1>6, <3>2, <3>3, <3>4, <3>5, <3>6
  <2>10. \A p \in Paths : at'[p] = User => NoClaim(k, tx'[k], rooms'[k], p)
    <3> SUFFICES ASSUME NEW p \in Paths, at[p] = User
                 PROVE  NoClaim(k, tx'[k], rooms[k], p)
      BY <1>6
    <3>1. NoClaim(k, tx[k], rooms[k], p)
      BY <1>2
    <3>2. NoMore(tx[k].journal, tx'[k].journal, p)
      BY <2>6 DEF NoMore
    <3> QED BY <1>2, <2>4, <2>5, <3>1, <3>2, ClaimNoMore
  <2> QED BY <2>2, <2>4, <2>5, <2>7, <2>8, <2>9, <2>10, InstallFits
<1> QED BY <1>4, <1>5, <1>6 DEF BackupReceipt

LEMMA FileIn ==
    ASSUME NEW k \in Tokens, NEW v \in Versions, NEW w \in BOOLEAN
    PROVE  File(k, v, w) \in Files /\ File(k, v, w) # Nothing /\ File(k, v, w) # User
  BY FileAssumption DEF Files

\* What is torn is still somebody's file.
LEMMA TornFacts ==
    ASSUME NEW f \in Files, f # Nothing
    PROVE  Torn(f) \in Files /\ Torn(f) # Nothing /\ (Torn(f) = User <=> f = User)
<1>1. CASE f = User
  BY <1>1, FileAssumption DEF Torn, Files
<1>2. CASE f # User
  <2>1. PICK j \in Tokens, v \in Versions, w \in BOOLEAN : f = File(j, v, w)
    BY <1>2 DEF Files
  <2>2. Torn(f) = File(j, v, FALSE)
    BY <1>2, <2>1 DEF Torn, File
  <2>3. File(j, v, FALSE) \in Files
    BY FileIn
  <2> QED BY <1>2, <2>2, <2>3, FileAssumption
<1> QED BY <1>1, <1>2

LEMMA BackupTargetFits ==
    ASSUME CaskInv, NEW k \in Tokens, NEW p \in Own(k), BackupTarget(k, p)
    PROVE  CaskInv'
<1>1. /\ tx[k].pc = "backup" /\ tx[k].pc \in Forward /\ tx[k].pc \in Saving /\ p \in tx[k].targets
      /\ Fault \/ Fine
  BY DEF BackupTarget, InTurn, Forward, Saving, Fails
<1>2. /\ DiskInv /\ DOMAIN tx = Tokens /\ tx[k] \in Command(k) /\ tx[k].pc # "idle"
      /\ Control(k, tx[k]) /\ NoneSaved(k, tx[k]) /\ tx[k].op = "install"
      /\ tx[k].outcome = "running"
      /\ \A q \in Paths : at[q] = User => NoClaim(k, tx[k], rooms[k], q)
  BY <1>1, Installing
<1>3. tx[k].wrote = "none" /\ tx[k].left = {}
  BY <1>1, <1>2 DEF Control
<1>4. /\ p \in Paths /\ at \in [Paths -> Files] /\ at[p] # User /\ at[p] \in Files
      /\ Own(k) \subseteq Paths
  <2>1. p \in Paths /\ Own(k) \subseteq Paths
    BY CaskAssumption DEF Own, OwnedBy
  <2>2. at[p] # User
    BY <1>1, <1>2, <2>1 DEF NoClaim
  <2> QED BY <1>2, <2>1, <2>2 DEF DiskInv
<1>5. ~tx[k].robbed => /\ OrderOK(tx[k]) /\ FilesOK(k, tx[k], at)
                       /\ RoomsOK(tx[k], rooms[k], recorded[k]) /\ ReceiptsOK(tx[k], receipts[k])
                       /\ DeployOK(k, tx[k], at, receipts[k])
  BY <1>1, Installing
<1>6. CASE Fails(k)
  BY <1>1, <1>6, FailsFits DEF Fails
<1>7. ASSUME at[p] = Nothing, Fine, UNCHANGED disk,
             tx' = [tx EXCEPT ![k].targets = @ \ {p}]
      PROVE  CaskInv'
  <2>1. /\ DiskInv' /\ at' = at /\ dirs' = dirs /\ rooms' = rooms /\ recorded' = recorded
        /\ receipts' = receipts
    BY <1>7, DiskSame
  <2>2. /\ OthersSame(k) /\ tx'[k] \in Command(k) /\ tx'[k].pc = "backup"
        /\ tx'[k].op = tx[k].op /\ tx'[k].outcome = tx[k].outcome /\ tx'[k].new = tx[k].new
        /\ tx'[k].targets = tx[k].targets \ {p} /\ tx'[k].versions = tx[k].versions
        /\ tx'[k].journal = tx[k].journal
        /\ tx'[k].saved = tx[k].saved /\ tx'[k].wrote = tx[k].wrote
        /\ tx'[k].left = tx[k].left /\ tx'[k].before = tx[k].before
        /\ tx'[k].robbed = tx[k].robbed
    BY <1>1, <1>2, <1>7, <2>1 DEF OthersSame, Command
  <2>3. /\ tx'[k].pc \in Forward /\ tx'[k].pc \in Saving /\ tx'[k].pc \notin Begun
        /\ tx'[k].pc \notin Deploying /\ tx'[k].pc \notin Removing
        /\ tx'[k].pc \notin {"promote", "put", "apply", "metadata", "stage", "idle", "fail"}
    BY <2>2 DEF Forward, Begun, Saving, Deploying, Removing
  <2>4. Grows(tx[k].journal, tx'[k].journal, at)
    BY <2>2, GrowsSame
  <2>5. Control(k, tx'[k]) /\ NoneSaved(k, tx'[k])
    BY <1>1, <1>2, <1>3, <2>2, <2>3 DEF Control, NoneSaved
  <2>6. ASSUME ~tx'[k].robbed
        PROVE  /\ OrderOK(tx'[k]) /\ FilesOK(k, tx'[k], at')
               /\ RoomsOK(tx'[k], rooms'[k], recorded'[k]) /\ ReceiptsOK(tx'[k], receipts'[k])
               /\ DeployOK(k, tx'[k], at', receipts'[k])
    <3>1. /\ OrderOK(tx[k]) /\ FilesOK(k, tx[k], at) /\ RoomsOK(tx[k], rooms[k], recorded[k])
          /\ ReceiptsOK(tx[k], receipts[k]) /\ DeployOK(k, tx[k], at, receipts[k])
      BY <1>5, <2>2, <2>6
    <3>2. OrderOK(tx'[k])
      BY <1>1, <2>2, <3>1 DEF OrderOK
    <3>3. FilesOK(k, tx'[k], at)
      BY <1>1, <2>2, <2>3, <2>4, <3>1, GrowsSame, FilesKeep
    <3>4. RoomsOK(tx'[k], rooms[k], recorded[k])
      BY <1>1, <2>2, <2>3, <2>4, <3>1, GrowsSame, RoomsKeep
    <3>5. ReceiptsOK(tx'[k], receipts[k])
      BY <1>1, <1>3, <2>2, <2>3, <2>4, <3>1, GrowsSame, ReceiptsKeep
    <3>6. DeployOK(k, tx'[k], at, receipts[k])
      BY <1>1, <1>7, <2>2, <2>3, <3>1 DEF DeployOK, Old
    <3> QED BY <2>1, <3>2, <3>3, <3>4, <3>5, <3>6
  <2>7. \A q \in Paths : at'[q] = User => NoClaim(k, tx'[k], rooms'[k], q)
    BY <1>2, <2>1, <2>2, <2>3, <2>4, FileAssumption, ClaimKeep
  <2> QED BY <2>1, <2>2, <2>3, <2>5, <2>6, <2>7, InstallFits
<1>8. ASSUME at[p] # Nothing, Fine, at' = [at EXCEPT ![p] = Nothing],
             tx' = [tx EXCEPT ![k].targets = @ \ {p}, ![k].saved.at[p] = at[p],
                              ![k].journal = Append(@, <<"Restore", p>>)],
             UNCHANGED <<dirs, rooms, recorded, receipts>>
      PROVE  CaskInv'
  <2> DEFINE e == <<"Restore", p>>
  <2>1. e \in Reverses /\ tx[k].journal \in Seq(Reverses)
    BY <1>2, <1>4 DEF Reverses, Command
  <2>2. Append(tx[k].journal, e) \in Seq(Reverses)
    <3> HIDE DEF e
    <3> QED BY <2>1
  <2>3. DiskInv' /\ at'[p] = Nothing /\ \A q \in Paths : q # p => at'[q] = at[q]
    <3>1. Nothing \in Files
      BY DEF Files
    <3> QED BY <1>2, <1>4, <1>8, <3>1, Counted DEF DiskInv
  <2>4. /\ tx'[k] \in Command(k) /\ tx'[k].pc = "backup"
        /\ tx'[k].op = tx[k].op /\ tx'[k].outcome = tx[k].outcome /\ tx'[k].new = tx[k].new
        /\ tx'[k].targets = tx[k].targets \ {p} /\ tx'[k].versions = tx[k].versions
        /\ tx'[k].journal = Append(tx[k].journal, e)
        /\ tx'[k].saved.at = [tx[k].saved.at EXCEPT ![p] = at[p]]
        /\ tx'[k].saved.rooms = tx[k].saved.rooms
        /\ tx'[k].saved.receipts = tx[k].saved.receipts
        /\ tx'[k].wrote = tx[k].wrote
        /\ tx'[k].left = tx[k].left /\ tx'[k].before = tx[k].before
        /\ tx'[k].robbed = tx[k].robbed
    BY <1>1, <1>2, <1>4, <1>8, <2>1, <2>2 DEF Command, Things
  <2>5. OthersSame(k)
    <3>1. DOMAIN tx' = Tokens /\ \A j \in Tokens \ {k} : tx'[j] = tx[j]
      BY <1>2, <1>8
    <3>2. \A j \in Tokens \ {k} : \A q \in Own(j) : at'[q] = at[q]
      BY <1>4, <2>3, OwnApart, CaskAssumption DEF Own, OwnedBy
    <3> QED BY <1>8, <2>3, <3>1, <3>2, FileAssumption DEF OthersSame
  <2>6. /\ tx[k].saved.at \in [Own(k) -> Files] /\ tx'[k].saved.at[p] = at[p]
        /\ \A q \in Own(k) : q # p => tx'[k].saved.at[q] = tx[k].saved.at[q]
    BY <1>2, <2>4 DEF Command, Things
  <2>7. /\ tx'[k].pc \in Forward /\ tx'[k].pc \in Saving /\ tx'[k].pc \notin Begun
        /\ tx'[k].pc \notin Deploying /\ tx'[k].pc \notin Removing
        /\ tx'[k].pc \notin {"promote", "put", "apply", "metadata", "stage", "idle", "fail"}
    BY <2>4 DEF Forward, Begun, Saving, Deploying, Removing
  <2>8. \A r, x : Has(tx'[k].journal, r, x) <=>
                      Has(tx[k].journal, r, x) \/ (r = "Restore" /\ x = p)
    BY <2>1, <2>4, HasAdded
  <2>9. Control(k, tx'[k]) /\ NoneSaved(k, tx'[k])
    <3>1. Control(k, tx'[k])
      BY <1>1, <1>2, <1>3, <2>4, <2>7 DEF Control
    <3>2. NoneSaved(k, tx'[k])
      BY <1>2, <1>4, <2>6 DEF NoneSaved
    <3> QED BY <3>1, <3>2
  <2>10. ASSUME ~tx'[k].robbed
         PROVE  /\ OrderOK(tx'[k]) /\ FilesOK(k, tx'[k], at')
                /\ RoomsOK(tx'[k], rooms'[k], recorded'[k]) /\ ReceiptsOK(tx'[k], receipts'[k])
                /\ DeployOK(k, tx'[k], at', receipts'[k])
    <3>1. /\ OrderOK(tx[k]) /\ FilesOK(k, tx[k], at) /\ RoomsOK(tx[k], rooms[k], recorded[k])
          /\ ReceiptsOK(tx[k], receipts[k]) /\ DeployOK(k, tx[k], at, receipts[k])
      BY <1>5, <2>4, <2>10
    <3>2. at[p] = tx[k].before.at[p] /\ ~Has(tx[k].journal, "Restore", p)
      BY <1>1, <3>1 DEF FilesOK, FileOK
    <3>3. OrderOK(tx'[k])
      <4>1. "Restore" \in Undoes
        BY DEF Undoes
      <4>2. Ordered(tx[k].journal) /\ OnlyUndoes(tx[k].journal)
        BY <1>1, <3>1 DEF OrderOK, OnlyUndoes
      <4>3. Ordered(tx'[k].journal) /\ OnlyUndoes(tx'[k].journal)
        BY <2>1, <2>4, <3>2, <4>1, <4>2, OrderedUndo
      <4> QED BY <4>3 DEF OrderOK, OnlyUndoes
    <3>4. FilesOK(k, tx'[k], at')
      <4>1. FileOK(tx'[k], at', p)
        BY <1>8, <2>4, <2>6, <2>7, <2>8, <3>2 DEF FileOK
      <4>2. ASSUME NEW q \in Own(k), q # p
            PROVE  FileOK(tx'[k], at', q)
        <5>1. FileOK(tx[k], at, q)
          BY <3>1 DEF FilesOK
        <5>2. /\ at'[q] = at[q] /\ tx'[k].saved.at[q] = tx[k].saved.at[q]
              /\ q \in tx'[k].targets => q \in tx[k].targets
              /\ Has(tx'[k].journal, "Restore", q) <=> Has(tx[k].journal, "Restore", q)
              /\ Has(tx'[k].journal, "Remove", q) <=> Has(tx[k].journal, "Remove", q)
              /\ Has(tx'[k].journal, "RemoveDir", Dir[q]) <=> Has(tx[k].journal, "RemoveDir", Dir[q])
          BY <1>4, <2>3, <2>4, <2>6, <2>8, <4>2
        <5> QED BY <1>1, <2>4, <2>7, <5>1, <5>2 DEF FileOK
      <4> QED BY <4>1, <4>2 DEF FilesOK
    <3>5. RoomsOK(tx'[k], rooms[k], recorded[k])
      <4>1. SameOf("RestoreVersion", tx[k].journal, tx'[k].journal)
        BY <2>8 DEF SameOf
      <4> QED BY <1>1, <2>4, <2>7, <3>1, <4>1, RoomsKeep
    <3>6. ReceiptsOK(tx'[k], receipts[k])
      <4>1. SameOf("RestoreReceipt", tx[k].journal, tx'[k].journal)
        BY <2>8 DEF SameOf
      <4> QED BY <1>1, <1>3, <2>4, <2>7, <3>1, <4>1, ReceiptsKeep
    <3>7. DeployOK(k, tx'[k], at', receipts[k])
      BY <1>1, <1>4, <2>3, <2>4, <2>7, <3>1 DEF DeployOK, Old
    <3> QED BY <1>8, <3>3, <3>4, <3>5, <3>6, <3>7
  <2>11. \A q \in Paths : at'[q] = User => NoClaim(k, tx'[k], rooms'[k], q)
    <3> SUFFICES ASSUME NEW q \in Paths, at'[q] = User
                 PROVE  NoClaim(k, tx'[k], rooms[k], q)
      BY <1>8
    <3>1. q # p /\ NoClaim(k, tx[k], rooms[k], q)
      BY <1>2, <2>3, FileAssumption
    <3>2. NoMore(tx[k].journal, tx'[k].journal, q)
      BY <2>8, <3>1 DEF NoMore
    <3> QED BY <1>2, <2>4, <2>7, <3>1, <3>2, ClaimNoMore
  <2> QED BY <2>3, <2>4, <2>5, <2>7, <2>9, <2>10, <2>11, InstallFits
<1>9. ASSUME at[p] # Nothing, Fault, at' = [at EXCEPT ![p] = Torn(@)],
             tx' = [tx EXCEPT ![k].pc = "fail", ![k].saved.at[p] = at[p],
                              ![k].left = @ \cup {<<"path", p>>}],
             UNCHANGED <<dirs, rooms, recorded, receipts>>
      PROVE  CaskInv'
  <2>1. Torn(at[p]) \in Files /\ Torn(at[p]) # Nothing /\ Torn(at[p]) # User
    BY <1>4, <1>9, TornFacts
  <2>2. <<"path", p>> \in Leftovers
    BY <1>4 DEF Leftovers
  <2>3. DiskInv' /\ at'[p] = Torn(at[p]) /\ \A q \in Paths : q # p => at'[q] = at[q]
    BY <1>2, <1>4, <1>9, <2>1, Counted DEF DiskInv
  <2>4. /\ tx'[k] \in Command(k) /\ tx'[k].pc = "fail"
        /\ tx'[k].op = tx[k].op /\ tx'[k].outcome = tx[k].outcome /\ tx'[k].new = tx[k].new
        /\ tx'[k].targets = tx[k].targets /\ tx'[k].versions = tx[k].versions
        /\ tx'[k].journal = tx[k].journal
        /\ tx'[k].saved.at = [tx[k].saved.at EXCEPT ![p] = at[p]]
        /\ tx'[k].saved.rooms = tx[k].saved.rooms
        /\ tx'[k].saved.receipts = tx[k].saved.receipts
        /\ tx'[k].wrote = tx[k].wrote /\ tx'[k].left = tx[k].left \cup {<<"path", p>>}
        /\ tx'[k].before = tx[k].before /\ tx'[k].robbed = tx[k].robbed
    <3> DEFINE c == [tx[k] EXCEPT !.pc = "fail", !.left = @ \cup {<<"path", p>>}]
               s == [tx[k].saved EXCEPT !.at[p] = at[p]]
    <3>1. tx'[k] = Saved(c, s, tx[k].journal)
      BY <1>2, <1>9 DEF Command, Saved
    <3>2. /\ s \in Things(k) /\ s.at = [tx[k].saved.at EXCEPT ![p] = at[p]]
          /\ s.rooms = tx[k].saved.rooms /\ s.receipts = tx[k].saved.receipts
      BY <1>2, <1>4 DEF Command, Things
    <3>3. /\ c \in Command(k) /\ c.pc = "fail" /\ c.op = tx[k].op
          /\ c.outcome = tx[k].outcome /\ c.new = tx[k].new /\ c.targets = tx[k].targets
          /\ c.versions = tx[k].versions /\ c.wrote = tx[k].wrote
          /\ c.left = tx[k].left \cup {<<"path", p>>}
          /\ c.before = tx[k].before /\ c.robbed = tx[k].robbed
      BY <1>2, <2>2 DEF Command, Back
    <3>4. tx[k].journal \in Seq(Reverses)
      BY <1>2 DEF Command
    <3> HIDE DEF c, s
    <3> QED BY <3>1, <3>2, <3>3, <3>4, Resaved
  <2>5. OthersSame(k)
    <3>1. DOMAIN tx' = Tokens /\ \A j \in Tokens \ {k} : tx'[j] = tx[j]
      BY <1>2, <1>9
    <3>2. \A j \in Tokens \ {k} : \A q \in Own(j) : at'[q] = at[q]
      BY <1>4, <2>3, OwnApart, CaskAssumption DEF Own, OwnedBy
    <3> QED BY <1>9, <2>1, <2>3, <3>1, <3>2 DEF OthersSame
  <2>6. /\ tx[k].saved.at \in [Own(k) -> Files] /\ tx'[k].saved.at[p] = at[p]
        /\ \A q \in Own(k) : q # p => tx'[k].saved.at[q] = tx[k].saved.at[q]
    BY <1>2, <2>4 DEF Command, Things
  <2>7. /\ tx'[k].pc \in Back /\ tx'[k].pc \notin Forward \cup Removing
        /\ tx'[k].pc \notin Begun \cup Saving \cup Deploying
        /\ tx'[k].pc \notin {"promote", "put", "apply", "metadata", "stage", "idle", "backup"}
    BY <2>4 DEF Forward, Back, Begun, Saving, Deploying, Removing
  <2>8. Control(k, tx'[k]) /\ NoneSaved(k, tx'[k])
    <3>1. Control(k, tx'[k])
      BY <1>1, <1>2, <1>3, <2>4, <2>7 DEF Control
    <3>2. NoneSaved(k, tx'[k])
      BY <1>2, <1>4, <2>6 DEF NoneSaved
    <3> QED BY <3>1, <3>2
  <2>9. ASSUME ~tx'[k].robbed
        PROVE  /\ OrderOK(tx'[k]) /\ FilesOK(k, tx'[k], at')
               /\ RoomsOK(tx'[k], rooms'[k], recorded'[k]) /\ ReceiptsOK(tx'[k], receipts'[k])
               /\ DeployOK(k, tx'[k], at', receipts'[k])
    <3>1. /\ OrderOK(tx[k]) /\ FilesOK(k, tx[k], at) /\ RoomsOK(tx[k], rooms[k], recorded[k])
          /\ ReceiptsOK(tx[k], receipts[k])
      BY <1>5, <2>4, <2>9
    <3>2. at[p] = tx[k].before.at[p] /\ ~Has(tx[k].journal, "Restore", p)
      BY <1>1, <3>1 DEF FilesOK, FileOK
    <3>3. OrderOK(tx'[k])
      BY <2>4, <2>7, <3>1 DEF OrderOK
    <3>4. FilesOK(k, tx'[k], at')
      <4>1. FileOK(tx'[k], at', p)
        BY <1>9, <2>4, <2>6, <2>7, <3>2 DEF FileOK
      <4>2. ASSUME NEW q \in Own(k), q # p
            PROVE  FileOK(tx'[k], at', q)
        <5>1. FileOK(tx[k], at, q)
          BY <3>1 DEF FilesOK
        <5>2. /\ at'[q] = at[q] /\ tx'[k].saved.at[q] = tx[k].saved.at[q]
              /\ <<"path", q>> \in tx[k].left => <<"path", q>> \in tx'[k].left
          BY <1>4, <2>3, <2>4, <2>6, <4>2
        <5> QED BY <1>3, <2>4, <2>7, <5>1, <5>2 DEF FileOK
      <4> QED BY <4>1, <4>2 DEF FilesOK
    <3>5. RoomsOK(tx'[k], rooms[k], recorded[k])
      BY <2>4, <2>7, <3>1, RoomsKeep DEF SameOf
    <3>6. ReceiptsOK(tx'[k], receipts[k])
      BY <1>3, <2>4, <2>7, <3>1, ReceiptsKeep DEF SameOf
    <3>7. DeployOK(k, tx'[k], at', receipts[k])
      BY <2>7 DEF DeployOK
    <3> QED BY <1>9, <3>3, <3>4, <3>5, <3>6, <3>7
  <2>10. \A q \in Paths : at'[q] = User => NoClaim(k, tx'[k], rooms'[k], q)
    <3>1. \A q \in Paths : at'[q] = User => NoClaim(k, tx[k], rooms[k], q)
      BY <1>2, <2>1, <2>3
    <3> QED BY <1>2, <1>9, <2>4, <2>7, <3>1 DEF NoClaim
  <2> QED BY <2>3, <2>4, <2>5, <2>7, <2>8, <2>9, <2>10, InstallFits
<1> QED BY <1>6, <1>7, <1>8, <1>9 DEF BackupTarget

LEMMA BackupVersionFits ==
    ASSUME CaskInv, NEW k \in Tokens, NEW o \in Versions, BackupVersion(k, o)
    PROVE  CaskInv'
<1>1. /\ tx[k].pc = "backup" /\ tx[k].pc \in Forward /\ tx[k].pc \in Saving
      /\ tx[k].targets = {} /\ o \in tx[k].versions
  BY DEF BackupVersion, InTurn, Forward, Saving
<1>2. /\ DiskInv /\ DOMAIN tx = Tokens /\ tx[k] \in Command(k) /\ tx[k].pc # "idle"
      /\ Control(k, tx[k]) /\ NoneSaved(k, tx[k]) /\ tx[k].op = "install"
      /\ tx[k].outcome = "running"
      /\ \A q \in Paths : at[q] = User => NoClaim(k, tx[k], rooms[k], q)
  BY <1>1, Installing
<1>3. tx[k].wrote = "none" /\ tx[k].left = {}
  BY <1>1, <1>2 DEF Control
<1>4. CASE Fails(k)
  BY <1>1, <1>4, FailsFits DEF Fails
<1>5. ASSUME Fine,
             rooms' = [rooms EXCEPT ![k] = @ \ {o}],
             recorded' = [recorded EXCEPT ![k] = @ \ {o}],
             tx' = [tx EXCEPT ![k].pc = "metadata", ![k].cur = o,
                              ![k].versions = @ \ {o}, ![k].saved.rooms = @ \cup {o},
                              ![k].journal = Append(@, <<"RestoreVersion", o>>)],
             UNCHANGED <<at, dirs, receipts>>
      PROVE  CaskInv'
  <2> DEFINE e == <<"RestoreVersion", o>>
  <2>1. e \in Reverses /\ tx[k].journal \in Seq(Reverses)
    BY <1>2 DEF Reverses, Command
  <2>2. Append(tx[k].journal, e) \in Seq(Reverses)
    <3> HIDE DEF e
    <3> QED BY <2>1
  <2>3. DiskInv' /\ rooms'[k] = rooms[k] \ {o} /\ recorded'[k] = recorded[k] \ {o}
    <3>1. /\ rooms'[k] = rooms[k] \ {o} /\ recorded'[k] = recorded[k] \ {o}
          /\ rooms' \in [Tokens -> SUBSET Versions] /\ recorded' \in [Tokens -> SUBSET Versions]
          /\ \A j \in Tokens \ {k} : rooms'[j] = rooms[j] /\ recorded'[j] = recorded[j]
      BY <1>2, <1>5 DEF DiskInv
    <3>2. \A j \in Tokens : recorded'[j] \subseteq rooms'[j]
      BY <1>2, <3>1 DEF DiskInv
    <3> QED BY <1>2, <1>5, <3>1, <3>2, Counted DEF DiskInv
  <2>4. /\ tx'[k] \in Command(k) /\ tx'[k].pc = "metadata"
        /\ tx'[k].op = tx[k].op /\ tx'[k].outcome = tx[k].outcome /\ tx'[k].new = tx[k].new
        /\ tx'[k].targets = tx[k].targets /\ tx'[k].versions = tx[k].versions \ {o}
        /\ tx'[k].cur = o
        /\ tx'[k].journal = Append(tx[k].journal, e)
        /\ tx'[k].saved.at = tx[k].saved.at
        /\ tx'[k].saved.rooms = tx[k].saved.rooms \cup {o}
        /\ tx'[k].saved.receipts = tx[k].saved.receipts
        /\ tx'[k].wrote = tx[k].wrote
        /\ tx'[k].left = tx[k].left /\ tx'[k].before = tx[k].before
        /\ tx'[k].robbed = tx[k].robbed
    <3> HIDE DEF e
    <3>1. tx'[k] = [tx[k] EXCEPT !.pc = "metadata", !.cur = o,
                                 !.versions = @ \ {o}, !.saved.rooms = @ \cup {o},
                                 !.journal = Append(@, e)]
      BY <1>2, <1>5 DEF e
    <3> DEFINE c == [tx[k] EXCEPT !.pc = "metadata", !.cur = o, !.versions = @ \ {o}]
               s == [tx[k].saved EXCEPT !.rooms = @ \cup {o}]
    <3>2. /\ c \in Command(k) /\ c.pc = "metadata" /\ c.cur = o
          /\ c.versions = tx[k].versions \ {o} /\ c.saved = tx[k].saved
          /\ c.journal = tx[k].journal /\ c.op = tx[k].op /\ c.outcome = tx[k].outcome
          /\ c.new = tx[k].new /\ c.targets = tx[k].targets /\ c.wrote = tx[k].wrote
          /\ c.left = tx[k].left /\ c.before = tx[k].before /\ c.robbed = tx[k].robbed
      BY <1>2 DEF Command, Forward
    <3>3. /\ s \in Things(k) /\ s.at = tx[k].saved.at
          /\ s.rooms = tx[k].saved.rooms \cup {o} /\ s.receipts = tx[k].saved.receipts
      BY <1>2 DEF Command, Things
    <3>4. tx'[k] = Saved(c, s, Append(tx[k].journal, e))
      BY <1>2, <3>1 DEF Command, Saved
    <3> DEFINE j == Append(tx[k].journal, e)
    <3> HIDE DEF c, s, j
    <3>5. j \in Seq(Reverses) /\ tx'[k] = Saved(c, s, j)
      BY <2>2, <3>4 DEF j
    <3>6. /\ tx'[k] \in Command(k) /\ tx'[k].saved = s /\ tx'[k].journal = j
          /\ tx'[k].pc = c.pc /\ tx'[k].op = c.op /\ tx'[k].outcome = c.outcome
          /\ tx'[k].new = c.new /\ tx'[k].targets = c.targets /\ tx'[k].versions = c.versions
          /\ tx'[k].cur = c.cur
          /\ tx'[k].wrote = c.wrote /\ tx'[k].left = c.left /\ tx'[k].before = c.before
          /\ tx'[k].robbed = c.robbed
      BY <3>2, <3>3, <3>5, Resaved
    <3> QED BY <3>2, <3>3, <3>6 DEF j
  <2>5. OthersSame(k)
    BY <1>2, <1>5 DEF OthersSame, DiskInv
  <2>6. /\ tx'[k].pc \in Forward /\ tx'[k].pc \in Saving /\ tx'[k].pc \notin Begun
        /\ tx'[k].pc \notin Deploying /\ tx'[k].pc \notin Removing
        /\ tx'[k].pc \notin {"promote", "put", "apply", "backup", "stage", "idle", "fail"}
    BY <2>4 DEF Forward, Begun, Saving, Deploying, Removing
  <2>7. \A r, x : Has(tx'[k].journal, r, x) <=>
                      Has(tx[k].journal, r, x) \/ (r = "RestoreVersion" /\ x = o)
    BY <2>1, <2>4, HasAdded
  <2>8. Control(k, tx'[k]) /\ NoneSaved(k, tx'[k])
    BY <1>1, <1>2, <1>3, <2>4, <2>6 DEF Control, NoneSaved
  <2>9. ASSUME ~tx'[k].robbed
        PROVE  /\ OrderOK(tx'[k]) /\ FilesOK(k, tx'[k], at')
               /\ RoomsOK(tx'[k], rooms'[k], recorded'[k]) /\ ReceiptsOK(tx'[k], receipts'[k])
               /\ DeployOK(k, tx'[k], at', receipts'[k])
    <3>1. /\ OrderOK(tx[k]) /\ FilesOK(k, tx[k], at) /\ RoomsOK(tx[k], rooms[k], recorded[k])
          /\ ReceiptsOK(tx[k], receipts[k]) /\ DeployOK(k, tx[k], at, receipts[k])
      BY <1>1, <2>4, <2>9, Installing
    <3>2. /\ rooms[k] = tx[k].versions /\ rooms[k] \subseteq tx[k].before.rooms
          /\ ~Has(tx[k].journal, "RestoreVersion", o)
      BY <1>1, <3>1 DEF RoomsOK
    <3>3. OrderOK(tx'[k])
      <4>1. "RestoreVersion" \in Undoes
        BY DEF Undoes
      <4>2. Ordered(tx[k].journal) /\ OnlyUndoes(tx[k].journal)
        BY <1>1, <3>1 DEF OrderOK, OnlyUndoes
      <4>3. Ordered(tx'[k].journal) /\ OnlyUndoes(tx'[k].journal)
        BY <2>1, <2>4, <3>2, <4>1, <4>2, OrderedUndo
      <4> QED BY <4>3 DEF OrderOK, OnlyUndoes
    <3>4. FilesOK(k, tx'[k], at)
      <4>1. /\ SameOf("Restore", tx[k].journal, tx'[k].journal)
            /\ Removes(tx[k].journal, tx'[k].journal, at)
        BY <2>7 DEF SameOf, Removes
      <4> QED BY <1>1, <2>4, <2>6, <3>1, <4>1, FilesKeep
    <3>5. RoomsOK(tx'[k], rooms'[k], recorded'[k])
      <4>1. ASSUME NEW v \in Versions
            PROVE  /\ Has(tx'[k].journal, "RestoreVersion", v) =>
                         /\ v \in tx[k].before.rooms /\ v \in tx'[k].saved.rooms
                         /\ v \notin rooms'[k]
                   /\ v \in tx[k].before.rooms /\ v \notin rooms'[k] =>
                         /\ v \in tx'[k].saved.rooms
                         /\ \/ Has(tx'[k].journal, "RestoreVersion", v)
                            \/ <<"version", v>> \in tx'[k].left
        <5>1. /\ Has(tx'[k].journal, "RestoreVersion", v) <=>
                     Has(tx[k].journal, "RestoreVersion", v) \/ v = o
              /\ v \in tx'[k].saved.rooms <=> v \in tx[k].saved.rooms \/ v = o
              /\ v \in rooms'[k] <=> v \in rooms[k] /\ v # o
              /\ tx'[k].left = tx[k].left /\ o \in rooms[k]
          BY <1>1, <2>3, <2>4, <2>7, <3>2
        <5> QED BY <3>1, <3>2, <5>1 DEF RoomsOK
      <4>2. /\ recorded'[k] = rooms'[k] /\ rooms'[k] \subseteq tx[k].before.rooms
            /\ rooms'[k] = tx'[k].versions
        BY <2>3, <2>4, <3>1, <3>2 DEF RoomsOK
      <4> QED BY <2>4, <2>6, <4>1, <4>2 DEF RoomsOK
    <3>6. ReceiptsOK(tx'[k], receipts[k])
      <4>1. SameOf("RestoreReceipt", tx[k].journal, tx'[k].journal)
        BY <2>7 DEF SameOf
      <4> QED BY <1>1, <1>3, <2>4, <2>6, <3>1, <4>1, ReceiptsKeep
    <3>7. DeployOK(k, tx'[k], at, receipts[k])
      BY <1>1, <2>4, <2>6, <3>1 DEF DeployOK, Old
    <3> QED BY <1>5, <3>3, <3>4, <3>5, <3>6, <3>7
  <2>10. \A p \in Paths : at'[p] = User => NoClaim(k, tx'[k], rooms'[k], p)
    <3> SUFFICES ASSUME NEW p \in Paths, at[p] = User
                 PROVE  NoClaim(k, tx'[k], rooms'[k], p)
      BY <1>5
    <3>1. NoClaim(k, tx[k], rooms[k], p)
      BY <1>2
    <3>2. p \notin Planned(k, o)
      BY <1>1, <1>2, <3>1 DEF NoClaim
    <3>3. /\ \A x : Has(tx'[k].journal, "Remove", x) => Has(tx[k].journal, "Remove", x)
          /\ \A x : Has(tx'[k].journal, "RemoveDir", x) => Has(tx[k].journal, "RemoveDir", x)
          /\ \A x : Has(tx'[k].journal, "Restore", x) => Has(tx[k].journal, "Restore", x)
          /\ \A x : Has(tx'[k].journal, "RestoreVersion", x) =>
                       Has(tx[k].journal, "RestoreVersion", x) \/ x = o
      BY <2>7
    <3> QED BY <1>2, <2>3, <2>4, <2>6, <3>1, <3>2, <3>3 DEF NoClaim
  <2> QED BY <2>3, <2>4, <2>5, <2>6, <2>8, <2>9, <2>10, InstallFits
<1> QED BY <1>4, <1>5 DEF BackupVersion

LEMMA WriteRecordFits ==
    ASSUME CaskInv, NEW k \in Tokens, WriteRecord(k)
    PROVE  CaskInv'
<1>1. /\ tx[k].pc = "backup" /\ tx[k].pc \in Forward /\ tx[k].pc \in Saving
      /\ tx[k].targets = {} /\ tx[k].versions = {}
  BY DEF WriteRecord, Forward, Saving
<1>2. /\ DiskInv /\ DOMAIN tx = Tokens /\ tx[k] \in Command(k) /\ tx[k].pc # "idle"
      /\ Control(k, tx[k]) /\ NoneSaved(k, tx[k]) /\ tx[k].op = "install"
      /\ tx[k].outcome = "running"
      /\ \A q \in Paths : at[q] = User => NoClaim(k, tx[k], rooms[k], q)
  BY <1>1, Installing
<1>3. tx[k].wrote = "none" /\ tx[k].left = {} /\ tx[k].new \in Versions
  BY <1>1, <1>2 DEF Control, Command
<1>4. CASE Fails(k)
  BY <1>1, <1>4, FailsFits DEF Fails
<1>5. ASSUME Fine, UNCHANGED disk,
             tx' = [tx EXCEPT ![k].pc = "apply", ![k].rest = Plan(k, tx[k].new)]
      PROVE  CaskInv'
  <2>1. /\ DiskInv' /\ at' = at /\ dirs' = dirs /\ rooms' = rooms /\ recorded' = recorded
        /\ receipts' = receipts
    BY <1>5, DiskSame
  <2>2. /\ Plan(k, tx[k].new) \in Seq(Range(Plan(k, tx[k].new)))
        /\ Range(Plan(k, tx[k].new)) \subseteq Actions(k)
    BY <1>3, PlanFacts
  <2>3. Plan(k, tx[k].new) \in Seq(Actions(k))
    BY <2>2
  <2>4. /\ OthersSame(k) /\ tx'[k] \in Command(k) /\ tx'[k].pc = "apply"
        /\ tx'[k].op = tx[k].op /\ tx'[k].outcome = tx[k].outcome /\ tx'[k].new = tx[k].new
        /\ tx'[k].targets = tx[k].targets /\ tx'[k].versions = tx[k].versions
        /\ tx'[k].journal = tx[k].journal /\ tx'[k].rest = Plan(k, tx[k].new)
        /\ tx'[k].saved = tx[k].saved /\ tx'[k].wrote = tx[k].wrote
        /\ tx'[k].left = tx[k].left /\ tx'[k].before = tx[k].before
        /\ tx'[k].robbed = tx[k].robbed
    BY <1>2, <1>5, <2>1, <2>3 DEF OthersSame, Command, Forward
  <2>5. /\ tx'[k].pc \in Forward /\ tx'[k].pc \in Deploying /\ tx'[k].pc \notin Begun
        /\ tx'[k].pc \notin Saving /\ tx'[k].pc \notin Removing
        /\ tx'[k].pc \notin {"promote", "put", "backup", "metadata", "stage", "idle", "fail"}
    BY <2>4 DEF Forward, Begun, Saving, Deploying, Removing
  <2>6. Control(k, tx'[k]) /\ NoneSaved(k, tx'[k])
    <3>1. Control(k, tx'[k])
      BY <1>1, <1>2, <1>3, <2>2, <2>4, <2>5 DEF Control
    <3>2. NoneSaved(k, tx'[k])
      BY <1>2, <2>4 DEF NoneSaved
    <3> QED BY <3>1, <3>2
  <2>7. \A p \in Planned(k, tx[k].new) : Pending(tx'[k].rest, p)
    BY <1>3, <2>4, PlanFacts DEF Pending
  <2>8. Grows(tx[k].journal, tx'[k].journal, at)
    BY <2>4, GrowsSame
  <2>9. ASSUME ~tx'[k].robbed
        PROVE  /\ OrderOK(tx'[k]) /\ FilesOK(k, tx'[k], at')
               /\ RoomsOK(tx'[k], rooms'[k], recorded'[k]) /\ ReceiptsOK(tx'[k], receipts'[k])
               /\ DeployOK(k, tx'[k], at', receipts'[k])
    <3>1. /\ OrderOK(tx[k]) /\ FilesOK(k, tx[k], at) /\ RoomsOK(tx[k], rooms[k], recorded[k])
          /\ ReceiptsOK(tx[k], receipts[k]) /\ DeployOK(k, tx[k], at, receipts[k])
      BY <1>1, <2>4, <2>9, Installing
    <3>2. OrderOK(tx'[k])
      BY <2>4, <2>5, <3>1 DEF OrderOK
    <3>3. FilesOK(k, tx'[k], at)
      BY <2>4, <2>5, <2>8, <3>1, GrowsSame, FilesKeep
    <3>4. RoomsOK(tx'[k], rooms[k], recorded[k])
      BY <1>1, <2>4, <2>5, <3>1 DEF RoomsOK
    <3>5. ReceiptsOK(tx'[k], receipts[k])
      BY <1>1, <1>3, <2>4, <2>5, <2>8, <3>1, GrowsSame, ReceiptsKeep
    <3>6. DeployOK(k, tx'[k], at, receipts[k])
      BY <1>1, <2>4, <2>5, <2>7, <3>1 DEF DeployOK, Old
    <3> QED BY <2>1, <3>2, <3>3, <3>4, <3>5, <3>6
  <2>10. \A p \in Paths : at'[p] = User => NoClaim(k, tx'[k], rooms'[k], p)
    BY <1>2, <2>1, <2>4, <2>5, <2>7 DEF NoClaim
  <2> QED BY <2>1, <2>4, <2>5, <2>6, <2>9, <2>10, InstallFits
<1> QED BY <1>4, <1>5 DEF WriteRecord

\* What is still to deploy when the first action is done.
LEMMA PendingTail ==
    ASSUME NEW S, NEW s \in Seq(S), s # <<>>
    PROVE  /\ Tail(s) \in Seq(S) /\ Head(s) \in S
           /\ \A p : Pending(s, p) => \/ Pending(Tail(s), p)
                                      \/ Head(s).kind # "pkg" /\ Head(s).target = p
<1> DEFINE r == Tail(s)
<1>1. /\ r \in Seq(S) /\ Head(s) \in S /\ Head(s) = s[1]
      /\ Len(s) \in Nat \ {0} /\ Len(r) = Len(s) - 1
      /\ \A i \in 1 .. Len(r) : r[i] = s[i + 1]
  OBVIOUS
<1> HIDE DEF r
<1>2. \A i \in 1 .. Len(s) : i = 1 \/ (i - 1 \in 1 .. Len(r) /\ (i - 1) + 1 = i)
  BY <1>1
<1>3. ASSUME NEW p, Pending(s, p)
      PROVE  Pending(r, p) \/ (Head(s).kind # "pkg" /\ Head(s).target = p)
  <2>1. PICK i \in 1 .. Len(s) : s[i].kind # "pkg" /\ s[i].target = p
    BY <1>3 DEF Pending
  <2>2. CASE i = 1
    BY <1>1, <2>1, <2>2
  <2>3. CASE i - 1 \in 1 .. Len(r) /\ (i - 1) + 1 = i
    <3>1. r[i - 1] = s[i]
      BY <1>1, <2>3
    <3> QED BY <2>1, <2>3, <3>1 DEF Pending
  <2> QED BY <1>2, <2>2, <2>3
<1> QED BY <1>1, <1>3 DEF r

LEMMA RunInstallerFits ==
    ASSUME CaskInv, NEW k \in Tokens, RunInstaller(k)
    PROVE  CaskInv'
<1>1. /\ tx[k].pc = "apply" /\ tx[k].pc \in Forward /\ tx[k].pc \in Deploying
      /\ tx[k].rest # <<>> /\ Head(tx[k].rest).kind = "pkg" /\ UNCHANGED disk
      /\ Fault \/ Fine
  BY DEF RunInstaller, Forward, Deploying
<1>2. /\ DiskInv /\ DOMAIN tx = Tokens /\ tx[k] \in Command(k) /\ tx[k].pc # "idle"
      /\ Control(k, tx[k]) /\ NoneSaved(k, tx[k]) /\ tx[k].op = "install"
      /\ tx[k].outcome = "running"
      /\ \A q \in Paths : at[q] = User => NoClaim(k, tx[k], rooms[k], q)
  BY <1>1, Installing
<1>3. tx[k].wrote = "none" /\ tx[k].left = {} /\ tx[k].rest \in Seq(Range(Plan(k, tx[k].new)))
  BY <1>1, <1>2 DEF Control
<1>4. /\ DiskInv' /\ at' = at /\ dirs' = dirs /\ rooms' = rooms /\ recorded' = recorded
      /\ receipts' = receipts
  BY <1>1, DiskSame
<1> DEFINE e == <<"Irreversible", "pkg">>
<1>5. /\ e \in Reverses /\ tx[k].journal \in Seq(Reverses) /\ e[1] \notin Undoes
      /\ tx[k].rest \in Seq(Actions(k))
  BY <1>2 DEF Reverses, Command, Undoes
<1>6. /\ Append(tx[k].journal, e) \in Seq(Reverses) /\ Tail(tx[k].rest) \in Seq(Actions(k))
      /\ Ordered(tx[k].journal) => Ordered(Append(tx[k].journal, e))
  <2> HIDE DEF e
  <2> QED BY <1>1, <1>5, OrderedForward
<1>7. \A r, x : Has(Append(tx[k].journal, e), r, x) <=>
                    Has(tx[k].journal, r, x) \/ (r = "Irreversible" /\ x = "pkg")
  BY <1>5, HasAdded
<1> HIDE DEF e
<1>8. ASSUME NEW pc \in {"apply", "fail"},
             tx' = [tx EXCEPT ![k].pc = pc, ![k].rest = Tail(@), ![k].journal = Append(@, e)]
      PROVE  CaskInv'
  <2>1. /\ OthersSame(k) /\ tx'[k] \in Command(k) /\ tx'[k].pc = pc
        /\ tx'[k].op = tx[k].op /\ tx'[k].outcome = tx[k].outcome /\ tx'[k].new = tx[k].new
        /\ tx'[k].targets = tx[k].targets /\ tx'[k].versions = tx[k].versions
        /\ tx'[k].journal = Append(tx[k].journal, e) /\ tx'[k].rest = Tail(tx[k].rest)
        /\ tx'[k].saved = tx[k].saved /\ tx'[k].wrote = tx[k].wrote
        /\ tx'[k].left = tx[k].left /\ tx'[k].before = tx[k].before
        /\ tx'[k].robbed = tx[k].robbed
    BY <1>2, <1>4, <1>6, <1>8 DEF OthersSame, Command, Forward, Back
  <2>2. Grows(tx[k].journal, tx'[k].journal, at)
    BY <1>7, <2>1 DEF Grows, SameOf, Removes, Undoes
  <2>3. CASE pc = "fail"
    BY <1>1, <1>4, <1>6, <2>1, <2>2, <2>3, Failing
  <2>4. CASE pc = "apply"
    <3>1. /\ tx'[k].pc \in Forward /\ tx'[k].pc \in Deploying /\ tx'[k].pc \notin Begun
          /\ tx'[k].pc \notin Saving /\ tx'[k].pc \notin Removing
          /\ tx'[k].pc \notin {"promote", "put", "backup", "metadata", "stage", "idle", "fail"}
      BY <2>1, <2>4 DEF Forward, Begun, Saving, Deploying, Removing
    <3>2. /\ tx'[k].rest \in Seq(Range(Plan(k, tx[k].new)))
          /\ \A p : Pending(tx[k].rest, p) => Pending(tx'[k].rest, p)
      <4> DEFINE S == Range(Plan(k, tx[k].new))
      <4>1. tx[k].rest \in Seq(S)
        BY <1>3
      <4> HIDE DEF S
      <4>2. /\ tx'[k].rest \in Seq(S)
            /\ \A p : Pending(tx[k].rest, p) =>
                  \/ Pending(tx'[k].rest, p)
                  \/ Head(tx[k].rest).kind # "pkg" /\ Head(tx[k].rest).target = p
        BY <1>1, <2>1, <4>1, PendingTail
      <4> QED BY <1>1, <4>2 DEF S
    <3>3. Control(k, tx'[k]) /\ NoneSaved(k, tx'[k])
      <4>1. Control(k, tx'[k])
        BY <1>2, <1>3, <2>1, <2>4, <3>1, <3>2 DEF Control
      <4>2. NoneSaved(k, tx'[k])
        BY <1>2, <2>1 DEF NoneSaved
      <4> QED BY <4>1, <4>2
    <3>4. ASSUME ~tx'[k].robbed
          PROVE  /\ OrderOK(tx'[k]) /\ FilesOK(k, tx'[k], at')
                 /\ RoomsOK(tx'[k], rooms'[k], recorded'[k]) /\ ReceiptsOK(tx'[k], receipts'[k])
                 /\ DeployOK(k, tx'[k], at', receipts'[k])
      <4>1. /\ OrderOK(tx[k]) /\ FilesOK(k, tx[k], at) /\ RoomsOK(tx[k], rooms[k], recorded[k])
            /\ ReceiptsOK(tx[k], receipts[k]) /\ DeployOK(k, tx[k], at, receipts[k])
        BY <1>1, <2>1, <3>4, Installing
      <4>2. OrderOK(tx'[k])
        BY <1>6, <2>1, <3>1, <4>1 DEF OrderOK
      <4>3. FilesOK(k, tx'[k], at)
        BY <2>1, <2>2, <3>1, <4>1, GrowsSame, FilesKeep
      <4>4. RoomsOK(tx'[k], rooms[k], recorded[k])
        BY <1>1, <2>1, <2>2, <3>1, <4>1, GrowsSame, RoomsKeep
      <4>5. ReceiptsOK(tx'[k], receipts[k])
        <5>1. SameOf("RestoreReceipt", tx[k].journal, tx'[k].journal)
          BY <2>2, GrowsSame
        <5> QED BY <1>3, <2>1, <3>1, <4>1, <5>1, ReceiptsKeep
      <4>6. DeployOK(k, tx'[k], at, receipts[k])
        BY <1>1, <2>1, <3>1, <3>2, <4>1 DEF DeployOK, Old
      <4> QED BY <1>4, <4>2, <4>3, <4>4, <4>5, <4>6
    <3>5. \A p \in Paths : at'[p] = User => NoClaim(k, tx'[k], rooms'[k], p)
      BY <1>1, <1>2, <1>4, <1>7, <2>1, <3>1, <3>2 DEF NoClaim
    <3> QED BY <1>4, <2>1, <3>1, <3>3, <3>4, <3>5, InstallFits
  <2> QED BY <2>3, <2>4
<1> QED BY <1>8 DEF RunInstaller, e

LEMMA PrepareFits ==
    ASSUME CaskInv, NEW k \in Tokens, Prepare(k)
    PROVE  CaskInv'
<1> DEFINE p == Head(tx[k].rest).target
<1>1. /\ tx[k].pc = "apply" /\ tx[k].pc \in Forward /\ tx[k].pc \in Deploying
      /\ tx[k].rest # <<>> /\ Head(tx[k].rest).kind # "pkg"
  BY DEF Prepare, Forward, Deploying
<1>2. /\ DiskInv /\ DOMAIN tx = Tokens /\ tx[k] \in Command(k) /\ tx[k].pc # "idle"
      /\ Control(k, tx[k]) /\ NoneSaved(k, tx[k]) /\ tx[k].op = "install"
      /\ tx[k].outcome = "running" /\ tx[k].new \in Versions /\ tx[k].journal \in Seq(Reverses)
      /\ \A q \in Paths : at[q] = User => NoClaim(k, tx[k], rooms[k], q)
  BY <1>1, Installing DEF Command
<1>3. tx[k].wrote = "none" /\ tx[k].left = {} /\ tx[k].rest \in Seq(Range(Plan(k, tx[k].new)))
  BY <1>1, <1>2 DEF Control
<1>4. p \in Planned(k, tx[k].new) /\ p \in Own(k) /\ p \in Paths /\ Dir[p] \in Dirs
  <2>1. Head(tx[k].rest) \in Range(Plan(k, tx[k].new))
    BY <1>1, <1>3
  <2> QED BY <1>1, <1>2, <2>1, PlanFacts, CaskAssumption
<1> HIDE DEF p
<1>5. \A q \in Paths : at[q] # Nothing => Dir[q] \in dirs
  BY <1>2 DEF DiskInv
<1>6. ASSUME GoTo(k, "fail"), UNCHANGED disk, Fault \/ Fine
      PROVE  CaskInv'
  BY <1>1, <1>6, FailsFits
<1>7. ASSUME at[p] = Nothing, Fine, dirs' = dirs \cup {Dir[p]},
             tx' = [tx EXCEPT ![k].pc = "put", ![k].journal = @ \o ForTarget(p)],
             UNCHANGED <<at, rooms, recorded, receipts>>
      PROVE  CaskInv'
  <2>1. /\ tx[k].journal \o ForTarget(p) \in Seq(Reverses)
        /\ \A r, x : Has(tx[k].journal \o ForTarget(p), r, x) <=>
              \/ Has(tx[k].journal, r, x)
              \/ r = "Remove" /\ x = p
              \/ Dir[p] \notin dirs /\ r = "RemoveDir" /\ x = Dir[p]
    BY <1>2, <1>4, HasForTarget
  <2>2. Ordered(tx[k].journal) => Ordered(tx[k].journal \o ForTarget(p))
    BY <1>2, <1>4, OrderedForTarget
  <2>3. DiskInv'
    BY <1>2, <1>4, <1>7, Counted DEF DiskInv
  <2>4. /\ OthersSame(k) /\ tx'[k] \in Command(k) /\ tx'[k].pc = "put"
        /\ tx'[k].op = tx[k].op /\ tx'[k].outcome = tx[k].outcome /\ tx'[k].new = tx[k].new
        /\ tx'[k].targets = tx[k].targets /\ tx'[k].versions = tx[k].versions
        /\ tx'[k].journal = tx[k].journal \o ForTarget(p) /\ tx'[k].rest = tx[k].rest
        /\ tx'[k].saved = tx[k].saved /\ tx'[k].wrote = tx[k].wrote
        /\ tx'[k].left = tx[k].left /\ tx'[k].before = tx[k].before
        /\ tx'[k].robbed = tx[k].robbed
    BY <1>2, <1>7, <2>1 DEF OthersSame, Command, Forward
  <2>5. Grows(tx[k].journal, tx'[k].journal, at)
    <3>1. \A r \in Undoes : SameOf(r, tx[k].journal, tx'[k].journal)
      BY <2>1, <2>4 DEF SameOf, Undoes
    <3>2. Removes(tx[k].journal, tx'[k].journal, at)
      <4> SUFFICES ASSUME NEW q \in Paths
                   PROVE  /\ Has(tx[k].journal, "Remove", q) => Has(tx'[k].journal, "Remove", q)
                          /\ Has(tx'[k].journal, "Remove", q) => Has(tx[k].journal, "Remove", q) \/ q = p
                          /\ Has(tx'[k].journal, "RemoveDir", Dir[q]) =>
                                Has(tx[k].journal, "RemoveDir", Dir[q]) \/ Dir[q] \notin dirs
        BY <1>5, <1>7 DEF Removes
      <4> QED BY <2>1, <2>4
    <3> QED BY <3>1, <3>2 DEF Grows
  <2>6. /\ tx'[k].pc \in Forward /\ tx'[k].pc \in Deploying /\ tx'[k].pc \notin Begun
        /\ tx'[k].pc \notin Saving /\ tx'[k].pc \notin Removing
        /\ tx'[k].pc \notin {"promote", "apply", "backup", "metadata", "stage", "idle", "fail"}
    BY <2>4 DEF Forward, Begun, Saving, Deploying, Removing
  <2>7. Control(k, tx'[k]) /\ NoneSaved(k, tx'[k])
    <3>1. Has(tx'[k].journal, "Remove", Head(tx'[k].rest).target)
      BY <2>1, <2>4 DEF p
    <3>2. Control(k, tx'[k])
      BY <1>1, <1>2, <1>3, <2>4, <2>6, <3>1 DEF Control
    <3>3. NoneSaved(k, tx'[k])
      BY <1>2, <2>4 DEF NoneSaved
    <3> QED BY <3>2, <3>3
  <2>8. ASSUME ~tx'[k].robbed
        PROVE  /\ OrderOK(tx'[k]) /\ FilesOK(k, tx'[k], at')
               /\ RoomsOK(tx'[k], rooms'[k], recorded'[k]) /\ ReceiptsOK(tx'[k], receipts'[k])
               /\ DeployOK(k, tx'[k], at', receipts'[k])
    <3>1. /\ OrderOK(tx[k]) /\ FilesOK(k, tx[k], at) /\ RoomsOK(tx[k], rooms[k], recorded[k])
          /\ ReceiptsOK(tx[k], receipts[k]) /\ DeployOK(k, tx[k], at, receipts[k])
      BY <1>1, <2>4, <2>8, Installing
    <3>2. OrderOK(tx'[k])
      BY <2>2, <2>4, <2>6, <3>1 DEF OrderOK
    <3>3. FilesOK(k, tx'[k], at)
      BY <2>4, <2>5, <2>6, <3>1, GrowsSame, FilesKeep
    <3>4. RoomsOK(tx'[k], rooms[k], recorded[k])
      <4>1. SameOf("RestoreVersion", tx[k].journal, tx'[k].journal)
        BY <2>5, GrowsSame
      <4> QED BY <1>1, <2>4, <2>6, <3>1, <4>1, RoomsKeep
    <3>5. ReceiptsOK(tx'[k], receipts[k])
      <4>1. SameOf("RestoreReceipt", tx[k].journal, tx'[k].journal)
        BY <2>5, GrowsSame
      <4> QED BY <1>1, <1>3, <2>4, <2>6, <3>1, <4>1, ReceiptsKeep
    <3>6. DeployOK(k, tx'[k], at, receipts[k])
      BY <1>1, <2>4, <2>6, <3>1 DEF DeployOK, Old
    <3> QED BY <1>7, <3>2, <3>3, <3>4, <3>5, <3>6
  <2>9. \A q \in Paths : at'[q] = User => NoClaim(k, tx'[k], rooms'[k], q)
    <3> SUFFICES ASSUME NEW q \in Paths, at[q] = User
                 PROVE  NoClaim(k, tx'[k], rooms[k], q)
      BY <1>7
    <3>1. at[q] # Nothing /\ NoClaim(k, tx[k], rooms[k], q)
      BY <1>2, FileAssumption
    <3> QED BY <1>1, <1>2, <2>4, <2>5, <3>1, ClaimKeep
  <2> QED BY <2>3, <2>4, <2>6, <2>7, <2>8, <2>9, InstallFits
<1>8. ASSUME at[p] = Nothing, Dir[p] \notin dirs, Fault,
             dirs' \in {dirs, dirs \cup {Dir[p]}},
             tx' = [tx EXCEPT ![k].pc = "fail",
                              ![k].journal = Append(@, <<"RemoveDir", Dir[p]>>)],
             UNCHANGED <<at, rooms, recorded, receipts>>
      PROVE  CaskInv'
  <2> DEFINE e == <<"RemoveDir", Dir[p]>>
  <2>1. e \in Reverses /\ e[1] \notin Undoes
    BY <1>4 DEF Reverses, Undoes
  <2>2. \A r, x : Has(Append(tx[k].journal, e), r, x) <=>
                      Has(tx[k].journal, r, x) \/ (r = "RemoveDir" /\ x = Dir[p])
    BY <1>2, <2>1, HasAdded
  <2> HIDE DEF e
  <2>3. /\ Append(tx[k].journal, e) \in Seq(Reverses)
        /\ Ordered(tx[k].journal) => Ordered(Append(tx[k].journal, e))
    BY <1>2, <2>1, OrderedForward
  <2>4. DiskInv'
    BY <1>2, <1>4, <1>8, Counted DEF DiskInv
  <2>5. tx' = [tx EXCEPT ![k].pc = "fail", ![k].journal = Append(@, e)]
    BY <1>8 DEF e
  <2>6. /\ OthersSame(k) /\ tx'[k] \in Command(k) /\ tx'[k].pc = "fail"
        /\ tx'[k].op = tx[k].op /\ tx'[k].outcome = tx[k].outcome /\ tx'[k].new = tx[k].new
        /\ tx'[k].targets = tx[k].targets /\ tx'[k].versions = tx[k].versions
        /\ tx'[k].journal = Append(tx[k].journal, e)
        /\ tx'[k].saved = tx[k].saved /\ tx'[k].wrote = tx[k].wrote
        /\ tx'[k].left = tx[k].left /\ tx'[k].before = tx[k].before
        /\ tx'[k].robbed = tx[k].robbed
    BY <1>2, <1>8, <2>3, <2>5 DEF OthersSame, Command, Back
  <2>7. Grows(tx[k].journal, tx'[k].journal, at)
    <3>1. \A r \in Undoes : SameOf(r, tx[k].journal, tx'[k].journal)
      BY <2>2, <2>6 DEF SameOf, Undoes
    <3>2. Removes(tx[k].journal, tx'[k].journal, at)
      <4>1. /\ \A x : Has(tx'[k].journal, "Remove", x) <=> Has(tx[k].journal, "Remove", x)
            /\ \A x : Has(tx'[k].journal, "RemoveDir", x) =>
                         Has(tx[k].journal, "RemoveDir", x) \/ x = Dir[p]
        BY <2>2, <2>6
      <4> QED BY <1>5, <1>8, <4>1 DEF Removes
    <3> QED BY <3>1, <3>2 DEF Grows
  <2> QED BY <1>1, <1>8, <2>3, <2>4, <2>6, <2>7, Failing
<1> QED BY <1>6, <1>7, <1>8 DEF Prepare, p, Fails

LEMMA PutFits ==
    ASSUME CaskInv, NEW k \in Tokens, Put(k)
    PROVE  CaskInv'
<1> DEFINE p == Head(tx[k].rest).target
<1>1. tx[k].pc = "put" /\ tx[k].pc \in Forward /\ tx[k].pc \in Deploying /\ (Fault \/ Fine)
  BY DEF Put, Forward, Deploying
<1>2. /\ DiskInv /\ DOMAIN tx = Tokens /\ tx[k] \in Command(k) /\ tx[k].pc # "idle"
      /\ Control(k, tx[k]) /\ NoneSaved(k, tx[k]) /\ tx[k].op = "install"
      /\ tx[k].outcome = "running" /\ tx[k].new \in Versions
      /\ \A q \in Paths : at[q] = User => NoClaim(k, tx[k], rooms[k], q)
  BY <1>1, Installing DEF Command
<1>3. /\ tx[k].wrote = "none" /\ tx[k].left = {}
      /\ tx[k].rest \in Seq(Range(Plan(k, tx[k].new))) /\ tx[k].rest # <<>>
      /\ Head(tx[k].rest).kind # "pkg" /\ Has(tx[k].journal, "Remove", p)
  BY <1>1, <1>2 DEF Control
<1>4. p \in Planned(k, tx[k].new) /\ p \in Own(k) /\ p \in Paths /\ Dir[p] \in Dirs
  <2>1. Head(tx[k].rest) \in Range(Plan(k, tx[k].new))
    BY <1>3
  <2> QED BY <1>2, <1>3, <2>1, PlanFacts, CaskAssumption
<1>5. at[p] # User
  BY <1>2, <1>3, <1>4 DEF NoClaim
<1>6. ~tx[k].robbed => /\ OrderOK(tx[k]) /\ FilesOK(k, tx[k], at)
                       /\ RoomsOK(tx[k], rooms[k], recorded[k]) /\ ReceiptsOK(tx[k], receipts[k])
                       /\ DeployOK(k, tx[k], at, receipts[k])
  BY <1>1, Installing
<1> HIDE DEF p
\* What a file at p changes.
<1>7. ASSUME NEW w \in BOOLEAN, at' = [at EXCEPT ![p] = File(k, tx[k].new, w)],
             dirs' = dirs \cup {Dir[p]}, UNCHANGED <<rooms, recorded, receipts>>
      PROVE  /\ DiskInv' /\ at'[p] = File(k, tx[k].new, w) /\ at'[p] # User
             /\ \A q \in Paths : q # p => at'[q] = at[q]
             /\ \A j \in Tokens \ {k} : \A q \in Own(j) : at'[q] = at[q]
             /\ \A q \in Paths : at'[q] = User => q # p /\ at[q] = User
             /\ /\ tx'[k].before = tx[k].before /\ tx'[k].saved = tx[k].saved
                /\ tx'[k].journal = tx[k].journal /\ tx'[k].left = tx[k].left
                /\ tx'[k].pc \notin Begun /\ tx'[k].pc # "backup" /\ ~tx[k].robbed
                => FilesOK(k, tx'[k], at')
  <2>1. File(k, tx[k].new, w) \in Files /\ File(k, tx[k].new, w) # User
    BY <1>2, FileIn
  <2>2. /\ at'[p] = File(k, tx[k].new, w) /\ at' \in [Paths -> Files]
        /\ \A q \in Paths : q # p => at'[q] = at[q]
    BY <1>2, <1>4, <1>7, <2>1 DEF DiskInv
  <2>3. DiskInv'
    <3>1. \A q \in Paths : at'[q] # Nothing => Dir[q] \in dirs'
      BY <1>2, <1>7, <2>2 DEF DiskInv
    <3> QED BY <1>1, <1>2, <1>4, <1>7, <2>2, <3>1, Counted DEF DiskInv
  <2>4. \A j \in Tokens \ {k} : \A q \in Own(j) : at'[q] = at[q]
    BY <1>4, <2>2, OwnApart, CaskAssumption DEF Own, OwnedBy
  <2>5. ASSUME tx'[k].before = tx[k].before, tx'[k].saved = tx[k].saved,
               tx'[k].journal = tx[k].journal, tx'[k].left = tx[k].left,
               tx'[k].pc \notin Begun, tx'[k].pc # "backup", ~tx[k].robbed
        PROVE  FilesOK(k, tx'[k], at')
    <3> SUFFICES ASSUME NEW q \in Own(k)
                 PROVE  FileOK(tx'[k], at', q)
      BY DEF FilesOK
    <3>1. FileOK(tx[k], at, q)
      BY <1>6, <2>5 DEF FilesOK
    <3>2. q \in Paths
      BY CaskAssumption DEF Own, OwnedBy
    <3>3. CASE q = p
      BY <1>3, <2>5, <3>1, <3>3 DEF FileOK
    <3>4. CASE q # p
      BY <2>2, <2>5, <3>1, <3>2, <3>4 DEF FileOK
    <3> QED BY <3>3, <3>4
  <2> QED BY <2>1, <2>2, <2>3, <2>4, <2>5
<1>8. ASSUME GoTo(k, "fail"), UNCHANGED disk
      PROVE  CaskInv'
  BY <1>1, <1>8, FailsFits
<1>9. ASSUME at' = [at EXCEPT ![p] = File(k, tx[k].new, FALSE)], Dir[p] \in dirs, GoTo(k, "fail"),
             UNCHANGED <<dirs, rooms, recorded, receipts>>
      PROVE  CaskInv'
  <2>1. dirs' = dirs \cup {Dir[p]} /\ FALSE \in BOOLEAN
    BY <1>9
  <2>2. /\ tx'[k] \in Command(k) /\ tx'[k].pc = "fail" /\ DOMAIN tx' = Tokens
        /\ \A j \in Tokens \ {k} : tx'[j] = tx[j]
        /\ tx'[k].op = tx[k].op /\ tx'[k].outcome = tx[k].outcome /\ tx'[k].new = tx[k].new
        /\ tx'[k].targets = tx[k].targets /\ tx'[k].versions = tx[k].versions
        /\ tx'[k].journal = tx[k].journal /\ tx'[k].rest = tx[k].rest
        /\ tx'[k].saved = tx[k].saved /\ tx'[k].wrote = tx[k].wrote
        /\ tx'[k].left = tx[k].left /\ tx'[k].before = tx[k].before
        /\ tx'[k].robbed = tx[k].robbed
    BY <1>2, <1>9 DEF GoTo, Command, Back
  <2>3. /\ tx'[k].pc \in Back /\ tx'[k].pc \notin Forward \cup Removing
        /\ tx'[k].pc \notin Begun \cup Saving \cup Deploying
        /\ tx'[k].pc \notin {"promote", "put", "apply", "metadata", "stage", "idle", "backup"}
    BY <2>2 DEF Forward, Back, Begun, Saving, Deploying, Removing
  <2>4. /\ DiskInv' /\ at'[p] # User
        /\ \A j \in Tokens \ {k} : \A q \in Own(j) : at'[q] = at[q]
        /\ \A q \in Paths : at'[q] = User => q # p /\ at[q] = User
        /\ ~tx[k].robbed => FilesOK(k, tx'[k], at')
    BY <1>7, <1>9, <2>1, <2>2, <2>3
  <2>5. OthersSame(k)
    BY <1>9, <2>2, <2>4 DEF OthersSame
  <2>6. Control(k, tx'[k]) /\ NoneSaved(k, tx'[k])
    <3>1. Control(k, tx'[k])
      BY <1>2, <1>3, <2>2, <2>3 DEF Control
    <3>2. NoneSaved(k, tx'[k])
      BY <1>2, <2>2 DEF NoneSaved
    <3> QED BY <3>1, <3>2
  <2>7. ASSUME ~tx'[k].robbed
        PROVE  /\ OrderOK(tx'[k]) /\ FilesOK(k, tx'[k], at')
               /\ RoomsOK(tx'[k], rooms'[k], recorded'[k]) /\ ReceiptsOK(tx'[k], receipts'[k])
               /\ DeployOK(k, tx'[k], at', receipts'[k])
    <3>1. /\ OrderOK(tx[k]) /\ RoomsOK(tx[k], rooms[k], recorded[k])
          /\ ReceiptsOK(tx[k], receipts[k]) /\ FilesOK(k, tx'[k], at')
      BY <1>6, <2>2, <2>4, <2>7
    <3>2. OrderOK(tx'[k])
      BY <2>2, <2>3, <3>1 DEF OrderOK
    <3>3. RoomsOK(tx'[k], rooms[k], recorded[k])
      BY <2>2, <2>3, <3>1, RoomsKeep DEF SameOf
    <3>4. ReceiptsOK(tx'[k], receipts[k])
      BY <1>3, <2>2, <2>3, <3>1, ReceiptsKeep DEF SameOf
    <3>5. DeployOK(k, tx'[k], at', receipts[k])
      BY <2>3 DEF DeployOK
    <3> QED BY <1>9, <3>1, <3>2, <3>3, <3>4, <3>5
  <2>8. \A q \in Paths : at'[q] = User => NoClaim(k, tx'[k], rooms'[k], q)
    BY <1>2, <1>9, <2>2, <2>3, <2>4 DEF NoClaim
  <2> QED BY <2>2, <2>3, <2>4, <2>5, <2>6, <2>7, <2>8, InstallFits
<1>10. ASSUME at' = [at EXCEPT ![p] = File(k, tx[k].new, TRUE)], dirs' = dirs \cup {Dir[p]},
              tx' = [tx EXCEPT ![k].pc = "apply", ![k].rest = Tail(@)],
              UNCHANGED <<rooms, recorded, receipts>>
       PROVE  CaskInv'
  <2>1. TRUE \in BOOLEAN
    OBVIOUS
  <2>2. /\ Tail(tx[k].rest) \in Seq(Range(Plan(k, tx[k].new)))
        /\ Tail(tx[k].rest) \in Seq(Actions(k))
        /\ \A q : Pending(tx[k].rest, q) => Pending(Tail(tx[k].rest), q) \/ q = p
    <3> DEFINE S == Range(Plan(k, tx[k].new))
    <3>1. tx[k].rest \in Seq(S)
      BY <1>3
    <3> HIDE DEF S
    <3>2. /\ Tail(tx[k].rest) \in Seq(S)
          /\ \A q : Pending(tx[k].rest, q) =>
                \/ Pending(Tail(tx[k].rest), q)
                \/ Head(tx[k].rest).kind # "pkg" /\ Head(tx[k].rest).target = q
      BY <1>3, <3>1, PendingTail
    <3>3. tx[k].rest \in Seq(Actions(k))
      BY <1>2 DEF Command
    <3>4. Tail(tx[k].rest) \in Seq(Actions(k))
      BY <1>3, <3>3
    <3> QED BY <3>2, <3>4 DEF S, p
  <2>3. /\ tx'[k] \in Command(k) /\ tx'[k].pc = "apply" /\ DOMAIN tx' = Tokens
        /\ \A j \in Tokens \ {k} : tx'[j] = tx[j]
        /\ tx'[k].op = tx[k].op /\ tx'[k].outcome = tx[k].outcome /\ tx'[k].new = tx[k].new
        /\ tx'[k].targets = tx[k].targets /\ tx'[k].versions = tx[k].versions
        /\ tx'[k].journal = tx[k].journal /\ tx'[k].rest = Tail(tx[k].rest)
        /\ tx'[k].saved = tx[k].saved /\ tx'[k].wrote = tx[k].wrote
        /\ tx'[k].left = tx[k].left /\ tx'[k].before = tx[k].before
        /\ tx'[k].robbed = tx[k].robbed
    BY <1>2, <1>10, <2>2 DEF Command, Forward
  <2>4. /\ tx'[k].pc \in Forward /\ tx'[k].pc \in Deploying /\ tx'[k].pc \notin Begun
        /\ tx'[k].pc \notin Saving /\ tx'[k].pc \notin Removing
        /\ tx'[k].pc \notin {"promote", "put", "backup", "metadata", "stage", "idle", "fail"}
    BY <2>3 DEF Forward, Begun, Saving, Deploying, Removing
  <2>5. /\ DiskInv' /\ at'[p] = File(k, tx[k].new, TRUE)
        /\ \A q \in Paths : q # p => at'[q] = at[q]
        /\ \A j \in Tokens \ {k} : \A q \in Own(j) : at'[q] = at[q]
        /\ \A q \in Paths : at'[q] = User => q # p /\ at[q] = User
        /\ ~tx[k].robbed => FilesOK(k, tx'[k], at')
    BY <1>7, <1>10, <2>1, <2>3, <2>4
  <2>6. OthersSame(k)
    BY <1>10, <2>3, <2>5 DEF OthersSame
  <2>7. Control(k, tx'[k]) /\ NoneSaved(k, tx'[k])
    <3>1. Control(k, tx'[k])
      BY <1>2, <1>3, <2>2, <2>3, <2>4 DEF Control
    <3>2. NoneSaved(k, tx'[k])
      BY <1>2, <2>3 DEF NoneSaved
    <3> QED BY <3>1, <3>2
  <2>8. ASSUME ~tx'[k].robbed
        PROVE  /\ OrderOK(tx'[k]) /\ FilesOK(k, tx'[k], at')
               /\ RoomsOK(tx'[k], rooms'[k], recorded'[k]) /\ ReceiptsOK(tx'[k], receipts'[k])
               /\ DeployOK(k, tx'[k], at', receipts'[k])
    <3>1. /\ OrderOK(tx[k]) /\ RoomsOK(tx[k], rooms[k], recorded[k])
          /\ ReceiptsOK(tx[k], receipts[k]) /\ DeployOK(k, tx[k], at, receipts[k])
          /\ FilesOK(k, tx'[k], at')
      BY <1>6, <2>3, <2>5, <2>8
    <3>2. OrderOK(tx'[k])
      BY <2>3, <2>4, <3>1 DEF OrderOK
    <3>3. RoomsOK(tx'[k], rooms[k], recorded[k])
      BY <1>1, <2>3, <2>4, <3>1, RoomsKeep DEF SameOf
    <3>4. ReceiptsOK(tx'[k], receipts[k])
      BY <1>3, <2>3, <2>4, <3>1, ReceiptsKeep DEF SameOf
    <3>5. DeployOK(k, tx'[k], at', receipts[k])
      <4>1. /\ \A q \in Own(k) : Old(k, tx[k], q) => q \in Planned(k, tx[k].new) \/ at'[q] = Nothing
            /\ \A o \in tx[k].before.rooms : o \notin receipts[k]
        <5>1. /\ \A q \in Own(k) : Old(k, tx[k], q) => q \in Planned(k, tx[k].new) \/ at[q] = Nothing
              /\ \A o \in tx[k].before.rooms : o \notin receipts[k]
          BY <1>1, <3>1 DEF DeployOK
        <5>2. \A q \in Own(k) : q = p \/ at'[q] = at[q]
          BY <2>5, CaskAssumption DEF Own, OwnedBy
        <5> QED BY <1>4, <5>1, <5>2
      <4>2. \A q \in Planned(k, tx[k].new) : at'[q] = File(k, tx[k].new, TRUE) \/ Pending(tx'[k].rest, q)
        <5>1. \A q \in Planned(k, tx[k].new) : q \in Paths
          BY <1>2, CaskAssumption
        <5>2. \A q \in Planned(k, tx[k].new) : at[q] = File(k, tx[k].new, TRUE) \/ Pending(tx[k].rest, q)
          BY <1>1, <3>1 DEF DeployOK
        <5> QED BY <2>2, <2>3, <2>5, <5>1, <5>2
      <4> QED BY <2>3, <2>4, <4>1, <4>2 DEF DeployOK, Old
    <3> QED BY <1>10, <3>1, <3>2, <3>3, <3>4, <3>5
  <2>9. \A q \in Paths : at'[q] = User => NoClaim(k, tx'[k], rooms'[k], q)
    <3> SUFFICES ASSUME NEW q \in Paths, at'[q] = User
                 PROVE  NoClaim(k, tx'[k], rooms[k], q)
      BY <1>10
    <3>1. NoClaim(k, tx[k], rooms[k], q) /\ q # p
      BY <1>2, <2>5
    <3> QED BY <1>1, <1>2, <2>2, <2>3, <2>4, <3>1 DEF NoClaim
  <2> QED BY <2>3, <2>4, <2>5, <2>6, <2>7, <2>8, <2>9, InstallFits
<1>11. \/ GoTo(k, "fail") /\ UNCHANGED disk
       \/ /\ at' = [at EXCEPT ![p] = File(k, tx[k].new, FALSE)] /\ Dir[p] \in dirs
          /\ GoTo(k, "fail") /\ UNCHANGED <<dirs, rooms, recorded, receipts>>
       \/ /\ at' = [at EXCEPT ![p] = File(k, tx[k].new, TRUE)] /\ dirs' = dirs \cup {Dir[p]}
          /\ tx' = [tx EXCEPT ![k].pc = "apply", ![k].rest = Tail(@)]
          /\ UNCHANGED <<rooms, recorded, receipts>>
  BY DEF Put, p, disk
<1> QED BY <1>8, <1>9, <1>10, <1>11

LEMMA WriteReceiptFits ==
    ASSUME CaskInv, NEW k \in Tokens, WriteReceipt(k)
    PROVE  CaskInv'
<1> DEFINE new == tx[k].new
<1>1. /\ tx[k].pc = "apply" /\ tx[k].pc \in Forward /\ tx[k].pc \in Deploying
      /\ tx[k].rest = <<>> /\ (Fault \/ Fine) /\ UNCHANGED <<at, dirs, rooms, recorded>>
  BY DEF WriteReceipt, Forward, Deploying
<1>2. /\ DiskInv /\ DOMAIN tx = Tokens /\ tx[k] \in Command(k) /\ tx[k].pc # "idle"
      /\ Control(k, tx[k]) /\ NoneSaved(k, tx[k]) /\ tx[k].op = "install"
      /\ tx[k].outcome = "running" /\ new \in Versions
      /\ \A q \in Paths : at[q] = User => NoClaim(k, tx[k], rooms[k], q)
  BY <1>1, Installing DEF Command
<1>3. tx[k].wrote = "none" /\ tx[k].left = {} /\ tx[k].rest \in Seq(Range(Plan(k, new)))
  BY <1>1, <1>2 DEF Control
<1>4. ~tx[k].robbed => /\ OrderOK(tx[k]) /\ FilesOK(k, tx[k], at)
                       /\ RoomsOK(tx[k], rooms[k], recorded[k]) /\ ReceiptsOK(tx[k], receipts[k])
                       /\ DeployOK(k, tx[k], at, receipts[k])
  BY <1>1, Installing
<1>5. ASSUME GoTo(k, "fail"), UNCHANGED receipts
      PROVE  CaskInv'
  BY <1>1, <1>5, FailsFits DEF disk
\* The receipt is there.
<1>6. ASSUME receipts' = [receipts EXCEPT ![k] = @ \cup {new}]
      PROVE  /\ DiskInv' /\ receipts'[k] = receipts[k] \cup {new}
             /\ \A j \in Tokens \ {k} : receipts'[j] = receipts[j]
  BY <1>1, <1>2, <1>6, Counted DEF DiskInv
<1>7. ASSUME receipts' = [receipts EXCEPT ![k] = @ \cup {new}],
             tx' = [tx EXCEPT ![k].pc = "promote",
                              ![k].wrote = IF new \in receipts[k] THEN "leaf" ELSE "tree"]
      PROVE  CaskInv'
  <2>1. /\ DiskInv' /\ receipts'[k] = receipts[k] \cup {new}
        /\ \A j \in Tokens \ {k} : receipts'[j] = receipts[j]
    BY <1>6, <1>7
  <2>2. /\ OthersSame(k) /\ tx'[k] \in Command(k) /\ tx'[k].pc = "promote"
        /\ tx'[k].op = tx[k].op /\ tx'[k].outcome = tx[k].outcome /\ tx'[k].new = tx[k].new
        /\ tx'[k].targets = tx[k].targets /\ tx'[k].versions = tx[k].versions
        /\ tx'[k].journal = tx[k].journal /\ tx'[k].rest = tx[k].rest
        /\ tx'[k].saved = tx[k].saved
        /\ tx'[k].wrote = IF new \in receipts[k] THEN "leaf" ELSE "tree"
        /\ tx'[k].left = tx[k].left /\ tx'[k].before = tx[k].before
        /\ tx'[k].robbed = tx[k].robbed
    BY <1>1, <1>2, <1>7, <2>1 DEF OthersSame, Command, Forward
  <2>3. /\ tx'[k].pc \in Forward /\ tx'[k].pc \in Deploying /\ tx'[k].pc \notin Begun
        /\ tx'[k].pc \notin Saving /\ tx'[k].pc \notin Removing
        /\ tx'[k].pc \notin {"apply", "put", "backup", "metadata", "stage", "idle", "fail"}
    BY <2>2 DEF Forward, Begun, Saving, Deploying, Removing
  <2>4. Control(k, tx'[k]) /\ NoneSaved(k, tx'[k])
    <3>1. Control(k, tx'[k])
      BY <1>1, <1>2, <1>3, <2>2, <2>3 DEF Control
    <3>2. NoneSaved(k, tx'[k])
      BY <1>2, <2>2 DEF NoneSaved
    <3> QED BY <3>1, <3>2
  <2>5. ASSUME ~tx'[k].robbed
        PROVE  /\ OrderOK(tx'[k]) /\ FilesOK(k, tx'[k], at')
               /\ RoomsOK(tx'[k], rooms'[k], recorded'[k]) /\ ReceiptsOK(tx'[k], receipts'[k])
               /\ DeployOK(k, tx'[k], at', receipts'[k])
    <3>1. /\ OrderOK(tx[k]) /\ FilesOK(k, tx[k], at) /\ RoomsOK(tx[k], rooms[k], recorded[k])
          /\ ReceiptsOK(tx[k], receipts[k]) /\ DeployOK(k, tx[k], at, receipts[k])
      BY <1>4, <2>2, <2>5
    <3>2. OrderOK(tx'[k])
      BY <2>2, <2>3, <3>1 DEF OrderOK
    <3>3. FilesOK(k, tx'[k], at)
      BY <2>2, <2>3, <3>1, GrowsSame, FilesKeep
    <3>4. RoomsOK(tx'[k], rooms[k], recorded[k])
      BY <1>1, <2>2, <2>3, <3>1, RoomsKeep DEF SameOf
    <3>5. ReceiptsOK(tx'[k], receipts'[k])
      <4> SUFFICES ASSUME NEW v \in Versions
                   PROVE  ReceiptOK(tx'[k], receipts'[k], v)
        BY DEF ReceiptsOK
      <4>1. ReceiptOK(tx[k], receipts[k], v)
        BY <3>1 DEF ReceiptsOK
      <4>2. CASE v = new
        BY <1>3, <2>1, <2>2, <2>3, <4>1, <4>2 DEF ReceiptOK
      <4>3. CASE v # new
        BY <1>3, <2>1, <2>2, <2>3, <4>1, <4>3 DEF ReceiptOK
      <4> QED BY <4>2, <4>3
    <3>6. DeployOK(k, tx'[k], at, receipts'[k])
      BY <1>1, <2>1, <2>2, <2>3, <3>1 DEF DeployOK, Old
    <3> QED BY <1>1, <3>2, <3>3, <3>4, <3>5, <3>6
  <2>6. \A p \in Paths : at'[p] = User => NoClaim(k, tx'[k], rooms'[k], p)
    BY <1>1, <1>2, <2>2, <2>3 DEF NoClaim
  <2> QED BY <2>1, <2>2, <2>3, <2>4, <2>5, <2>6, InstallFits
<1>8. ASSUME receipts' = [receipts EXCEPT ![k] = @ \cup {new}],
             tx' = [tx EXCEPT ![k].pc = "fail", ![k].left = @ \cup {<<"receipt", new>>}]
      PROVE  CaskInv'
  <2>1. /\ DiskInv' /\ receipts'[k] = receipts[k] \cup {new}
        /\ \A j \in Tokens \ {k} : receipts'[j] = receipts[j]
    BY <1>6, <1>8
  <2>2. <<"receipt", new>> \in Leftovers
    BY <1>2 DEF Leftovers
  <2>3. /\ OthersSame(k) /\ tx'[k] \in Command(k) /\ tx'[k].pc = "fail"
        /\ tx'[k].op = tx[k].op /\ tx'[k].outcome = tx[k].outcome /\ tx'[k].new = tx[k].new
        /\ tx'[k].targets = tx[k].targets /\ tx'[k].versions = tx[k].versions
        /\ tx'[k].journal = tx[k].journal /\ tx'[k].rest = tx[k].rest
        /\ tx'[k].saved = tx[k].saved /\ tx'[k].wrote = tx[k].wrote
        /\ tx'[k].left = tx[k].left \cup {<<"receipt", new>>}
        /\ tx'[k].before = tx[k].before /\ tx'[k].robbed = tx[k].robbed
    BY <1>1, <1>2, <1>8, <2>1, <2>2 DEF OthersSame, Command, Back
  <2>4. /\ tx'[k].pc \in Back /\ tx'[k].pc \notin Forward \cup Removing
        /\ tx'[k].pc \notin Begun \cup Saving \cup Deploying
        /\ tx'[k].pc \notin {"promote", "put", "apply", "metadata", "stage", "idle", "backup"}
    BY <2>3 DEF Forward, Back, Begun, Saving, Deploying, Removing
  <2>5. Control(k, tx'[k]) /\ NoneSaved(k, tx'[k])
    <3>1. Control(k, tx'[k])
      BY <1>2, <1>3, <2>3, <2>4 DEF Control
    <3>2. NoneSaved(k, tx'[k])
      BY <1>2, <2>3 DEF NoneSaved
    <3> QED BY <3>1, <3>2
  <2>6. ASSUME ~tx'[k].robbed
        PROVE  /\ OrderOK(tx'[k]) /\ FilesOK(k, tx'[k], at')
               /\ RoomsOK(tx'[k], rooms'[k], recorded'[k]) /\ ReceiptsOK(tx'[k], receipts'[k])
               /\ DeployOK(k, tx'[k], at', receipts'[k])
    <3>1. /\ OrderOK(tx[k]) /\ FilesOK(k, tx[k], at) /\ RoomsOK(tx[k], rooms[k], recorded[k])
          /\ ReceiptsOK(tx[k], receipts[k])
      BY <1>4, <2>3, <2>6
    <3>2. OrderOK(tx'[k])
      BY <2>3, <2>4, <3>1 DEF OrderOK
    <3>3. FilesOK(k, tx'[k], at)
      BY <2>3, <2>4, <3>1, GrowsSame, FilesKeep
    <3>4. RoomsOK(tx'[k], rooms[k], recorded[k])
      BY <2>3, <2>4, <3>1, RoomsKeep DEF SameOf
    <3>5. ReceiptsOK(tx'[k], receipts'[k])
      <4> SUFFICES ASSUME NEW v \in Versions
                   PROVE  ReceiptOK(tx'[k], receipts'[k], v)
        BY DEF ReceiptsOK
      <4>1. ReceiptOK(tx[k], receipts[k], v)
        BY <3>1 DEF ReceiptsOK
      <4>2. CASE v = new
        BY <1>3, <2>1, <2>3, <2>4, <4>1, <4>2 DEF ReceiptOK
      <4>3. CASE v # new
        BY <1>3, <2>1, <2>3, <2>4, <4>1, <4>3 DEF ReceiptOK
      <4> QED BY <4>2, <4>3
    <3>6. DeployOK(k, tx'[k], at, receipts'[k])
      BY <2>4 DEF DeployOK
    <3> QED BY <1>1, <3>2, <3>3, <3>4, <3>5, <3>6
  <2>7. \A p \in Paths : at'[p] = User => NoClaim(k, tx'[k], rooms'[k], p)
    BY <1>1, <1>2, <2>3, <2>4 DEF NoClaim
  <2> QED BY <2>1, <2>3, <2>4, <2>5, <2>6, <2>7, InstallFits
<1> QED BY <1>5, <1>7, <1>8 DEF WriteReceipt

LEMMA PromoteFits ==
    ASSUME CaskInv, NEW k \in Tokens, Promote(k)
    PROVE  CaskInv'
<1>1. tx[k].pc = "promote" /\ tx[k].pc \in Forward /\ tx[k].pc \in Deploying
  BY DEF Promote, Forward, Deploying
<1>2. /\ DiskInv /\ DOMAIN tx = Tokens /\ tx[k] \in Command(k) /\ tx[k].pc # "idle"
      /\ Control(k, tx[k]) /\ tx[k].op = "install" /\ tx[k].new \in Versions
      /\ \A q \in Paths : at[q] = User => NoClaim(k, tx[k], rooms[k], q)
  BY <1>1, Installing DEF Command
<1>3. CASE Fails(k)
  BY <1>1, <1>3, FailsFits DEF Fails
<1>4. ASSUME Fine, rooms' = [rooms EXCEPT ![k] = @ \cup {tx[k].new}],
             recorded' = [recorded EXCEPT ![k] = @ \cup {tx[k].new}],
             Return(k, "ok"), UNCHANGED <<at, dirs, receipts>>
      PROVE  CaskInv'
  <2>1. /\ tx'[k] \in Command(k) /\ tx'[k].pc = "idle" /\ tx'[k].outcome = "ok"
        /\ tx'[k].op = tx[k].op /\ tx'[k].new = tx[k].new /\ tx'[k].left = tx[k].left
        /\ tx'[k].before = tx[k].before /\ tx'[k].robbed = tx[k].robbed
        /\ tx'[k].journal = <<>> /\ tx'[k].staged = FALSE
        /\ DOMAIN tx' = Tokens /\ \A j \in Tokens \ {k} : tx'[j] = tx[j]
    BY <1>2, <1>4, Returned
  <2>2. /\ rooms'[k] = rooms[k] \cup {tx[k].new} /\ recorded'[k] = recorded[k] \cup {tx[k].new}
        /\ \A j \in Tokens \ {k} : rooms'[j] = rooms[j] /\ recorded'[j] = recorded[j]
        /\ rooms' \in [Tokens -> SUBSET Versions] /\ recorded' \in [Tokens -> SUBSET Versions]
    BY <1>2, <1>4 DEF DiskInv
  <2>3. DiskInv'
    <3>1. \A j \in Tokens : recorded'[j] \subseteq rooms'[j]
      BY <1>2, <2>2 DEF DiskInv
    <3> QED BY <1>2, <1>4, <2>2, <3>1, Counted DEF DiskInv
  <2>4. OthersSame(k)
    BY <1>4, <2>1, <2>2 DEF OthersSame
  <2>5. \A q : ~Pending(tx[k].rest, q)
    <3>1. tx[k].rest = <<>>
      BY <1>1, <1>2 DEF Control
    <3> QED BY <3>1 DEF Pending
  <2>6. InstalledOK(k, tx'[k], at', rooms'[k], recorded'[k], receipts'[k])
    <3> SUFFICES ASSUME ~tx[k].robbed
                 PROVE  InstalledOK(k, tx'[k], at', rooms'[k], recorded'[k], receipts'[k])
      BY <2>1 DEF InstalledOK
    <3>1. RoomsOK(tx[k], rooms[k], recorded[k]) /\ DeployOK(k, tx[k], at, receipts[k])
      BY <1>1, Installing
    <3>2. rooms[k] = {} /\ recorded[k] = {}
      BY <1>1, <3>1 DEF RoomsOK
    <3>3. /\ \A p \in Own(k) : Old(k, tx[k], p) => p \in Planned(k, tx[k].new) \/ at[p] = Nothing
          /\ \A o \in tx[k].before.rooms : o \notin receipts[k] \/ o = tx[k].new
          /\ \A p \in Planned(k, tx[k].new) : at[p] = File(k, tx[k].new, TRUE)
          /\ tx[k].new \in receipts[k]
      BY <1>1, <2>5, <3>1 DEF DeployOK
    <3>4. \A o \in tx[k].before.rooms : \A p \in Planned(k, o) : p \in Own(k) /\ Old(k, tx[k], p)
      BY <1>2, PlannedIn DEF Old
    <3> QED BY <1>4, <2>1, <2>2, <3>2, <3>3, <3>4 DEF InstalledOK
  <2>7. AnswerOK(k, tx'[k], at', rooms'[k], recorded'[k], receipts'[k])
    BY <1>2, <2>1, <2>6 DEF AnswerOK, HonestOK, RemovedOK
  <2>8. \A p \in Paths : at'[p] = User => \A v \in rooms'[k] : p \notin Planned(k, v)
    BY <1>1, <1>2, <1>4, <2>2, <2>5 DEF NoClaim
  <2> QED BY <2>1, <2>3, <2>4, <2>7, <2>8, AnswerFits
<1> QED BY <1>3, <1>4 DEF Promote

-----------------------------------------------------------------------------
(* An install, rolling back. *)

LEMMA RemoveReceiptFits ==
    ASSUME CaskInv, NEW k \in Tokens, RemoveReceipt(k)
    PROVE  CaskInv'
<1> DEFINE new == tx[k].new
<1>1. /\ tx[k].pc = "fail" /\ tx[k].pc \in Back
      /\ (Fault \/ Fine) /\ UNCHANGED <<at, dirs, rooms, recorded>>
  BY DEF RemoveReceipt, Back
<1>2. /\ DiskInv /\ DOMAIN tx = Tokens /\ tx[k] \in Command(k) /\ tx[k].pc # "idle"
      /\ Control(k, tx[k]) /\ NoneSaved(k, tx[k]) /\ tx[k].op = "install"
      /\ tx[k].outcome = "running" /\ new \in Versions
      /\ \A q \in Paths : at[q] = User => NoClaim(k, tx[k], rooms[k], q)
  BY <1>1, Installing DEF Command
<1>3. <<"receipt", new>> \in Leftovers
  BY <1>2 DEF Leftovers
\* Removed, or named.
<1>4. ASSUME NEW left, left = tx[k].left \/ left = tx[k].left \cup {<<"receipt", new>>},
             receipts' = [receipts EXCEPT ![k] = IF tx[k].wrote = "tree" THEN @ \ {new} ELSE @]
                \/ (receipts' = receipts /\ <<"receipt", new>> \in left),
             tx' = [tx EXCEPT ![k].pc = "undo", ![k].left = left]
      PROVE  CaskInv'
  <2>1. /\ DiskInv' /\ \A j \in Tokens \ {k} : receipts'[j] = receipts[j]
        /\ \/ receipts'[k] = IF tx[k].wrote = "tree" THEN receipts[k] \ {new} ELSE receipts[k]
           \/ receipts'[k] = receipts[k] /\ <<"receipt", new>> \in left
    BY <1>1, <1>2, <1>4, Counted DEF DiskInv
  <2>2. /\ OthersSame(k) /\ tx'[k] \in Command(k) /\ tx'[k].pc = "undo"
        /\ tx'[k].op = tx[k].op /\ tx'[k].outcome = tx[k].outcome /\ tx'[k].new = tx[k].new
        /\ tx'[k].targets = tx[k].targets /\ tx'[k].versions = tx[k].versions
        /\ tx'[k].journal = tx[k].journal /\ tx'[k].rest = tx[k].rest
        /\ tx'[k].saved = tx[k].saved /\ tx'[k].wrote = tx[k].wrote
        /\ tx'[k].left = left /\ tx[k].left \subseteq left
        /\ tx'[k].before = tx[k].before /\ tx'[k].robbed = tx[k].robbed
    BY <1>1, <1>2, <1>3, <1>4, <2>1 DEF OthersSame, Command, Back
  <2>3. /\ tx'[k].pc \in Back /\ tx'[k].pc \notin Forward \cup Removing
        /\ tx'[k].pc \notin Begun \cup Saving \cup Deploying
        /\ tx'[k].pc \notin {"promote", "put", "apply", "metadata", "stage", "idle", "backup", "fail"}
    BY <2>2 DEF Forward, Back, Begun, Saving, Deploying, Removing
  <2>4. Control(k, tx'[k]) /\ NoneSaved(k, tx'[k])
    BY <1>2, <2>2, <2>3 DEF Control, NoneSaved
  <2>5. ASSUME ~tx'[k].robbed
        PROVE  /\ OrderOK(tx'[k]) /\ FilesOK(k, tx'[k], at')
               /\ RoomsOK(tx'[k], rooms'[k], recorded'[k]) /\ ReceiptsOK(tx'[k], receipts'[k])
               /\ DeployOK(k, tx'[k], at', receipts'[k])
    <3>1. /\ OrderOK(tx[k]) /\ FilesOK(k, tx[k], at) /\ RoomsOK(tx[k], rooms[k], recorded[k])
          /\ ReceiptsOK(tx[k], receipts[k])
      BY <1>1, <2>2, <2>5, Installing
    <3>2. OrderOK(tx'[k])
      BY <2>2, <2>3, <3>1 DEF OrderOK
    <3>3. FilesOK(k, tx'[k], at)
      BY <2>2, <2>3, <3>1, GrowsSame, FilesKeep
    <3>4. RoomsOK(tx'[k], rooms[k], recorded[k])
      BY <2>2, <2>3, <3>1, RoomsKeep DEF SameOf
    <3>5. ReceiptsOK(tx'[k], receipts'[k])
      <4> SUFFICES ASSUME NEW v \in Versions
                   PROVE  ReceiptOK(tx'[k], receipts'[k], v)
        BY DEF ReceiptsOK
      <4>1. ReceiptOK(tx[k], receipts[k], v)
        BY <3>1 DEF ReceiptsOK
      <4>2. CASE v = new
        BY <1>1, <2>1, <2>2, <2>3, <4>1, <4>2 DEF ReceiptOK
      <4>3. CASE v # new
        <5>1. v \in receipts'[k] <=> v \in receipts[k]
          BY <2>1, <4>3
        <5> QED BY <1>1, <2>2, <2>3, <4>1, <4>3, <5>1 DEF ReceiptOK
      <4> QED BY <4>2, <4>3
    <3>6. DeployOK(k, tx'[k], at, receipts'[k])
      BY <2>3 DEF DeployOK
    <3> QED BY <1>1, <3>2, <3>3, <3>4, <3>5, <3>6
  <2>6. \A p \in Paths : at'[p] = User => NoClaim(k, tx'[k], rooms'[k], p)
    BY <1>1, <1>2, <2>2, <2>3 DEF NoClaim
  <2> QED BY <2>1, <2>2, <2>3, <2>4, <2>5, <2>6, InstallFits
<1>5. ASSUME receipts' = [receipts EXCEPT ![k] = IF tx[k].wrote = "tree" THEN @ \ {new} ELSE @],
             GoTo(k, "undo")
      PROVE  CaskInv'
  <2>1. tx' = [tx EXCEPT ![k].pc = "undo", ![k].left = tx[k].left]
    BY <1>2, <1>5 DEF GoTo, Command
  <2> QED BY <1>4, <1>5, <2>1
<1>6. ASSUME tx' = [tx EXCEPT ![k].pc = "undo", ![k].left = @ \cup {<<"receipt", new>>}],
             UNCHANGED receipts
      PROVE  CaskInv'
  BY <1>4, <1>6
<1> QED BY <1>5, <1>6 DEF RemoveReceipt

\* Without its last entry a journal has no longer this one, or has it earlier too.
Drops(s, r, x) == \A q, y : Has(s, q, y) <=> Has(Front(s), q, y) \/ (q = r /\ y = x)
\* It is the only one, and nothing that was deployed is left to be undone.
Once(s, r, x) == ~Has(Front(s), r, x) /\ \A q, y : Has(s, q, y) => q \in Undoes

\* The last entry of the journal is undone.
LEMMA UndoFacts ==
    ASSUME CaskInv, NEW k \in Tokens, NEW r, NEW x, Undoing(k, r, x)
    PROVE  /\ tx[k].pc = "undo" /\ tx[k].pc \in Back
           /\ Front(tx[k].journal) \in Seq(Reverses) /\ <<r, x>> \in Reverses
           /\ Has(tx[k].journal, r, x) /\ Drops(tx[k].journal, r, x)
           /\ \A q : q # r => SameOf(q, tx[k].journal, Front(tx[k].journal))
           /\ ~tx[k].robbed => /\ Ordered(Front(tx[k].journal))
                               /\ r \in Undoes => Once(tx[k].journal, r, x)
<1>1. /\ tx[k].pc = "undo" /\ tx[k].pc \in Back
      /\ tx[k].journal # <<>> /\ Last(tx[k].journal) = <<r, x>>
  BY DEF Undoing, Back
<1>2. tx[k].journal \in Seq(Reverses)
  BY <1>1, Installing DEF Command
<1>3. /\ Front(tx[k].journal) \in Seq(Reverses) /\ <<r, x>> \in Reverses
      /\ \A q, y : Has(tx[k].journal, q, y) <=>
                       Has(Front(tx[k].journal), q, y) \/ <<r, x>> = <<q, y>>
  BY <1>1, <1>2, HasFront
<1>4. \A q, y : <<r, x>> = <<q, y>> <=> q = r /\ y = x
  OBVIOUS
<1>5. \A q, y : Has(tx[k].journal, q, y) <=>
                    Has(Front(tx[k].journal), q, y) \/ (q = r /\ y = x)
  BY <1>3, <1>4, Zenon
<1>6. \A q : q # r => SameOf(q, tx[k].journal, Front(tx[k].journal))
  BY <1>5 DEF SameOf
<1>7. ASSUME ~tx[k].robbed
      PROVE  /\ Ordered(Front(tx[k].journal))
             /\ r \in Undoes => /\ ~Has(Front(tx[k].journal), r, x)
                                /\ \A q, y : Has(tx[k].journal, q, y) => q \in Undoes
  <2>1. Ordered(tx[k].journal)
    BY <1>1, <1>7, Installing DEF OrderOK
  <2>2. <<r, x>>[1] = r
    OBVIOUS
  <2>3. /\ Ordered(Front(tx[k].journal))
        /\ r \in Undoes => /\ \A q, y : Has(Front(tx[k].journal), q, y) => q \in Undoes
                           /\ \A q, y : <<r, x>> = <<q, y>> => ~Has(Front(tx[k].journal), q, y)
    BY <1>1, <1>2, <2>1, <2>2, OrderedFront
  <2> QED BY <1>5, <2>3
<1>8. ~tx[k].robbed => /\ Ordered(Front(tx[k].journal))
                       /\ r \in Undoes => Once(tx[k].journal, r, x)
  BY <1>7 DEF Once
<1>9. Drops(tx[k].journal, r, x) /\ Has(tx[k].journal, r, x)
  BY <1>5 DEF Drops
<1> QED BY <1>1, <1>3, <1>6, <1>8, <1>9

\* What such a step leaves of the command.
UndoStep(k) ==
    /\ tx'[k] \in Command(k) /\ DOMAIN tx' = Tokens
    /\ tx'[k].pc = "undo" /\ tx'[k].op = tx[k].op /\ tx'[k].outcome = tx[k].outcome
    /\ tx'[k].new = tx[k].new /\ tx'[k].targets = tx[k].targets
    /\ tx'[k].versions = tx[k].versions /\ tx'[k].wrote = tx[k].wrote
    /\ tx'[k].before = tx[k].before /\ tx'[k].robbed = tx[k].robbed
    /\ tx'[k].journal = Front(tx[k].journal) /\ tx[k].left \subseteq tx'[k].left

LEMMA LeftFacts ==
    ASSUME CaskInv, NEW k \in Tokens, NEW r, NEW x, Undoing(k, r, x),
           NEW what \in Leftovers, LeftBehind(k, what)
    PROVE  /\ UndoStep(k) /\ tx'[k].saved = tx[k].saved
           /\ tx'[k].left = tx[k].left \cup {what}
           /\ \A j \in Tokens \ {k} : tx'[j] = tx[j]
<1>1. DOMAIN tx = Tokens /\ tx[k] \in Command(k) /\ Front(tx[k].journal) \in Seq(Reverses)
      /\ tx[k].pc = "undo"
  BY UndoFacts, Installing
<1> QED BY <1>1 DEF LeftBehind, UndoStep, Command

LEMMA UndoneFacts ==
    ASSUME CaskInv, NEW k \in Tokens, NEW r, NEW x, Undoing(k, r, x), Undone(k)
    PROVE  /\ UndoStep(k) /\ tx'[k].saved = tx[k].saved
           /\ \A j \in Tokens \ {k} : tx'[j] = tx[j]
<1>1. DOMAIN tx = Tokens /\ tx[k] \in Command(k) /\ Front(tx[k].journal) \in Seq(Reverses)
      /\ tx[k].pc = "undo"
  BY UndoFacts, Installing
<1> QED BY <1>1 DEF Undone, UndoStep, Command

\* What such a step is to show.
LEMMA UndoFits ==
    ASSUME CaskInv, NEW k \in Tokens, NEW r, NEW x, Undoing(k, r, x), UndoStep(k),
           OthersFit(k), DiskInv', NoneSaved(k, tx'[k]),
           ~tx[k].robbed =>
               /\ FilesOK(k, tx'[k], at') /\ RoomsOK(tx'[k], rooms'[k], recorded'[k])
               /\ ReceiptsOK(tx'[k], receipts'[k]),
           \A p \in Paths : at'[p] = User =>
               at[p] = User /\ \A v \in rooms'[k] : p \notin Planned(k, v)
    PROVE  CaskInv'
<1>1. /\ tx[k].pc = "undo" /\ tx[k].pc \in Back
      /\ \A q, y : Has(Front(tx[k].journal), q, y) => Has(tx[k].journal, q, y)
      /\ ~tx[k].robbed => Ordered(Front(tx[k].journal))
  BY UndoFacts DEF Drops
<1>2. /\ tx[k] \in Command(k) /\ Control(k, tx[k]) /\ tx[k].op = "install" /\ tx[k].outcome = "running"
      /\ tx[k].pc # "idle"
      /\ \A p \in Paths : at[p] = User => NoClaim(k, tx[k], rooms[k], p)
  BY <1>1, Installing
<1>3. /\ tx'[k].pc \in Back /\ tx'[k].pc \notin Forward \cup Removing
      /\ tx'[k].pc \notin Begun \cup Saving \cup Deploying
      /\ tx'[k].pc \notin {"promote", "put", "apply", "metadata", "stage", "idle", "backup", "fail"}
  BY DEF UndoStep, Forward, Back, Begun, Saving, Deploying, Removing
<1>4. Control(k, tx'[k])
  BY <1>1, <1>2, <1>3 DEF Control, UndoStep
<1>5. ~tx'[k].robbed => OrderOK(tx'[k]) /\ DeployOK(k, tx'[k], at', receipts'[k])
  BY <1>1, <1>3 DEF OrderOK, DeployOK, UndoStep
<1>6. \A p \in Paths : at'[p] = User => NoClaim(k, tx'[k], rooms'[k], p)
  <2> SUFFICES ASSUME NEW p \in Paths, at'[p] = User
               PROVE  NoClaim(k, tx'[k], rooms'[k], p)
    OBVIOUS
  <2>1. NoClaim(k, tx[k], rooms[k], p) /\ \A v \in rooms'[k] : p \notin Planned(k, v)
    BY <1>2
  <2> QED BY <1>1, <1>2, <1>3, <2>1 DEF NoClaim, UndoStep
<1>7. tx'[k].robbed = tx[k].robbed /\ tx'[k] \in Command(k) /\ DOMAIN tx' = Tokens
  BY DEF UndoStep
<1> QED BY <1>3, <1>4, <1>5, <1>6, <1>7, InstallShown

\* Of the command's paths only p is touched.
OnlyAt(k, t, u, a, b, p) ==
    \A q \in Own(k) \ {p} :
        /\ b[q] = a[q] /\ u.saved.at[q] = t.saved.at[q]
        /\ Has(u.journal, "Restore", q) <=> Has(t.journal, "Restore", q)
        /\ Has(u.journal, "Remove", q) <=> Has(t.journal, "Remove", q)

LEMMA FilesBut ==
    ASSUME NEW k \in Tokens, NEW t, NEW u, NEW a, NEW b, NEW p \in Own(k),
           FilesOK(k, t, a), FileOK(u, b, p), OnlyAt(k, t, u, a, b, p),
           u.pc \notin Begun, u.pc # "backup",
           u.before = t.before, t.left \subseteq u.left,
           SameOf("RemoveDir", t.journal, u.journal)
    PROVE  FilesOK(k, u, b)
<1> SUFFICES ASSUME NEW q \in Own(k), q # p
             PROVE  FileOK(u, b, q)
  BY DEF FilesOK
<1>1. FileOK(t, a, q)
  BY DEF FilesOK
<1>2. /\ b[q] = a[q] /\ u.saved.at[q] = t.saved.at[q]
      /\ Has(u.journal, "Restore", q) <=> Has(t.journal, "Restore", q)
      /\ Has(u.journal, "Remove", q) <=> Has(t.journal, "Remove", q)
      /\ Has(u.journal, "RemoveDir", Dir[q]) <=> Has(t.journal, "RemoveDir", Dir[q])
  BY DEF SameOf, OnlyAt
<1> QED BY <1>1, <1>2 DEF FileOK

\* What an entry is not about stays as it is.
LEMMA UndoKeeps ==
    ASSUME CaskInv, NEW k \in Tokens, NEW r, NEW x, Undoing(k, r, x), UndoStep(k),
           ~tx[k].robbed
    PROVE  /\ /\ r # "RestoreVersion"
              /\ tx'[k].saved.rooms = tx[k].saved.rooms
              => RoomsOK(tx'[k], rooms[k], recorded[k])
           /\ /\ r # "RestoreReceipt"
              /\ tx'[k].saved.receipts = tx[k].saved.receipts
              => ReceiptsOK(tx'[k], receipts[k])
           /\ /\ r \notin {"Restore", "Remove", "RemoveDir"}
              /\ tx'[k].saved.at = tx[k].saved.at
              => FilesOK(k, tx'[k], at)
<1>1. /\ tx[k].pc = "undo" /\ tx[k].pc \in Back
      /\ \A q : q # r => SameOf(q, tx[k].journal, Front(tx[k].journal))
  BY UndoFacts
<1>2. /\ FilesOK(k, tx[k], at) /\ RoomsOK(tx[k], rooms[k], recorded[k])
      /\ ReceiptsOK(tx[k], receipts[k])
  BY <1>1, Installing
<1>3. tx'[k].pc \notin Begun \cup Saving \cup Deploying /\ tx'[k].pc # "backup"
  BY DEF UndoStep, Begun, Saving, Deploying
<1>4. r # "RestoreVersion" /\ tx'[k].saved.rooms = tx[k].saved.rooms
      => RoomsOK(tx'[k], rooms[k], recorded[k])
  BY <1>1, <1>2, <1>3, RoomsKeep DEF UndoStep
<1>5. r # "RestoreReceipt" /\ tx'[k].saved.receipts = tx[k].saved.receipts
      => ReceiptsOK(tx'[k], receipts[k])
  BY <1>1, <1>2, <1>3, ReceiptsKeep DEF UndoStep
<1>6. r \notin {"Restore", "Remove", "RemoveDir"} /\ tx'[k].saved.at = tx[k].saved.at
      => FilesOK(k, tx'[k], at)
  <2>1. r \notin {"Remove", "RemoveDir"} => Removes(tx[k].journal, Front(tx[k].journal), at)
    BY <1>1 DEF SameOf, Removes
  <2> QED BY <1>1, <1>2, <1>3, <2>1, FilesKeep DEF UndoStep
<1> QED BY <1>4, <1>5, <1>6

LEMMA UndoRemoveFits ==
    ASSUME CaskInv, NEW k \in Tokens, NEW p \in Own(k), UndoRemove(k, p)
    PROVE  CaskInv'
<1>1. /\ Undoing(k, "Remove", p) /\ (Fault \/ Fine)
      /\ UNCHANGED <<dirs, rooms, recorded, receipts>>
  BY DEF UndoRemove
<1>2. /\ tx[k].pc = "undo" /\ tx[k].pc \in Back /\ Has(tx[k].journal, "Remove", p)
      /\ \A q, y : Has(tx[k].journal, q, y) <=>
                       Has(Front(tx[k].journal), q, y) \/ (q = "Remove" /\ y = p)
      /\ \A q : q # "Remove" => SameOf(q, tx[k].journal, Front(tx[k].journal))
  <2>1. /\ tx[k].pc = "undo" /\ tx[k].pc \in Back /\ Has(tx[k].journal, "Remove", p)
        /\ Drops(tx[k].journal, "Remove", p)
        /\ \A q : q # "Remove" => SameOf(q, tx[k].journal, Front(tx[k].journal))
    BY <1>1, UndoFacts
  <2> QED BY <2>1 DEF Drops
<1>3. /\ DiskInv /\ DOMAIN tx = Tokens /\ tx[k] \in Command(k)
      /\ NoneSaved(k, tx[k]) /\ tx[k].pc # "idle"
      /\ \A q \in Paths : at[q] = User => NoClaim(k, tx[k], rooms[k], q)
  BY <1>2, Installing
<1>4. /\ p \in Paths /\ at \in [Paths -> Files] /\ at[p] \in Files /\ at[p] # User
      /\ Nothing \in Files
  <2>1. p \in Paths
    BY CaskAssumption DEF Own, OwnedBy
  <2> QED BY <1>2, <1>3, <2>1 DEF DiskInv, NoClaim, Files
\* Gone, or named.
<1>5. ASSUME NEW f \in Files, f # User, f = Nothing \/ (at[p] # Nothing /\ <<"path", p>> \in tx'[k].left),
             at' = [at EXCEPT ![p] = f], UndoStep(k), tx'[k].saved = tx[k].saved,
             \A j \in Tokens \ {k} : tx'[j] = tx[j]
      PROVE  CaskInv'
  <2>1. /\ DiskInv' /\ at'[p] = f /\ \A q \in Paths : q # p => at'[q] = at[q]
        /\ rooms' = rooms /\ recorded' = recorded /\ receipts' = receipts
    BY <1>1, <1>3, <1>4, <1>5, Counted DEF DiskInv
  <2>2. OthersFit(k)
    <3>1. \A j \in Tokens \ {k} : \A q \in Own(j) : at'[q] = at[q]
      BY <2>1, OwnApart, CaskAssumption DEF Own, OwnedBy
    <3> QED BY <1>5, <2>1, <3>1, SameFits DEF OthersSame, UndoStep
  <2>3. NoneSaved(k, tx'[k])
    BY <1>3, <1>5 DEF NoneSaved
  <2>4. ASSUME ~tx[k].robbed
        PROVE  /\ FilesOK(k, tx'[k], at') /\ RoomsOK(tx'[k], rooms'[k], recorded'[k])
               /\ ReceiptsOK(tx'[k], receipts'[k])
    <3>1. FilesOK(k, tx[k], at)
      BY <1>2, <2>4, Installing
    <3>2. tx'[k].pc \notin Begun /\ tx'[k].pc # "backup"
      BY <1>5 DEF UndoStep, Begun
    <3>3. FileOK(tx'[k], at', p)
      <4>1. FileOK(tx[k], at, p)
        BY <3>1 DEF FilesOK
      <4>2. /\ Has(tx'[k].journal, "Restore", p) <=> Has(tx[k].journal, "Restore", p)
            /\ <<"path", p>> \in tx[k].left => <<"path", p>> \in tx'[k].left
            /\ tx'[k].before = tx[k].before
        BY <1>2, <1>5 DEF UndoStep, SameOf
      <4> QED BY <1>2, <1>5, <2>1, <3>2, <4>1, <4>2 DEF FileOK
    <3>4. FilesOK(k, tx'[k], at')
      <4>1. OnlyAt(k, tx[k], tx'[k], at, at', p)
        <5> SUFFICES ASSUME NEW q \in Own(k) \ {p}
                     PROVE  /\ at'[q] = at[q] /\ tx'[k].saved.at[q] = tx[k].saved.at[q]
                            /\ Has(tx'[k].journal, "Restore", q) <=> Has(tx[k].journal, "Restore", q)
                            /\ Has(tx'[k].journal, "Remove", q) <=> Has(tx[k].journal, "Remove", q)
          BY DEF OnlyAt
        <5>1. q \in Paths /\ q # p /\ tx'[k].journal = Front(tx[k].journal)
          BY <1>5, CaskAssumption DEF Own, OwnedBy, UndoStep
        <5> QED BY <1>2, <1>5, <2>1, <5>1
      <4>2. SameOf("RemoveDir", tx[k].journal, tx'[k].journal)
        BY <1>2, <1>5 DEF UndoStep
      <4>3. tx'[k].before = tx[k].before /\ tx[k].left \subseteq tx'[k].left
        BY <1>5 DEF UndoStep
      <4> QED BY <1>5, <3>1, <3>2, <3>3, <4>1, <4>2, <4>3, FilesBut
    <3> QED BY <1>1, <1>5, <2>1, <2>4, <3>4, UndoKeeps
  <2>5. \A q \in Paths : at'[q] = User =>
            at[q] = User /\ \A v \in rooms'[k] : q \notin Planned(k, v)
    BY <1>3, <1>5, <2>1 DEF NoClaim
  <2> QED BY <1>1, <1>5, <2>1, <2>2, <2>3, <2>4, <2>5, UndoFits
<1>6. ASSUME Undone(k), at' = [at EXCEPT ![p] = Nothing]
      PROVE  CaskInv'
  BY <1>1, <1>4, <1>5, <1>6, FileAssumption, UndoneFacts
<1>7. ASSUME at[p] # Nothing, LeftBehind(k, <<"path", p>>),
             at' \in {at, [at EXCEPT ![p] = Torn(@)]}
      PROVE  CaskInv'
  <2>1. <<"path", p>> \in Leftovers
    BY <1>4 DEF Leftovers
  <2>2. /\ UndoStep(k) /\ tx'[k].saved = tx[k].saved /\ <<"path", p>> \in tx'[k].left
        /\ \A j \in Tokens \ {k} : tx'[j] = tx[j]
    BY <1>1, <1>7, <2>1, LeftFacts
  <2>3. Torn(at[p]) \in Files /\ Torn(at[p]) # User
    BY <1>4, <1>7, TornFacts
  <2>4. at = [at EXCEPT ![p] = at[p]]
    BY <1>4
  <2> QED BY <1>4, <1>5, <1>7, <2>2, <2>3, <2>4
<1> QED BY <1>6, <1>7 DEF UndoRemove

LEMMA UndoRestoreFits ==
    ASSUME CaskInv, NEW k \in Tokens, NEW p \in Own(k), UndoRestore(k, p)
    PROVE  CaskInv'
<1>1. /\ Undoing(k, "Restore", p) /\ (Fault \/ Fine)
      /\ UNCHANGED <<dirs, rooms, recorded, receipts>>
  BY DEF UndoRestore
<1>2. /\ tx[k].pc = "undo" /\ tx[k].pc \in Back /\ Has(tx[k].journal, "Restore", p)
      /\ Front(tx[k].journal) \in Seq(Reverses)
      /\ \A q, y : Has(tx[k].journal, q, y) <=>
                       Has(Front(tx[k].journal), q, y) \/ (q = "Restore" /\ y = p)
      /\ \A q : q # "Restore" => SameOf(q, tx[k].journal, Front(tx[k].journal))
      /\ ~tx[k].robbed => /\ ~Has(Front(tx[k].journal), "Restore", p)
                          /\ \A q, y : Has(tx[k].journal, q, y) => q \in Undoes
  <2>1. "Restore" \in Undoes
    BY DEF Undoes
  <2>2. /\ tx[k].pc = "undo" /\ tx[k].pc \in Back /\ Has(tx[k].journal, "Restore", p)
        /\ Front(tx[k].journal) \in Seq(Reverses) /\ Drops(tx[k].journal, "Restore", p)
        /\ \A q : q # "Restore" => SameOf(q, tx[k].journal, Front(tx[k].journal))
        /\ ~tx[k].robbed => Once(tx[k].journal, "Restore", p)
    BY <1>1, <2>1, UndoFacts
  <2> QED BY <2>2 DEF Drops, Once
<1>3. /\ DiskInv /\ DOMAIN tx = Tokens /\ tx[k] \in Command(k)
      /\ NoneSaved(k, tx[k]) /\ tx[k].pc # "idle"
      /\ \A q \in Paths : at[q] = User => NoClaim(k, tx[k], rooms[k], q)
  BY <1>2, Installing
<1>4. /\ p \in Paths /\ at \in [Paths -> Files] /\ Nothing \in Files /\ Nothing # User
      /\ tx[k].saved \in Things(k) /\ tx[k].saved.at \in [Own(k) -> Files]
      /\ tx[k].saved.at[p] \in Files /\ tx[k].saved.at[p] # User
  <2>1. p \in Paths /\ tx[k].saved \in Things(k) /\ tx[k].saved.at \in [Own(k) -> Files]
    BY <1>3, CaskAssumption DEF Own, OwnedBy, Command, Things
  <2> QED BY <1>3, <2>1, FileAssumption DEF DiskInv, NoneSaved, Files
\* Moved back, or named.
<1>5. ASSUME NEW f \in Files, f # User \/ f = at[p], f # Nothing => Dir[p] \in dirs,
             NEW s \in Things(k), s.rooms = tx[k].saved.rooms,
             s.receipts = tx[k].saved.receipts,
             \A q \in Own(k) \ {p} : s.at[q] = tx[k].saved.at[q],
             \/ f = tx[k].saved.at[p] /\ s.at[p] = Nothing
             \/ s.at[p] = tx[k].saved.at[p] /\ <<"path", p>> \in tx'[k].left,
             at' = [at EXCEPT ![p] = f], UndoStep(k), tx'[k].saved = s,
             \A j \in Tokens \ {k} : tx'[j] = tx[j]
      PROVE  CaskInv'
  <2>1. /\ DiskInv' /\ at'[p] = f /\ \A q \in Paths : q # p => at'[q] = at[q]
        /\ rooms' = rooms /\ recorded' = recorded /\ receipts' = receipts
    BY <1>1, <1>3, <1>4, <1>5, Counted DEF DiskInv
  <2>2. OthersFit(k)
    <3>1. \A j \in Tokens \ {k} : \A q \in Own(j) : at'[q] = at[q]
      BY <2>1, OwnApart, CaskAssumption DEF Own, OwnedBy
    <3> QED BY <1>5, <2>1, <3>1, SameFits DEF OthersSame, UndoStep
  <2>3. NoneSaved(k, tx'[k])
    BY <1>3, <1>4, <1>5 DEF NoneSaved
  <2>4. ASSUME ~tx[k].robbed
        PROVE  /\ FilesOK(k, tx'[k], at') /\ RoomsOK(tx'[k], rooms'[k], recorded'[k])
               /\ ReceiptsOK(tx'[k], receipts'[k])
    <3>1. FilesOK(k, tx[k], at)
      BY <1>2, <2>4, Installing
    <3>2. tx'[k].pc \notin Begun /\ tx'[k].pc # "backup" /\ tx'[k].before = tx[k].before
          /\ tx[k].left \subseteq tx'[k].left /\ tx'[k].journal = Front(tx[k].journal)
      BY <1>5 DEF UndoStep, Begun
    <3>3. FileOK(tx'[k], at', p)
      <4>1. tx[k].saved.at[p] = tx[k].before.at[p]
        BY <1>2, <3>1 DEF FilesOK, FileOK
      <4>2. /\ ~Has(tx'[k].journal, "Restore", p) /\ ~Has(tx'[k].journal, "Remove", p)
            /\ ~Has(tx'[k].journal, "RemoveDir", Dir[p])
        BY <1>2, <2>4, <3>2 DEF Undoes
      <4> QED BY <1>5, <2>1, <3>2, <4>1, <4>2 DEF FileOK
    <3>4. FilesOK(k, tx'[k], at')
      <4>1. OnlyAt(k, tx[k], tx'[k], at, at', p)
        <5> SUFFICES ASSUME NEW q \in Own(k) \ {p}
                     PROVE  /\ at'[q] = at[q] /\ tx'[k].saved.at[q] = tx[k].saved.at[q]
                            /\ Has(tx'[k].journal, "Restore", q) <=> Has(tx[k].journal, "Restore", q)
                            /\ Has(tx'[k].journal, "Remove", q) <=> Has(tx[k].journal, "Remove", q)
          BY DEF OnlyAt
        <5>1. q \in Paths /\ q # p
          BY CaskAssumption DEF Own, OwnedBy
        <5> QED BY <1>2, <1>5, <2>1, <3>2, <5>1
      <4>2. SameOf("RemoveDir", tx[k].journal, tx'[k].journal)
        BY <1>2, <3>2
      <4> QED BY <1>5, <3>1, <3>2, <3>3, <4>1, <4>2, FilesBut
    <3> QED BY <1>1, <1>5, <2>1, <2>4, <3>4, UndoKeeps
  <2>5. \A q \in Paths : at'[q] = User =>
            at[q] = User /\ \A v \in rooms'[k] : q \notin Planned(k, v)
    BY <1>3, <1>5, <2>1 DEF NoClaim
  <2> QED BY <1>1, <1>5, <2>1, <2>2, <2>3, <2>4, <2>5, UndoFits
<1>6. ASSUME Dir[p] \in dirs, at' = [at EXCEPT ![p] = tx[k].saved.at[p]],
             tx' = [tx EXCEPT ![k].journal = Front(@), ![k].saved.at[p] = Nothing]
      PROVE  CaskInv'
  <2> DEFINE s == [tx[k].saved EXCEPT !.at[p] = Nothing]
  <2>1. tx' = [tx EXCEPT ![k] = Saved(tx[k], s, Front(tx[k].journal))]
    BY <1>3, <1>6 DEF Command, Saved
  <2>2. /\ s \in Things(k) /\ s.rooms = tx[k].saved.rooms
        /\ s.receipts = tx[k].saved.receipts /\ s.at[p] = Nothing
        /\ \A q \in Own(k) \ {p} : s.at[q] = tx[k].saved.at[q]
    BY <1>4 DEF Things
  <2> HIDE DEF s
  <2>4. /\ tx'[k] = Saved(tx[k], s, Front(tx[k].journal))
        /\ DOMAIN tx' = Tokens
        /\ \A j \in Tokens \ {k} : tx'[j] = tx[j]
    BY <1>3, <2>1
  <2>5. UndoStep(k) /\ tx'[k].saved = s
    BY <1>2, <1>3, <2>2, <2>4, Resaved DEF UndoStep
  <2> QED BY <1>4, <1>5, <1>6, <2>2, <2>4, <2>5
<1>7. ASSUME LeftBehind(k, <<"path", p>>), at' \in {at, [at EXCEPT ![p] = Nothing]}
      PROVE  CaskInv'
  <2>1. <<"path", p>> \in Leftovers
    BY <1>4 DEF Leftovers
  <2>2. /\ UndoStep(k) /\ tx'[k].saved = tx[k].saved /\ <<"path", p>> \in tx'[k].left
        /\ \A j \in Tokens \ {k} : tx'[j] = tx[j]
    BY <1>1, <1>7, <2>1, LeftFacts
  <2>3. at = [at EXCEPT ![p] = at[p]] /\ at[p] \in Files
        /\ (at[p] # Nothing => Dir[p] \in dirs)
    BY <1>3, <1>4 DEF DiskInv
  <2>4. PICK f \in Files : f \in {at[p], Nothing} /\ at' = [at EXCEPT ![p] = f]
    BY <1>4, <1>7, <2>3
  <2> QED BY <1>4, <1>5, <2>2, <2>3, <2>4
<1> QED BY <1>6, <1>7 DEF UndoRestore

\* An entry is left undone, and named, and nothing is changed.
LEMMA NamedFits ==
    ASSUME CaskInv, NEW k \in Tokens, NEW r, NEW x, Undoing(k, r, x),
           r \notin {"Restore", "Remove", "RemoveDir", "RestoreVersion", "RestoreReceipt"},
           NEW what \in Leftovers, LeftBehind(k, what), Fault \/ Fine, UNCHANGED disk
    PROVE  CaskInv'
<1>1. /\ DiskInv' /\ at' = at /\ dirs' = dirs /\ rooms' = rooms /\ recorded' = recorded
      /\ receipts' = receipts
  BY DiskSame
<1>2. /\ UndoStep(k) /\ tx'[k].saved = tx[k].saved
      /\ \A j \in Tokens \ {k} : tx'[j] = tx[j]
  BY LeftFacts
<1>3. OthersFit(k)
  BY <1>1, <1>2, SameFits DEF OthersSame, UndoStep
<1>4. tx[k].pc = "undo" /\ tx[k].pc \in Back
  BY UndoFacts
<1>5. /\ NoneSaved(k, tx'[k])
      /\ \A p \in Paths : at[p] = User => \A v \in rooms[k] : p \notin Planned(k, v)
  BY <1>2, <1>4, Installing DEF NoneSaved, NoClaim
<1> QED BY <1>1, <1>2, <1>3, <1>5, UndoKeeps, UndoFits

LEMMA UndoIrreversibleFits ==
    ASSUME CaskInv, NEW k \in Tokens, UndoIrreversible(k)
    PROVE  CaskInv'
  <1>1. <<"pkg", "installed">> \in Leftovers
    BY DEF Leftovers
  <1>2. /\ Undoing(k, "Irreversible", "pkg") /\ LeftBehind(k, <<"pkg", "installed">>)
        /\ Fine /\ UNCHANGED disk
    BY DEF UndoIrreversible
  <1>3. "Irreversible" \notin {"Restore", "Remove", "RemoveDir", "RestoreVersion", "RestoreReceipt"}
    OBVIOUS
  <1> QED BY <1>1, <1>2, <1>3, NamedFits

LEMMA UndoRestoreVersionFits ==
    ASSUME CaskInv, NEW k \in Tokens, NEW o \in Versions, UndoRestoreVersion(k, o)
    PROVE  CaskInv'
<1>1. /\ Undoing(k, "RestoreVersion", o) /\ (Fault \/ Fine)
      /\ UNCHANGED <<at, dirs, receipts>>
  BY DEF UndoRestoreVersion
<1>2. /\ tx[k].pc = "undo" /\ tx[k].pc \in Back /\ Has(tx[k].journal, "RestoreVersion", o)
      /\ Front(tx[k].journal) \in Seq(Reverses)
      /\ \A q, y : Has(tx[k].journal, q, y) <=>
                       Has(Front(tx[k].journal), q, y) \/ (q = "RestoreVersion" /\ y = o)
      /\ ~tx[k].robbed => ~Has(Front(tx[k].journal), "RestoreVersion", o)
  <2>1. "RestoreVersion" \in Undoes
    BY DEF Undoes
  <2>2. /\ tx[k].pc = "undo" /\ tx[k].pc \in Back /\ Has(tx[k].journal, "RestoreVersion", o)
        /\ Front(tx[k].journal) \in Seq(Reverses) /\ Drops(tx[k].journal, "RestoreVersion", o)
        /\ ~tx[k].robbed => Once(tx[k].journal, "RestoreVersion", o)
    BY <1>1, <2>1, UndoFacts
  <2> QED BY <2>2 DEF Drops, Once
<1>3. /\ DiskInv /\ DOMAIN tx = Tokens /\ tx[k] \in Command(k)
      /\ NoneSaved(k, tx[k]) /\ tx[k].pc # "idle" /\ tx[k].saved \in Things(k)
      /\ \A q \in Paths : at[q] = User => NoClaim(k, tx[k], rooms[k], q)
  BY <1>2, Installing DEF Command
\* Put back, or named.
<1>4. ASSUME NEW back \in BOOLEAN,
             rooms' = [rooms EXCEPT ![k] = IF back THEN @ \cup {o} ELSE @],
             recorded' = [recorded EXCEPT ![k] = IF back THEN @ \cup {o} ELSE @],
             NEW s \in Things(k), s.at = tx[k].saved.at, s.receipts = tx[k].saved.receipts,
             s.rooms = IF back THEN tx[k].saved.rooms \ {o} ELSE tx[k].saved.rooms,
             ~back => <<"version", o>> \in tx'[k].left,
             UndoStep(k), tx'[k].saved = s,
             \A j \in Tokens \ {k} : tx'[j] = tx[j]
      PROVE  CaskInv'
  <2>1. /\ at' = at /\ dirs' = dirs /\ receipts' = receipts
        /\ rooms'[k] = (IF back THEN rooms[k] \cup {o} ELSE rooms[k])
        /\ recorded'[k] = (IF back THEN recorded[k] \cup {o} ELSE recorded[k])
        /\ \A j \in Tokens \ {k} : rooms'[j] = rooms[j] /\ recorded'[j] = recorded[j]
    BY <1>1, <1>3, <1>4 DEF DiskInv
  <2>2. DiskInv'
    BY <1>1, <1>3, <1>4, <2>1, Counted DEF DiskInv
  <2>3. OthersFit(k)
    BY <1>4, <2>1, SameFits DEF OthersSame, UndoStep
  <2>4. NoneSaved(k, tx'[k])
    BY <1>3, <1>4 DEF NoneSaved
  <2>5. ASSUME ~tx[k].robbed
        PROVE  /\ FilesOK(k, tx'[k], at') /\ RoomsOK(tx'[k], rooms'[k], recorded'[k])
               /\ ReceiptsOK(tx'[k], receipts'[k])
    <3>1. RoomsOK(tx[k], rooms[k], recorded[k])
      BY <1>2, <2>5, Installing
    <3>2. /\ tx'[k].pc \notin Begun \cup Saving \cup Deploying
          /\ tx'[k].before = tx[k].before
          /\ tx[k].left \subseteq tx'[k].left /\ tx'[k].journal = Front(tx[k].journal)
      BY <1>4 DEF UndoStep, Begun, Saving, Deploying
    <3>3. o \in tx[k].before.rooms /\ o \in tx[k].saved.rooms /\ o \notin rooms[k]
      BY <1>2, <3>1 DEF RoomsOK
    <3>4. \A v : Has(tx'[k].journal, "RestoreVersion", v) <=>
                     v # o /\ Has(tx[k].journal, "RestoreVersion", v)
      BY <1>2, <2>5, <3>2
    <3>5. RoomsOK(tx'[k], rooms'[k], recorded'[k])
      BY <1>4, <2>1, <3>1, <3>2, <3>3, <3>4 DEF RoomsOK
    <3> QED BY <1>1, <1>4, <2>1, <2>5, <3>5, UndoKeeps
  <2>6. \A q \in Paths : at'[q] = User =>
            at[q] = User /\ \A v \in rooms'[k] : q \notin Planned(k, v)
    BY <1>2, <1>3, <2>1 DEF NoClaim
  <2> QED BY <1>1, <1>4, <2>2, <2>3, <2>4, <2>5, <2>6, UndoFits
<1>5. ASSUME rooms' = [rooms EXCEPT ![k] = @ \cup {o}],
             recorded' = [recorded EXCEPT ![k] = @ \cup {o}],
             tx' = [tx EXCEPT ![k].journal = Front(@), ![k].saved.rooms = @ \ {o}]
      PROVE  CaskInv'
  <2> DEFINE s == [tx[k].saved EXCEPT !.rooms = @ \ {o}]
  <2>1. tx' = [tx EXCEPT ![k] = Saved(tx[k], s, Front(tx[k].journal))]
    BY <1>3, <1>5 DEF Command, Saved
  <2>2. /\ s \in Things(k) /\ s.rooms = tx[k].saved.rooms \ {o}
        /\ s.receipts = tx[k].saved.receipts /\ s.at = tx[k].saved.at
    BY <1>3 DEF Things
  <2> HIDE DEF s
  <2>4. /\ tx'[k] = Saved(tx[k], s, Front(tx[k].journal))
        /\ DOMAIN tx' = Tokens
        /\ \A j \in Tokens \ {k} : tx'[j] = tx[j]
    BY <1>3, <2>1
  <2>5. UndoStep(k) /\ tx'[k].saved = s
    BY <1>2, <1>3, <2>2, <2>4, Resaved DEF UndoStep
  <2> QED BY <1>4, <1>5, <2>2, <2>4, <2>5
<1>6. ASSUME LeftBehind(k, <<"version", o>>), UNCHANGED <<rooms, recorded>>
      PROVE  CaskInv'
  <2>1. <<"version", o>> \in Leftovers
    BY DEF Leftovers
  <2>2. /\ UndoStep(k) /\ tx'[k].saved = tx[k].saved /\ <<"version", o>> \in tx'[k].left
        /\ \A j \in Tokens \ {k} : tx'[j] = tx[j]
    BY <1>1, <1>6, <2>1, LeftFacts
  <2>3. /\ rooms' = [rooms EXCEPT ![k] = IF FALSE THEN @ \cup {o} ELSE @]
        /\ recorded' = [recorded EXCEPT ![k] = IF FALSE THEN @ \cup {o} ELSE @]
    BY <1>3, <1>6 DEF DiskInv
  <2> QED BY <1>3, <1>4, <2>2, <2>3
<1> QED BY <1>5, <1>6 DEF UndoRestoreVersion

LEMMA UndoRestoreReceiptFits ==
    ASSUME CaskInv, NEW k \in Tokens, NEW o \in Versions, UndoRestoreReceipt(k, o)
    PROVE  CaskInv'
<1>1. /\ Undoing(k, "RestoreReceipt", o) /\ (Fault \/ Fine)
      /\ UNCHANGED <<at, dirs, rooms, recorded>>
  BY DEF UndoRestoreReceipt
<1>2. /\ tx[k].pc = "undo" /\ tx[k].pc \in Back /\ Has(tx[k].journal, "RestoreReceipt", o)
      /\ Front(tx[k].journal) \in Seq(Reverses)
      /\ \A q, y : Has(tx[k].journal, q, y) <=>
                       Has(Front(tx[k].journal), q, y) \/ (q = "RestoreReceipt" /\ y = o)
      /\ ~tx[k].robbed => ~Has(Front(tx[k].journal), "RestoreReceipt", o)
  <2>1. "RestoreReceipt" \in Undoes
    BY DEF Undoes
  <2>2. /\ tx[k].pc = "undo" /\ tx[k].pc \in Back /\ Has(tx[k].journal, "RestoreReceipt", o)
        /\ Front(tx[k].journal) \in Seq(Reverses) /\ Drops(tx[k].journal, "RestoreReceipt", o)
        /\ ~tx[k].robbed => Once(tx[k].journal, "RestoreReceipt", o)
    BY <1>1, <2>1, UndoFacts
  <2> QED BY <2>2 DEF Drops, Once
<1>3. /\ DiskInv /\ DOMAIN tx = Tokens /\ tx[k] \in Command(k)
      /\ NoneSaved(k, tx[k]) /\ tx[k].pc # "idle" /\ tx[k].saved \in Things(k)
      /\ \A q \in Paths : at[q] = User => NoClaim(k, tx[k], rooms[k], q)
  BY <1>2, Installing DEF Command
\* Put back, or named.
<1>4. ASSUME NEW back \in BOOLEAN, NEW M \in SUBSET Versions,
             \A v \in Versions \ {o} : v \in M <=> v \in receipts[k],
             back => o \in M, o \in M => back \/ o \in receipts[k],
             receipts' = [receipts EXCEPT ![k] = M],
             NEW s \in Things(k), s.at = tx[k].saved.at, s.rooms = tx[k].saved.rooms,
             s.receipts = IF back THEN tx[k].saved.receipts \ {o} ELSE tx[k].saved.receipts,
             ~back => <<"receipt", o>> \in tx'[k].left,
             UndoStep(k), tx'[k].saved = s,
             \A j \in Tokens \ {k} : tx'[j] = tx[j]
      PROVE  CaskInv'
  <2>1. /\ at' = at /\ dirs' = dirs /\ rooms' = rooms /\ recorded' = recorded
        /\ receipts'[k] = M
        /\ \A j \in Tokens \ {k} : receipts'[j] = receipts[j]
    BY <1>1, <1>3, <1>4 DEF DiskInv
  <2>2. DiskInv'
    BY <1>1, <1>3, <1>4, <2>1, Counted DEF DiskInv
  <2>3. OthersFit(k)
    BY <1>4, <2>1, SameFits DEF OthersSame, UndoStep
  <2>4. NoneSaved(k, tx'[k])
    BY <1>3, <1>4 DEF NoneSaved
  <2>5. ASSUME ~tx[k].robbed
        PROVE  /\ FilesOK(k, tx'[k], at') /\ RoomsOK(tx'[k], rooms'[k], recorded'[k])
               /\ ReceiptsOK(tx'[k], receipts'[k])
    <3>1. ReceiptsOK(tx[k], receipts[k])
      BY <1>2, <2>5, Installing
    <3>2. /\ tx'[k].pc \notin Begun \cup Saving \cup {"promote", "fail"}
          /\ tx'[k].before = tx[k].before /\ tx'[k].new = tx[k].new
          /\ tx[k].left \subseteq tx'[k].left /\ tx'[k].journal = Front(tx[k].journal)
      BY <1>4 DEF UndoStep, Begun, Saving
    <3>3. \A v : Has(tx'[k].journal, "RestoreReceipt", v) <=>
                     v # o /\ Has(tx[k].journal, "RestoreReceipt", v)
      BY <1>2, <2>5, <3>2
    <3>4. ReceiptsOK(tx'[k], receipts'[k])
      <4> SUFFICES ASSUME NEW v \in Versions
                   PROVE  ReceiptOK(tx'[k], receipts'[k], v)
        BY DEF ReceiptsOK
      <4>1. ReceiptOK(tx[k], receipts[k], v)
        BY <3>1 DEF ReceiptsOK
      <4>2. CASE v = o
        BY <1>2, <1>4, <2>1, <3>2, <3>3, <4>1, <4>2 DEF ReceiptOK
      <4>3. CASE v # o
        BY <1>2, <1>4, <2>1, <3>2, <3>3, <4>1, <4>3 DEF ReceiptOK
      <4> QED BY <4>2, <4>3
    <3> QED BY <1>1, <1>4, <2>1, <2>5, <3>4, UndoKeeps
  <2>6. \A q \in Paths : at'[q] = User =>
            at[q] = User /\ \A v \in rooms'[k] : q \notin Planned(k, v)
    BY <1>2, <1>3, <2>1 DEF NoClaim
  <2> QED BY <1>1, <1>4, <2>2, <2>3, <2>4, <2>5, <2>6, UndoFits
<1>5. ASSUME receipts' = [receipts EXCEPT ![k] = @ \cup {o}],
             tx' = [tx EXCEPT ![k].journal = Front(@), ![k].saved.receipts = @ \ {o}]
      PROVE  CaskInv'
  <2> DEFINE s == [tx[k].saved EXCEPT !.receipts = @ \ {o}]
             M == receipts[k] \cup {o}
  <2>1. tx' = [tx EXCEPT ![k] = Saved(tx[k], s, Front(tx[k].journal))]
    BY <1>3, <1>5 DEF Command, Saved
  <2>2. /\ s \in Things(k) /\ s.receipts = tx[k].saved.receipts \ {o}
        /\ s.rooms = tx[k].saved.rooms /\ s.at = tx[k].saved.at
    BY <1>3 DEF Things
  <2>6. /\ M \in SUBSET Versions /\ o \in M /\ receipts' = [receipts EXCEPT ![k] = M]
        /\ \A v \in Versions \ {o} : v \in M <=> v \in receipts[k]
    BY <1>3, <1>5 DEF DiskInv
  <2> HIDE DEF s, M
  <2>4. /\ tx'[k] = Saved(tx[k], s, Front(tx[k].journal))
        /\ DOMAIN tx' = Tokens
        /\ \A j \in Tokens \ {k} : tx'[j] = tx[j]
    BY <1>3, <2>1
  <2>5. UndoStep(k) /\ tx'[k].saved = s
    BY <1>2, <1>3, <2>2, <2>4, Resaved DEF UndoStep
  <2> QED BY <1>4, <2>2, <2>4, <2>5, <2>6
<1>6. ASSUME LeftBehind(k, <<"receipt", o>>),
             receipts' \in {receipts, [receipts EXCEPT ![k] = @ \ {o}]}
      PROVE  CaskInv'
  <2>1. <<"receipt", o>> \in Leftovers
    BY DEF Leftovers
  <2>2. /\ UndoStep(k) /\ tx'[k].saved = tx[k].saved /\ <<"receipt", o>> \in tx'[k].left
        /\ \A j \in Tokens \ {k} : tx'[j] = tx[j]
    BY <1>1, <1>6, <2>1, LeftFacts
  <2>3. PICK M \in SUBSET Versions :
            M \in {receipts[k], receipts[k] \ {o}} /\ receipts' = [receipts EXCEPT ![k] = M]
    BY <1>3, <1>6 DEF DiskInv
  <2>4. (\A v \in Versions \ {o} : v \in M <=> v \in receipts[k])
        /\ (o \in M => o \in receipts[k])
    BY <2>3
  <2> QED BY <1>3, <1>4, <2>2, <2>3, <2>4
<1> QED BY <1>5, <1>6 DEF UndoRestoreReceipt

\* A token loses files to another's command, which is noted.
LEMMA LosesFits ==
    ASSUME CaskInv, NEW j \in Tokens, NEW r \in BOOLEAN,
           \A p \in Paths : at[p] = Nothing => at'[p] = Nothing,
           \A p \in Paths : at'[p] = User => at[p] = User,
           ~r => \A p \in Own(j) : at'[p] = at[p],
           tx'[j] = [tx[j] EXCEPT !.robbed = @ \/ r]
    PROVE  /\ TokenOK(j, tx'[j], at', rooms[j], recorded[j], receipts[j])
           /\ \A p \in Paths : at'[p] = User => NoClaim(j, tx'[j], rooms[j], p)
<1>1. /\ TokenOK(j, tx[j], at, rooms[j], recorded[j], receipts[j])
      /\ \A p \in Paths : at[p] = User => NoClaim(j, tx[j], rooms[j], p)
  BY DEF CaskInv
<1>2. CASE tx[j] \in Quiet
  <2>1. tx'[j] \in Quiet
    BY <1>2 DEF Quiet
  <2>2. \A p \in Paths : at[p] = User => \A v \in rooms[j] : p \notin Planned(j, v)
    BY <1>1 DEF NoClaim
  <2> QED BY <2>1, <2>2, QuietFits
<1>3. CASE tx[j] \in Command(j)
  <2> DEFINE s == tx[j].robbed \/ r
  <2>1. tx'[j] = [tx[j] EXCEPT !.robbed = s] /\ s \in BOOLEAN
    BY <1>3 DEF Command
  <2>2. (tx[j].robbed => s) /\ (~s => ~r)
    OBVIOUS
  <2> HIDE DEF s
  <2>3. tx'[j] \in Command(j) /\ Like(tx[j], tx'[j]) /\ tx'[j].robbed = s
    BY <1>3, <2>1 DEF Command, Like
  <2>4. \A p \in Own(j) : p \in Paths
    BY CaskAssumption DEF Own, OwnedBy
  <2>5. /\ \A p \in Own(j) : at[p] = Nothing => at'[p] = Nothing
        /\ ~s => \A p \in Own(j) : at'[p] = at[p]
    BY <2>2, <2>4
  <2>6. Loses(j, tx[j], tx'[j], at, at')
    BY <2>2, <2>3, <2>5, Zenon DEF Loses
  <2>7. /\ TokenOK(j, tx'[j], at', rooms[j], recorded[j], receipts[j])
        /\ \A p : NoClaim(j, tx[j], rooms[j], p) => NoClaim(j, tx'[j], rooms[j], p)
    BY <1>1, <1>3, <2>3, <2>6, LikeFits
  <2> QED BY <1>1, <2>7
<1> QED BY <1>1, <1>2, <1>3 DEF TokenOK

\* What the removal of a directory leaves of the files,
LEMMA GoneFacts ==
    ASSUME CaskInv, NEW k \in Tokens, NEW d \in Dirs, Undoing(k, "RemoveDir", d),
           NEW gone \in SUBSET In(d), at' = Without(gone)
    PROVE  /\ \A p \in Paths : at'[p] = IF p \in gone THEN Nothing ELSE at[p]
           /\ \A p \in gone : p \in Paths /\ Dir[p] = d /\ at[p] # Nothing /\ at[p] # User
           /\ at' \in [Paths -> Files]
           /\ Has(tx[k].journal, "RemoveDir", d)
<1>1. Has(tx[k].journal, "RemoveDir", d) /\ tx[k].pc \in Back
  BY UndoFacts
<1>2. /\ at \in [Paths -> Files] /\ tx[k].pc # "idle"
      /\ \A p \in Paths : at[p] = User => NoClaim(k, tx[k], rooms[k], p)
  BY <1>1, Installing DEF DiskInv
<1>3. \A p \in gone : p \in Paths /\ Dir[p] = d /\ at[p] # Nothing /\ at[p] # User
  BY <1>1, <1>2 DEF In, NoClaim
<1>4. /\ \A p \in Paths : at'[p] = IF p \in gone THEN Nothing ELSE at[p]
      /\ at' \in [Paths -> Files]
  BY <1>2 DEF Without, Files
<1> QED BY <1>1, <1>3, <1>4

\* and of another token.
LEMMA RobbedFits ==
    ASSUME CaskInv, NEW k \in Tokens, NEW j \in Tokens, NEW d \in Dirs,
           Undoing(k, "RemoveDir", d), NEW gone \in SUBSET In(d), at' = Without(gone),
           tx'[j] = [tx[j] EXCEPT !.robbed = @ \/ gone \cap Own(j) # {}]
    PROVE  /\ TokenOK(j, tx'[j], at', rooms[j], recorded[j], receipts[j])
           /\ \A p \in Paths : at'[p] = User => NoClaim(j, tx'[j], rooms[j], p)
<1> DEFINE r == gone \cap Own(j) # {}
<1>1. /\ \A p \in Paths : at'[p] = IF p \in gone THEN Nothing ELSE at[p]
      /\ \A p \in Own(j) : p \in Paths
  BY GoneFacts, CaskAssumption DEF Own, OwnedBy
<1>2. /\ \A p \in Paths : at[p] = Nothing => at'[p] = Nothing
      /\ \A p \in Paths : at'[p] = User => at[p] = User
  BY <1>1, FileAssumption
<1>3. ~r => \A p \in Own(j) : at'[p] = at[p]
  BY <1>1
<1>4. tx'[j] = [tx[j] EXCEPT !.robbed = @ \/ r] /\ r \in BOOLEAN
  OBVIOUS
<1> HIDE DEF r
<1> QED BY <1>2, <1>3, <1>4, LosesFits

LEMMA UndoRemoveDirFits ==
    ASSUME CaskInv, NEW k \in Tokens, NEW d \in Dirs, UndoRemoveDir(k, d)
    PROVE  CaskInv'
<1>1. PICK gone \in SUBSET In(d) :
          /\ at' = Without(gone)
          /\ \/ Fine /\ gone = In(d) /\ dirs' = dirs \ {d}
             \/ d \in dirs /\ Fault /\ UNCHANGED dirs
          /\ tx' = [j \in Tokens |->
                       IF j = k
                       THEN [tx[k] EXCEPT !.journal = Front(@),
                                          !.left = IF d \in dirs' THEN @ \cup {<<"dir", d>>} ELSE @]
                       ELSE [tx[j] EXCEPT !.robbed = @ \/ gone \cap Own(j) # {}]]
  BY DEF UndoRemoveDir
<1>2. Undoing(k, "RemoveDir", d) /\ UNCHANGED <<rooms, recorded, receipts>> /\ (Fault \/ Fine)
  BY <1>1 DEF UndoRemoveDir
<1>3. /\ tx[k].pc = "undo" /\ tx[k].pc \in Back
      /\ Front(tx[k].journal) \in Seq(Reverses)
      /\ \A q, y : Has(Front(tx[k].journal), q, y) => Has(tx[k].journal, q, y)
      /\ \A q : q # "RemoveDir" => SameOf(q, tx[k].journal, Front(tx[k].journal))
  BY <1>2, UndoFacts DEF Drops
<1>4. /\ DiskInv /\ DOMAIN tx = Tokens /\ tx[k] \in Command(k)
      /\ NoneSaved(k, tx[k]) /\ tx[k].pc # "idle"
      /\ \A q \in Paths : at[q] = User => NoClaim(k, tx[k], rooms[k], q)
  BY <1>3, Installing
<1>5. /\ \A p \in Paths : at'[p] = IF p \in gone THEN Nothing ELSE at[p]
      /\ \A p \in gone : p \in Paths /\ Dir[p] = d /\ at[p] # Nothing /\ at[p] # User
      /\ at' \in [Paths -> Files]
      /\ Has(tx[k].journal, "RemoveDir", d)
  BY <1>1, <1>2, GoneFacts
<1>6. DiskInv'
  <2>1. \A p \in Paths : at'[p] # Nothing => Dir[p] \in dirs'
    BY <1>1, <1>4, <1>5 DEF DiskInv, In
  <2>2. dirs' \subseteq Dirs
    BY <1>1, <1>4 DEF DiskInv
  <2> QED BY <1>2, <1>4, <1>5, <2>1, <2>2, Counted DEF DiskInv
<1>7. UndoStep(k) /\ tx'[k].saved = tx[k].saved
  <2> DEFINE l == IF d \in dirs' THEN tx[k].left \cup {<<"dir", d>>} ELSE tx[k].left
  <2>1. l \subseteq Leftovers /\ tx[k].left \subseteq l
    BY <1>4 DEF Leftovers, Command
  <2>2. tx'[k] = [tx[k] EXCEPT !.journal = Front(@),
                               !.left = IF d \in dirs' THEN @ \cup {<<"dir", d>>} ELSE @]
    BY <1>1
  <2>3. DOMAIN tx' = Tokens
    BY <1>1
  <2>4. tx'[k] = [tx[k] EXCEPT !.journal = Front(@), !.left = l]
    BY <1>4, <2>2 DEF Command
  <2> HIDE DEF l
  <2> QED BY <1>3, <1>4, <2>1, <2>3, <2>4 DEF UndoStep, Command
<1>8. OthersFit(k)
  <2> SUFFICES ASSUME NEW j \in Tokens \ {k}
               PROVE  /\ TokenOK(j, tx'[j], at', rooms'[j], recorded'[j], receipts'[j])
                      /\ \A p \in Paths : at'[p] = User => NoClaim(j, tx'[j], rooms'[j], p)
    BY DEF OthersFit
  <2>1. tx'[j] = [tx[j] EXCEPT !.robbed = @ \/ gone \cap Own(j) # {}]
    BY <1>1
  <2>2. /\ TokenOK(j, tx'[j], at', rooms[j], recorded[j], receipts[j])
        /\ \A p \in Paths : at'[p] = User => NoClaim(j, tx'[j], rooms[j], p)
    BY <1>1, <1>2, <2>1, RobbedFits
  <2> QED BY <1>2, <2>2
<1>9. NoneSaved(k, tx'[k])
  BY <1>4, <1>7 DEF NoneSaved
<1>10. ASSUME ~tx[k].robbed
       PROVE  /\ FilesOK(k, tx'[k], at') /\ RoomsOK(tx'[k], rooms'[k], recorded'[k])
              /\ ReceiptsOK(tx'[k], receipts'[k])
  <2>1. FilesOK(k, tx'[k], at')
    <3> SUFFICES ASSUME NEW p \in Own(k)
                 PROVE  FileOK(tx'[k], at', p)
      BY DEF FilesOK
    <3>1. FileOK(tx[k], at, p)
      BY <1>3, <1>10, Installing DEF FilesOK
    <3>2. p \in Paths
      BY CaskAssumption DEF Own, OwnedBy
    <3>3. /\ tx'[k].pc = "undo" /\ tx'[k].pc \notin Begun /\ tx'[k].before = tx[k].before
          /\ tx[k].left \subseteq tx'[k].left /\ tx'[k].journal = Front(tx[k].journal)
      BY <1>7 DEF UndoStep, Begun
    <3>4. /\ Has(tx'[k].journal, "Restore", p) <=> Has(tx[k].journal, "Restore", p)
          /\ Has(tx'[k].journal, "Remove", p) <=> Has(tx[k].journal, "Remove", p)
          /\ Has(tx'[k].journal, "RemoveDir", Dir[p]) => Has(tx[k].journal, "RemoveDir", Dir[p])
      BY <1>3, <3>3 DEF SameOf
    <3>5. /\ p \in gone => at'[p] = Nothing /\ Has(tx[k].journal, "RemoveDir", Dir[p])
          /\ p \notin gone => at'[p] = at[p]
      BY <1>5, <3>2
    <3> QED BY <1>7, <3>1, <3>3, <3>4, <3>5 DEF FileOK
  <2> QED BY <1>2, <1>7, <1>10, <2>1, UndoKeeps
<1>11. \A p \in Paths : at'[p] = User =>
           at[p] = User /\ \A v \in rooms'[k] : p \notin Planned(k, v)
  BY <1>2, <1>4, <1>5, FileAssumption DEF NoClaim
<1> QED BY <1>2, <1>6, <1>7, <1>8, <1>9, <1>10, <1>11, UndoFits

\* The rollback ends.
LEMMA UnstageFits ==
    ASSUME CaskInv, NEW k \in Tokens, Unstage(k)
    PROVE  CaskInv'
<1>1. /\ tx[k].pc = "undo" /\ tx[k].pc \in Back /\ tx[k].journal = <<>>
      /\ (Fault \/ Fine) /\ UNCHANGED disk
  BY DEF Unstage, Back
<1>2. /\ DOMAIN tx = Tokens /\ tx[k] \in Command(k) /\ tx[k].op = "install"
      /\ tx[k].pc # "idle"
      /\ \A p \in Paths : at[p] = User => NoClaim(k, tx[k], rooms[k], p)
  BY <1>1, Installing
<1>3. /\ DiskInv' /\ at' = at /\ dirs' = dirs /\ rooms' = rooms /\ recorded' = recorded
      /\ receipts' = receipts
  BY <1>1, DiskSame
<1>4. PICK unstaged \in BOOLEAN :
          LET left == tx[k].left \cup (IF unstaged THEN {} ELSE {<<"staging", "tree">>})
          IN tx' = [tx EXCEPT ![k] =
                       [@ EXCEPT !.pc = "idle", !.journal = <<>>, !.rest = <<>>,
                                 !.targets = {}, !.versions = {}, !.saved = Empty(k),
                                 !.cur = tx[k].new, !.wrote = "none",
                                 !.staged = ~unstaged, !.left = left,
                                 !.outcome = IF left = {} THEN "error" ELSE "incomplete"]]
  BY DEF Unstage
<1> DEFINE left == tx[k].left \cup (IF unstaged THEN {} ELSE {<<"staging", "tree">>})
<1>5. left \subseteq Leftovers /\ tx[k].left \subseteq left
      /\ (~unstaged => <<"staging", "tree">> \in left)
  BY <1>2 DEF Leftovers, Command
<1> DEFINE answer == IF left = {} THEN "error" ELSE "incomplete"
<1>6. tx' = [tx EXCEPT ![k] =
                [@ EXCEPT !.pc = "idle", !.journal = <<>>, !.rest = <<>>,
                          !.targets = {}, !.versions = {}, !.saved = Empty(k),
                          !.cur = tx[k].new, !.wrote = "none",
                          !.staged = ~unstaged, !.left = left, !.outcome = answer]]
  BY <1>4
<1>7. answer \in {"error", "incomplete"}
  OBVIOUS
<1> HIDE DEF left, answer
<1>8. /\ tx'[k] \in Command(k) /\ tx'[k].pc = "idle" /\ tx'[k].outcome = answer
      /\ tx'[k].op = tx[k].op /\ tx'[k].new = tx[k].new /\ tx'[k].left = left
      /\ tx'[k].before = tx[k].before /\ tx'[k].robbed = tx[k].robbed
      /\ tx'[k].journal = <<>> /\ tx'[k].staged = ~unstaged
      /\ DOMAIN tx' = Tokens /\ \A j \in Tokens \ {k} : tx'[j] = tx[j]
  <2>1. Empty(k) \in Things(k)
    BY ThingsFacts
  <2>2. <<>> \in Seq(Actions(k)) /\ <<>> \in Seq(Reverses)
    OBVIOUS
  <2>3. (~unstaged) \in BOOLEAN
    BY Zenon
  <2> DEFINE c == [tx[k] EXCEPT !.pc = "idle", !.rest = <<>>, !.targets = {}, !.versions = {},
                                !.cur = tx[k].new, !.wrote = "none"]
             d == [c EXCEPT !.staged = ~unstaged, !.left = left, !.outcome = answer]
  <2>4. /\ tx'[k] = Saved(d, Empty(k), <<>>)
        /\ DOMAIN tx' = Tokens /\ \A j \in Tokens \ {k} : tx'[j] = tx[j]
    BY <1>2, <1>6 DEF Command, Saved
  <2>5. /\ c \in Command(k) /\ c.pc = "idle" /\ c.op = tx[k].op /\ c.new = tx[k].new
        /\ c.before = tx[k].before /\ c.robbed = tx[k].robbed
    BY <1>2, <2>2 DEF Command
  <2> HIDE DEF c
  <2>6. /\ d \in Command(k) /\ d.pc = "idle" /\ d.outcome = answer /\ d.op = tx[k].op
        /\ d.new = tx[k].new /\ d.left = left /\ d.before = tx[k].before
        /\ d.robbed = tx[k].robbed /\ d.staged = ~unstaged
    BY <1>5, <1>7, <2>3, <2>5 DEF Command
  <2> DEFINE s == Empty(k)
             j == <<>>
  <2> HIDE DEF d, s, j
  <2>7. s \in Things(k) /\ j \in Seq(Reverses) /\ tx'[k] = Saved(d, s, j)
    BY <2>1, <2>2, <2>4 DEF s, j
  <2>8. /\ tx'[k] \in Command(k) /\ tx'[k].journal = j
        /\ tx'[k].pc = d.pc /\ tx'[k].op = d.op /\ tx'[k].outcome = d.outcome
        /\ tx'[k].new = d.new /\ tx'[k].left = d.left /\ tx'[k].before = d.before
        /\ tx'[k].robbed = d.robbed /\ tx'[k].staged = d.staged
    BY <2>6, <2>7, Resaved
  <2> QED BY <2>4, <2>6, <2>8 DEF j
<1>9. OthersSame(k)
  BY <1>3, <1>8 DEF OthersSame
<1>10. HonestOK(k, tx'[k], at, rooms[k], receipts[k])
  <2> SUFFICES ASSUME ~tx[k].robbed
               PROVE  /\ \A p \in Own(k) : at[p] # tx[k].before.at[p] => <<"path", p>> \in left
                      /\ \A v \in Versions :
                            /\ (v \in rooms[k]) # (v \in tx[k].before.rooms)
                                  => <<"version", v>> \in left
                            /\ (v \in receipts[k]) # (v \in tx[k].before.receipts)
                                  => <<"receipt", v>> \in left
    BY <1>5, <1>8 DEF HonestOK
  <2>1. /\ FilesOK(k, tx[k], at) /\ RoomsOK(tx[k], rooms[k], recorded[k])
        /\ ReceiptsOK(tx[k], receipts[k])
    BY <1>1, Installing
  <2>2. \A r, x : ~Has(tx[k].journal, r, x)
    BY <1>1, HasNone
  <2>3. \A p \in Own(k) : at[p] # tx[k].before.at[p] => <<"path", p>> \in left
    BY <1>5, <2>1, <2>2 DEF FilesOK, FileOK
  <2>4. \A v \in Versions : (v \in rooms[k]) # (v \in tx[k].before.rooms)
                                => <<"version", v>> \in left
    BY <1>5, <2>1, <2>2 DEF RoomsOK
  <2>5. \A v \in Versions : (v \in receipts[k]) # (v \in tx[k].before.receipts)
                                => <<"receipt", v>> \in left
    BY <1>1, <1>5, <2>1, <2>2 DEF ReceiptsOK, ReceiptOK
  <2> QED BY <2>3, <2>4, <2>5
<1>11. AnswerOK(k, tx'[k], at', rooms'[k], recorded'[k], receipts'[k])
  BY <1>2, <1>3, <1>7, <1>8, <1>10 DEF AnswerOK, InstalledOK, RemovedOK
<1>12. \A p \in Paths : at'[p] = User => \A v \in rooms'[k] : p \notin Planned(k, v)
  BY <1>2, <1>3 DEF NoClaim
<1> QED BY <1>2, <1>3, <1>7, <1>8, <1>9, <1>11, <1>12, AnswerFits

-----------------------------------------------------------------------------
(* An uninstall. *)

LEMMA RemovingFacts ==
    ASSUME CaskInv, NEW k \in Tokens, tx[k].pc \in Removing
    PROVE  /\ DiskInv /\ DOMAIN tx = Tokens /\ tx[k] \in Command(k) /\ tx[k].pc # "idle"
           /\ Control(k, tx[k]) /\ NoneSaved(k, tx[k]) /\ tx[k].op \in {"uninstall", "zap"}
           /\ tx[k].outcome = "running" /\ tx[k].journal = <<>>
           /\ RemoveOK(k, tx[k], at, rooms[k], receipts[k])
           /\ \A p \in Paths : at[p] = User =>
                 /\ NoClaim(k, tx[k], rooms[k], p)
                 /\ \A v \in rooms[k] : p \notin Planned(k, v)
<1>1. tx[k].pc # "idle"
  BY DEF Removing
<1>2. Control(k, tx[k]) /\ \A p \in Paths : at[p] = User => NoClaim(k, tx[k], rooms[k], p)
  BY Known
<1>3. /\ tx[k].op \in {"uninstall", "zap"} /\ tx[k].outcome = "running"
      /\ tx[k].journal = <<>>
  BY <1>1, <1>2 DEF Control
<1>4. \A p \in Paths : at[p] = User => \A v \in rooms[k] : p \notin Planned(k, v)
  BY <1>2 DEF NoClaim
<1> QED BY <1>1, <1>2, <1>3, <1>4, Known

\* What such a step leaves alone of the other tokens.
OthersDisk(k) ==
    /\ \A j \in Tokens \ {k} : /\ rooms'[j] = rooms[j] /\ recorded'[j] = recorded[j]
                               /\ receipts'[j] = receipts[j]
                               /\ \A p \in Own(j) : at'[p] = at[p]
    /\ \A p \in Paths : at'[p] = User => at[p] = User

\* It stops where it stands,
LEMMA StoppedShown ==
    ASSUME CaskInv, NEW k \in Tokens, tx[k].pc \in Removing, OthersFit(k), DOMAIN tx' = Tokens,
           DiskInv', tx'[k] \in Command(k), tx'[k].pc = "idle", tx'[k].outcome = "error",
           tx'[k].op = tx[k].op, tx'[k].journal = <<>>, rooms'[k] \subseteq rooms[k],
           \A p \in Paths : at'[p] = User => at[p] = User
    PROVE  CaskInv'
<1>1. /\ tx[k].op \in {"uninstall", "zap"}
      /\ \A p \in Paths : at[p] = User => \A v \in rooms[k] : p \notin Planned(k, v)
  BY RemovingFacts
<1>2. AnswerOK(k, tx'[k], at', rooms'[k], recorded'[k], receipts'[k])
  BY <1>1 DEF AnswerOK, HonestOK, InstalledOK, RemovedOK
<1>3. \A p \in Paths : at'[p] = User => \A v \in rooms'[k] : p \notin Planned(k, v)
  BY <1>1
<1> QED BY <1>1, <1>2, <1>3, AnswerShown

LEMMA StoppedFits ==
    ASSUME CaskInv, NEW k \in Tokens, tx[k].pc \in Removing, Return(k, "error"), DiskInv',
           OthersDisk(k), rooms'[k] \subseteq rooms[k]
    PROVE  CaskInv'
<1>1. tx[k] \in Command(k)
  BY RemovingFacts
<1>2. /\ tx'[k] \in Command(k) /\ tx'[k].pc = "idle" /\ tx'[k].outcome = "error"
      /\ tx'[k].op = tx[k].op /\ tx'[k].journal = <<>>
      /\ DOMAIN tx' = Tokens /\ \A j \in Tokens \ {k} : tx'[j] = tx[j]
  BY <1>1, Returned
<1>3. OthersSame(k) /\ \A p \in Paths : at'[p] = User => at[p] = User
  BY <1>2 DEF OthersSame, OthersDisk
<1> QED BY <1>2, <1>3, SameFits, StoppedShown

\* or goes on.
LEMMA RemovalShown ==
    ASSUME CaskInv, NEW k \in Tokens, tx[k].pc \in Removing, DiskInv',
           OthersFit(k), DOMAIN tx' = Tokens, \A p \in Paths : at'[p] = User => at[p] = User,
           tx'[k] \in Command(k), tx'[k].pc \in Removing,
           tx'[k].op = tx[k].op, tx'[k].outcome = tx[k].outcome,
           tx'[k].journal = tx[k].journal, tx'[k].saved = tx[k].saved,
           tx'[k].targets \subseteq tx[k].targets, tx'[k].versions \subseteq tx[k].versions,
           rooms'[k] \subseteq rooms[k],
           RemoveOK(k, tx'[k], at', rooms'[k], receipts'[k])
    PROVE  CaskInv'
<1>1. /\ tx'[k].pc # "idle" /\ tx'[k].pc \notin Forward \cup Back
      /\ tx'[k].pc \notin Begun \cup Saving \cup Deploying
      /\ tx'[k].pc \notin {"promote", "put", "apply", "metadata", "stage"}
  BY DEF Forward, Back, Begun, Saving, Deploying, Removing
<1>2. /\ tx[k].op \in {"uninstall", "zap"} /\ tx[k].outcome = "running"
      /\ tx[k].journal = <<>> /\ tx[k].pc # "idle" /\ NoneSaved(k, tx[k])
      /\ \A p \in Paths : at[p] = User => NoClaim(k, tx[k], rooms[k], p)
  BY RemovingFacts
<1>3. Control(k, tx'[k]) /\ NoneSaved(k, tx'[k])
  BY <1>1, <1>2 DEF Control, NoneSaved
<1>4. InstallOK(k, tx'[k], at', rooms'[k], recorded'[k], receipts'[k])
  BY <1>1 DEF InstallOK
<1>5. AnswerOK(k, tx'[k], at', rooms'[k], recorded'[k], receipts'[k])
  BY <1>1 DEF AnswerOK, HonestOK, InstalledOK, RemovedOK
<1>6. \A p \in Paths : at'[p] = User => NoClaim(k, tx'[k], rooms'[k], p)
  BY <1>1, <1>2 DEF NoClaim
<1> QED BY <1>3, <1>4, <1>5, <1>6, StepFits DEF TokenOK

LEMMA RemovalFits ==
    ASSUME CaskInv, NEW k \in Tokens, tx[k].pc \in Removing, DiskInv', OthersDisk(k),
           DOMAIN tx' = Tokens, \A j \in Tokens \ {k} : tx'[j] = tx[j],
           tx'[k] \in Command(k), tx'[k].pc \in Removing,
           tx'[k].op = tx[k].op, tx'[k].outcome = tx[k].outcome,
           tx'[k].journal = tx[k].journal, tx'[k].saved = tx[k].saved,
           tx'[k].targets \subseteq tx[k].targets, tx'[k].versions \subseteq tx[k].versions,
           rooms'[k] \subseteq rooms[k],
           RemoveOK(k, tx'[k], at', rooms'[k], receipts'[k])
    PROVE  CaskInv'
<1>1. OthersSame(k) /\ \A p \in Paths : at'[p] = User => at[p] = User
  BY DEF OthersSame, OthersDisk
<1> QED BY <1>1, SameFits, RemovalShown

LEMMA RemoveTargetFits ==
    ASSUME CaskInv, NEW k \in Tokens, NEW p \in Own(k), RemoveTarget(k, p)
    PROVE  CaskInv'
<1>1. /\ tx[k].pc = "remove" /\ tx[k].pc \in Removing /\ p \in tx[k].targets
      /\ (Fault \/ Fine) /\ UNCHANGED <<dirs, rooms, recorded, receipts>>
  BY DEF RemoveTarget, InTurn, Removing
<1>2. /\ DiskInv /\ DOMAIN tx = Tokens /\ tx[k] \in Command(k) /\ tx[k].pc # "idle"
      /\ RemoveOK(k, tx[k], at, rooms[k], receipts[k])
      /\ \A q \in Paths : at[q] = User => NoClaim(k, tx[k], rooms[k], q)
  BY <1>1, RemovingFacts
<1>3. /\ p \in Paths /\ at \in [Paths -> Files] /\ at[p] \in Files /\ at[p] # User
      /\ Nothing \in Files /\ Nothing # User
  <2>1. p \in Paths
    BY CaskAssumption DEF Own, OwnedBy
  <2> QED BY <1>1, <1>2, <2>1, FileAssumption DEF DiskInv, NoClaim, Files
<1>4. ASSUME NEW f \in Files, f # User, f = Nothing \/ at[p] # Nothing,
             at' = [at EXCEPT ![p] = f]
      PROVE  /\ DiskInv' /\ OthersDisk(k) /\ rooms'[k] = rooms[k] /\ receipts'[k] = receipts[k]
             /\ at'[p] = f /\ \A q \in Paths : q # p => at'[q] = at[q]
  <2>1. /\ DiskInv' /\ at'[p] = f /\ \A q \in Paths : q # p => at'[q] = at[q]
        /\ rooms' = rooms /\ recorded' = recorded /\ receipts' = receipts
    BY <1>1, <1>2, <1>3, <1>4, Counted DEF DiskInv
  <2>2. \A j \in Tokens \ {k} : \A q \in Own(j) : at'[q] = at[q]
    BY <2>1, OwnApart, CaskAssumption DEF Own, OwnedBy
  <2> QED BY <1>4, <2>1, <2>2 DEF OthersDisk
<1>5. ASSUME at' = [at EXCEPT ![p] = Nothing], tx' = [tx EXCEPT ![k].targets = @ \ {p}]
      PROVE  CaskInv'
  <2>1. /\ DiskInv' /\ OthersDisk(k) /\ rooms'[k] = rooms[k] /\ receipts'[k] = receipts[k]
        /\ at'[p] = Nothing /\ \A q \in Paths : q # p => at'[q] = at[q]
    BY <1>3, <1>4, <1>5
  <2>2. /\ tx'[k] \in Command(k) /\ tx'[k].pc = "remove" /\ DOMAIN tx' = Tokens
        /\ tx'[k].op = tx[k].op /\ tx'[k].outcome = tx[k].outcome /\ tx'[k].journal = tx[k].journal
        /\ tx'[k].saved = tx[k].saved /\ tx'[k].targets = tx[k].targets \ {p}
        /\ tx'[k].versions = tx[k].versions /\ tx'[k].before = tx[k].before
        /\ tx'[k].cur = tx[k].cur
        /\ \A j \in Tokens \ {k} : tx'[j] = tx[j]
    BY <1>1, <1>2, <1>5 DEF Command
  <2>3. RemoveOK(k, tx'[k], at', rooms'[k], receipts'[k])
    <3>1. ASSUME NEW o \in tx[k].before.rooms, NEW q \in Planned(k, o)
          PROVE  q \in Paths
      <4>1. q \in Own(k)
        BY <1>2, PlannedIn
      <4> QED BY <4>1, CaskAssumption DEF Own, OwnedBy
    <3> QED BY <1>1, <1>2, <2>1, <2>2, <3>1 DEF RemoveOK
  <2>4. tx'[k].pc \in Removing /\ rooms'[k] \subseteq rooms[k]
        /\ tx'[k].targets \subseteq tx[k].targets /\ tx'[k].versions \subseteq tx[k].versions
    BY <2>1, <2>2 DEF Removing
  <2> QED BY <1>1, <2>1, <2>2, <2>3, <2>4, RemovalFits
<1>6. ASSUME at[p] # Nothing, Return(k, "error"), at' \in {at, [at EXCEPT ![p] = Torn(@)]}
      PROVE  CaskInv'
  <2>1. Torn(at[p]) \in Files /\ Torn(at[p]) # User
    BY <1>3, <1>6, TornFacts
  <2>2. at = [at EXCEPT ![p] = at[p]]
    BY <1>3
  <2>3. PICK f \in Files : f # User /\ at' = [at EXCEPT ![p] = f]
    BY <1>3, <1>6, <2>1, <2>2
  <2>4. DiskInv' /\ OthersDisk(k) /\ rooms'[k] = rooms[k]
    BY <1>4, <1>6, <2>3
  <2> QED BY <1>1, <1>6, <2>4, StoppedFits
<1> QED BY <1>5, <1>6 DEF RemoveTarget

\* A step that leaves the disk alone.
LEMMA DiskAlone ==
    ASSUME CaskInv, NEW k \in Tokens, UNCHANGED disk, Fault \/ Fine
    PROVE  /\ DiskInv' /\ OthersDisk(k)
           /\ at' = at /\ rooms' = rooms /\ recorded' = recorded /\ receipts' = receipts
  BY DiskSame DEF OthersDisk

\* What a version's directives are.
LEMMA AskedFacts ==
    ASSUME NEW k \in Tokens, NEW v \in Versions, NEW op
    PROVE  Asked(k, v, op) \in Seq(Actions(k))
<1>1. ASSUME NEW when \in {"uninstall", "zap"}
      PROVE  Directives[k][v][when] \in Seq(Actions(k))
  <2> DEFINE asked == Directives[k][v][when]
  <2>1. asked \in Seq(Range(asked))
    BY CaskAssumption
  <2>2. Range(asked) \subseteq Actions(k)
    BY DEF Actions
  <2> HIDE DEF asked
  <2>3. asked \in Seq(Actions(k))
    BY <2>1, <2>2
  <2> QED BY <2>3 DEF asked
<1>2. <<>> \in Seq(Actions(k))
  OBVIOUS
<1> QED BY <1>1, <1>2 DEF Asked

LEMMA TakeVersionFits ==
    ASSUME CaskInv, NEW k \in Tokens, NEW v \in Versions, TakeVersion(k, v)
    PROVE  CaskInv'
<1>1. /\ tx[k].pc = "remove" /\ tx[k].pc \in Removing /\ tx[k].targets = {}
      /\ v \in tx[k].versions /\ Fine /\ UNCHANGED disk
  BY DEF TakeVersion, InTurn, Removing
<1>2. /\ DiskInv /\ DOMAIN tx = Tokens /\ tx[k] \in Command(k)
      /\ RemoveOK(k, tx[k], at, rooms[k], receipts[k])
  BY <1>1, RemovingFacts
<1>3. /\ DiskInv' /\ OthersDisk(k)
      /\ at' = at /\ rooms' = rooms /\ recorded' = recorded /\ receipts' = receipts
  BY <1>1, DiskAlone
<1>4. "removeVersion" \in Removing
  BY DEF Removing
<1> DEFINE asked == Asked(k, v, tx[k].op)
<1>5. /\ asked \in Seq(Actions(k))
      /\ tx' = [tx EXCEPT ![k].pc = "removeVersion", ![k].cur = v, ![k].versions = @ \ {v},
                          ![k].rest = asked]
  BY AskedFacts DEF TakeVersion
<1> HIDE DEF asked
<1>6. /\ tx'[k] \in Command(k) /\ tx'[k].pc = "removeVersion" /\ DOMAIN tx' = Tokens
      /\ tx'[k].op = tx[k].op /\ tx'[k].outcome = tx[k].outcome /\ tx'[k].journal = tx[k].journal
      /\ tx'[k].saved = tx[k].saved /\ tx'[k].targets = tx[k].targets
      /\ tx'[k].versions = tx[k].versions \ {v} /\ tx'[k].before = tx[k].before
      /\ tx'[k].cur = v
      /\ \A j \in Tokens \ {k} : tx'[j] = tx[j]
  BY <1>2, <1>4, <1>5 DEF Command
<1>7. RemoveOK(k, tx'[k], at, rooms[k], receipts[k])
  BY <1>1, <1>2, <1>6 DEF RemoveOK
<1> QED BY <1>1, <1>3, <1>4, <1>6, <1>7, RemovalFits

LEMMA TailShorter ==
    ASSUME NEW S, NEW s \in Seq(S), s # <<>>
    PROVE  Tail(s) \in Seq(S) /\ Tail(s) # s
<1>1. Tail(s) \in Seq(S) /\ Len(Tail(s)) = Len(s) - 1 /\ Len(s) \in Nat
  OBVIOUS
<1> DEFINE t == Tail(s)
<1>2. ASSUME t = s
      PROVE  FALSE
  <2>1. Len(t) = Len(s)
    BY <1>2, Zenon
  <2> QED BY <1>1, <2>1
<1> QED BY <1>1, <1>2

\* What is known when a directive is next, and of a command that has run it.
LEMMA DirectedFacts ==
    ASSUME CaskInv, NEW k \in Tokens, NEW kinds, Directed(k, kinds)
    PROVE  /\ tx[k].pc = "removeVersion" /\ tx[k].pc \in Removing
           /\ DiskInv /\ DOMAIN tx = Tokens /\ tx[k] \in Command(k)
           /\ RemoveOK(k, tx[k], at, rooms[k], receipts[k])
           /\ Tail(tx[k].rest) \in Seq(Actions(k)) /\ Tail(tx[k].rest) # tx[k].rest
           /\ tx[k].rest # <<>>
<1>1. tx[k].pc = "removeVersion" /\ tx[k].pc \in Removing /\ tx[k].rest # <<>>
  BY DEF Directed, Removing
<1>2. /\ DiskInv /\ DOMAIN tx = Tokens /\ tx[k] \in Command(k)
      /\ RemoveOK(k, tx[k], at, rooms[k], receipts[k])
  BY <1>1, RemovingFacts
<1>3. tx[k].rest \in Seq(Actions(k))
  BY <1>2 DEF Command
<1> QED BY <1>1, <1>2, <1>3, TailShorter

Ran(k) == [tx[k] EXCEPT !.rest = Tail(@)]

LEMMA RanFits ==
    ASSUME CaskInv, NEW k \in Tokens, NEW kinds, Directed(k, kinds),
           tx'[k] = Ran(k), OthersFit(k), DOMAIN tx' = Tokens, DiskInv',
           UNCHANGED <<rooms, receipts>>,
           \A p \in Paths : at[p] = Nothing => at'[p] = Nothing,
           \A p \in Paths : at'[p] = User => at[p] = User
    PROVE  CaskInv'
<1>1. /\ tx[k].pc = "removeVersion" /\ tx[k].pc \in Removing /\ tx[k] \in Command(k)
      /\ RemoveOK(k, tx[k], at, rooms[k], receipts[k])
      /\ Tail(tx[k].rest) \in Seq(Actions(k))
  BY DirectedFacts
<1>2. /\ tx'[k] \in Command(k) /\ tx'[k].pc = tx[k].pc
      /\ tx'[k].op = tx[k].op /\ tx'[k].outcome = tx[k].outcome
      /\ tx'[k].journal = tx[k].journal /\ tx'[k].saved = tx[k].saved
      /\ tx'[k].targets = tx[k].targets /\ tx'[k].versions = tx[k].versions
      /\ tx'[k].before = tx[k].before /\ tx'[k].cur = tx[k].cur
  BY <1>1 DEF Ran, Command
<1>3. RemoveOK(k, tx'[k], at', rooms'[k], receipts'[k])
  <2>1. ASSUME NEW o \in tx[k].before.rooms, NEW q \in Planned(k, o)
        PROVE  q \in Paths
    <3>1. q \in Own(k)
      BY <1>1, PlannedIn
    <3> QED BY <3>1, CaskAssumption DEF Own, OwnedBy
  <2> QED BY <1>1, <1>2, <2>1 DEF RemoveOK
<1> QED BY <1>1, <1>2, <1>3, RemovalShown

\* What a removal leaves of the files: nothing appears, and no file of the user
\* but where one was.
LEMMA HalfFacts ==
    ASSUME CaskInv, NEW on, NEW gone \in SUBSET Named(on), NEW torn \in SUBSET Named(on),
           at' = Half(gone, torn)
    PROVE  /\ at' \in [Paths -> Files]
           /\ \A p \in Paths : at[p] = Nothing => at'[p] = Nothing
           /\ \A p \in Paths : at'[p] = User => at[p] = User
           /\ \A p \in Paths : at'[p] # at[p] => Names(on, p)
           /\ \A p \in gone : at'[p] = Nothing
<1>1. at \in [Paths -> Files] /\ Nothing \in Files /\ Nothing # User
  BY FileAssumption DEF CaskInv, DiskInv, Files
<1>2. \A p \in gone \cup torn : p \in Paths /\ at[p] # Nothing /\ Names(on, p)
  BY DEF Named
<1>3. \A p \in torn : Torn(at[p]) \in Files /\ (Torn(at[p]) = User <=> at[p] = User)
  BY <1>1, <1>2, TornFacts
<1>4. \A p \in Paths : at'[p] = IF p \in gone THEN Nothing
                                 ELSE IF p \in torn THEN Torn(at[p]) ELSE at[p]
  BY DEF Half
<1>5. at' \in [Paths -> Files]
  <2>1. \A p \in Paths : at'[p] \in Files
    BY <1>1, <1>3, <1>4
  <2> QED BY <2>1 DEF Half
<1> QED BY <1>1, <1>2, <1>3, <1>4, <1>5

\* The other tokens, when a directive took files of theirs.
LEMMA BesideFits ==
    ASSUME CaskInv, NEW k \in Tokens, NEW command, Beside(k, command),
           UNCHANGED <<rooms, recorded, receipts>>,
           \A p \in Paths : at[p] = Nothing => at'[p] = Nothing,
           \A p \in Paths : at'[p] = User => at[p] = User
    PROVE  OthersFit(k) /\ DOMAIN tx' = Tokens /\ tx'[k] = command
<1>1. ASSUME NEW j \in Tokens \ {k}
      PROVE  /\ TokenOK(j, tx'[j], at', rooms'[j], recorded'[j], receipts'[j])
             /\ \A p \in Paths : at'[p] = User => NoClaim(j, tx'[j], rooms'[j], p)
  <2> DEFINE r == \E p \in Own(j) : at'[p] # at[p]
  <2>1. tx'[j] = [tx[j] EXCEPT !.robbed = @ \/ r] /\ r \in BOOLEAN
    BY DEF Beside
  <2>2. ~r => \A p \in Own(j) : at'[p] = at[p]
    OBVIOUS
  <2> HIDE DEF r
  <2>3. /\ TokenOK(j, tx'[j], at', rooms[j], recorded[j], receipts[j])
        /\ \A p \in Paths : at'[p] = User => NoClaim(j, tx'[j], rooms[j], p)
    BY <2>1, <2>2, LosesFits
  <2> QED BY <2>3
<1> QED BY <1>1 DEF OthersFit, Beside

LEMMA RunDeleteFits ==
    ASSUME CaskInv, NEW k \in Tokens, RunDelete(k)
    PROVE  CaskInv'
<1> DEFINE kinds == {"delete", "launchctl"}
           on == Head(tx[k].rest).on
<1>1. Directed(k, kinds) /\ UNCHANGED <<rooms, recorded, receipts>>
  BY DEF RunDelete
<1>2. /\ tx[k].pc \in Removing /\ DiskInv /\ DOMAIN tx = Tokens /\ tx[k] \in Command(k)
      /\ \A p \in Paths : at[p] # Nothing => Dir[p] \in dirs
  BY <1>1, DirectedFacts DEF DiskInv
<1>3. ASSUME Fine, at' = Half(Named(on), {}), dirs' = But(on), Beside(k, Ran(k))
      PROVE  CaskInv'
  <2>1. Named(on) \in SUBSET Named(on) /\ {} \in SUBSET Named(on)
    OBVIOUS
  <2>2. /\ at' \in [Paths -> Files]
        /\ \A p \in Paths : at[p] = Nothing => at'[p] = Nothing
        /\ \A p \in Paths : at'[p] = User => at[p] = User
        /\ \A p \in Named(on) : at'[p] = Nothing
    BY <1>3, <2>1, HalfFacts
  <2>3. DiskInv'
    <3>1. \A p \in Paths : at'[p] # Nothing => Dir[p] \in dirs'
      BY <1>2, <1>3, <2>2 DEF Named, Names, But
    <3>2. dirs' \subseteq Dirs
      BY <1>2, <1>3 DEF DiskInv, But
    <3> QED BY <1>1, <1>2, <1>3, <2>2, <3>1, <3>2, Counted DEF DiskInv
  <2>4. OthersFit(k) /\ DOMAIN tx' = Tokens /\ tx'[k] = Ran(k)
    BY <1>1, <1>3, <2>2, BesideFits
  <2> QED BY <1>1, <2>2, <2>3, <2>4, RanFits
<1>4. ASSUME Fault, Beside(k, Answer(k, "error")), UNCHANGED dirs,
             NEW gone \in SUBSET {p \in Named(on) : on # <<"path", p>>},
             NEW torn \in {{}} \cup {{p} : p \in Named(on)}, at' = Half(gone, torn)
      PROVE  CaskInv'
  <2>1. gone \in SUBSET Named(on) /\ torn \in SUBSET Named(on)
    OBVIOUS
  <2>2. /\ at' \in [Paths -> Files]
        /\ \A p \in Paths : at[p] = Nothing => at'[p] = Nothing
        /\ \A p \in Paths : at'[p] = User => at[p] = User
    BY <1>4, <2>1, HalfFacts
  <2>3. DiskInv'
    BY <1>1, <1>2, <1>4, <2>2, Counted DEF DiskInv
  <2>4. OthersFit(k) /\ DOMAIN tx' = Tokens /\ tx'[k] = Answer(k, "error")
    BY <1>1, <1>4, <2>2, BesideFits
  <2>5. /\ tx'[k] \in Command(k) /\ tx'[k].pc = "idle" /\ tx'[k].outcome = "error"
        /\ tx'[k].op = tx[k].op /\ tx'[k].journal = <<>>
    BY <1>2, <2>4, AnswerFacts
  <2> QED BY <1>1, <1>2, <2>2, <2>3, <2>4, <2>5, StoppedShown
<1> QED BY <1>3, <1>4 DEF RunDelete, Ran

\* A directive that has removed no file.
LEMMA RanAlone ==
    ASSUME CaskInv, NEW k \in Tokens, NEW kinds, Directed(k, kinds),
           tx' = [tx EXCEPT ![k].rest = Tail(@)], DiskInv', OthersDisk(k),
           UNCHANGED <<at, rooms, receipts>>
    PROVE  CaskInv'
<1>1. /\ tx'[k] = Ran(k) /\ DOMAIN tx' = Tokens /\ \A j \in Tokens \ {k} : tx'[j] = tx[j]
  BY DirectedFacts DEF Ran
<1>2. OthersSame(k)
  BY <1>1 DEF OthersSame, OthersDisk
<1> QED BY <1>1, <1>2, SameFits, RanFits

LEMMA RunRmdirFits ==
    ASSUME CaskInv, NEW k \in Tokens, RunRmdir(k)
    PROVE  CaskInv'
<1> DEFINE on == Head(tx[k].rest).on
<1>1. /\ Directed(k, {"rmdir"}) /\ UNCHANGED <<at, rooms, recorded, receipts>>
      /\ Fault \/ Fine
  BY DEF RunRmdir
<1>2. tx[k].pc \in Removing /\ DiskInv /\ OthersDisk(k)
  BY <1>1, DirectedFacts DEF OthersDisk
<1>3. ASSUME Named(on) = {}, dirs' = But(on), tx' = [tx EXCEPT ![k].rest = Tail(@)]
      PROVE  CaskInv'
  <2>1. \A p \in Paths : at[p] # Nothing => Dir[p] \in dirs'
    BY <1>2, <1>3 DEF DiskInv, Named, Names, But
  <2>2. dirs' \subseteq Dirs
    BY <1>2, <1>3 DEF DiskInv, But
  <2>3. DiskInv'
    BY <1>1, <1>2, <2>1, <2>2, Counted DEF DiskInv
  <2> QED BY <1>1, <1>2, <1>3, <2>3, RanAlone
<1>4. ASSUME Return(k, "error"), UNCHANGED dirs
      PROVE  CaskInv'
  <2>1. DiskInv'
    BY <1>1, <1>2, <1>4, Counted DEF DiskInv
  <2> QED BY <1>1, <1>2, <1>4, <2>1, StoppedFits
<1> QED BY <1>3, <1>4 DEF RunRmdir

LEMMA RunPkgutilFits ==
    ASSUME CaskInv, NEW k \in Tokens, RunPkgutil(k)
    PROVE  CaskInv'
<1>1. Directed(k, {"pkgutil"}) /\ UNCHANGED disk /\ (Fault \/ Fine)
  BY DEF RunPkgutil
<1>2. /\ tx[k].pc \in Removing /\ DiskInv' /\ OthersDisk(k)
      /\ at' = at /\ rooms' = rooms /\ recorded' = recorded /\ receipts' = receipts
  BY <1>1, DirectedFacts, DiskAlone
<1>3. ASSUME tx' = [tx EXCEPT ![k].rest = Tail(@)]
      PROVE  CaskInv'
  BY <1>1, <1>2, <1>3, RanAlone
<1>4. ASSUME Return(k, "error")
      PROVE  CaskInv'
  BY <1>2, <1>4, StoppedFits
<1> QED BY <1>3, <1>4 DEF RunPkgutil

LEMMA RemoveVersionFits ==
    ASSUME CaskInv, NEW k \in Tokens, RemoveVersion(k)
    PROVE  CaskInv'
<1>1. /\ tx[k].pc = "removeVersion" /\ tx[k].pc \in Removing
      /\ (Fault \/ Fine) /\ UNCHANGED <<at, dirs, receipts>>
  BY DEF RemoveVersion, Removing
<1>2. /\ DiskInv /\ DOMAIN tx = Tokens /\ tx[k] \in Command(k)
      /\ RemoveOK(k, tx[k], at, rooms[k], receipts[k])
  BY <1>1, RemovingFacts
<1>3. ASSUME rooms' = [rooms EXCEPT ![k] = @ \ {tx[k].cur}],
             recorded' = [recorded EXCEPT ![k] = @ \ {tx[k].cur}], GoTo(k, "removeMetadata")
      PROVE  CaskInv'
  <2>1. /\ DiskInv' /\ OthersDisk(k) /\ rooms'[k] = rooms[k] \ {tx[k].cur}
        /\ at' = at /\ receipts' = receipts
    BY <1>1, <1>2, <1>3, Counted DEF DiskInv, OthersDisk
  <2>2. "removeMetadata" \in Removing
    BY DEF Removing
  <2>3. /\ tx'[k] \in Command(k) /\ tx'[k].pc = "removeMetadata" /\ DOMAIN tx' = Tokens
        /\ tx'[k].op = tx[k].op /\ tx'[k].outcome = tx[k].outcome /\ tx'[k].journal = tx[k].journal
        /\ tx'[k].saved = tx[k].saved /\ tx'[k].targets = tx[k].targets
        /\ tx'[k].versions = tx[k].versions /\ tx'[k].before = tx[k].before
        /\ tx'[k].cur = tx[k].cur
        /\ \A j \in Tokens \ {k} : tx'[j] = tx[j]
    BY <1>2, <1>3, <2>2 DEF GoTo, Command
  <2>4. RemoveOK(k, tx'[k], at, rooms'[k], receipts[k])
    BY <1>1, <1>2, <2>1, <2>3 DEF RemoveOK
  <2> QED BY <1>1, <2>1, <2>2, <2>3, <2>4, RemovalFits
<1>4. ASSUME Return(k, "error"),
             recorded' \in {recorded, [recorded EXCEPT ![k] = @ \ {tx[k].cur}]},
             UNCHANGED rooms
      PROVE  CaskInv'
  <2>1. DiskInv' /\ OthersDisk(k) /\ rooms'[k] = rooms[k]
    BY <1>1, <1>2, <1>4, Counted DEF DiskInv, OthersDisk
  <2> QED BY <1>1, <1>4, <2>1, StoppedFits
<1> QED BY <1>3, <1>4 DEF RemoveVersion

LEMMA RemoveMetadataFits ==
    ASSUME CaskInv, NEW k \in Tokens, RemoveMetadata(k)
    PROVE  CaskInv'
<1>1. /\ tx[k].pc = "removeMetadata" /\ tx[k].pc \in Removing
      /\ (Fault \/ Fine) /\ UNCHANGED <<at, dirs, rooms, recorded>>
  BY DEF RemoveMetadata, Removing
<1>2. /\ DiskInv /\ DOMAIN tx = Tokens /\ tx[k] \in Command(k)
      /\ RemoveOK(k, tx[k], at, rooms[k], receipts[k])
  BY <1>1, RemovingFacts
<1>3. ASSUME receipts' = [receipts EXCEPT ![k] = @ \ {tx[k].cur}], GoTo(k, "remove")
      PROVE  CaskInv'
  <2>1. /\ DiskInv' /\ OthersDisk(k) /\ receipts'[k] = receipts[k] \ {tx[k].cur}
        /\ at' = at /\ rooms' = rooms
    BY <1>1, <1>2, <1>3, Counted DEF DiskInv, OthersDisk
  <2>2. "remove" \in Removing
    BY DEF Removing
  <2>3. /\ tx'[k] \in Command(k) /\ tx'[k].pc = "remove" /\ DOMAIN tx' = Tokens
        /\ tx'[k].op = tx[k].op /\ tx'[k].outcome = tx[k].outcome /\ tx'[k].journal = tx[k].journal
        /\ tx'[k].saved = tx[k].saved /\ tx'[k].targets = tx[k].targets
        /\ tx'[k].versions = tx[k].versions /\ tx'[k].before = tx[k].before
        /\ tx'[k].cur = tx[k].cur
        /\ \A j \in Tokens \ {k} : tx'[j] = tx[j]
    BY <1>2, <1>3, <2>2 DEF GoTo, Command
  <2>4. RemoveOK(k, tx'[k], at, rooms[k], receipts'[k])
    BY <1>1, <1>2, <2>1, <2>3 DEF RemoveOK
  <2> QED BY <1>1, <2>1, <2>2, <2>3, <2>4, RemovalFits
<1>4. ASSUME Return(k, "error"), UNCHANGED receipts
      PROVE  CaskInv'
  <2>1. DiskInv' /\ OthersDisk(k) /\ rooms'[k] = rooms[k]
    BY <1>1, <1>2, <1>4, Counted DEF DiskInv, OthersDisk
  <2> QED BY <1>1, <1>4, <2>1, StoppedFits
<1> QED BY <1>3, <1>4 DEF RemoveMetadata

LEMMA PruneFits ==
    ASSUME CaskInv, NEW k \in Tokens, Prune(k)
    PROVE  CaskInv'
<1>1. /\ tx[k].pc = "remove" /\ tx[k].pc \in Removing /\ tx[k].targets = {}
      /\ tx[k].versions = {} /\ (Fault \/ Fine) /\ UNCHANGED disk
  BY DEF Prune, Removing
<1>2. /\ DiskInv /\ tx[k] \in Command(k) /\ tx[k].op \in {"uninstall", "zap"}
      /\ RemoveOK(k, tx[k], at, rooms[k], receipts[k])
      /\ \A p \in Paths : at[p] = User => \A v \in rooms[k] : p \notin Planned(k, v)
  BY <1>1, RemovingFacts
<1>3. /\ DiskInv' /\ OthersDisk(k)
      /\ at' = at /\ rooms' = rooms /\ recorded' = recorded /\ receipts' = receipts
  BY <1>1, DiskAlone
<1>4. ASSUME Return(k, "ok")
      PROVE  CaskInv'
  <2>1. /\ tx'[k] \in Command(k) /\ tx'[k].pc = "idle" /\ tx'[k].outcome = "ok"
        /\ tx'[k].op = tx[k].op /\ tx'[k].journal = <<>> /\ tx'[k].before = tx[k].before
        /\ DOMAIN tx' = Tokens /\ \A j \in Tokens \ {k} : tx'[j] = tx[j]
    BY <1>2, <1>4, Returned
  <2>2. OthersSame(k)
    BY <1>3, <2>1 DEF OthersSame
  <2>3. RemovedOK(k, tx'[k], at, rooms[k], receipts[k])
    BY <1>1, <1>2, <2>1 DEF RemovedOK, RemoveOK
  <2>4. AnswerOK(k, tx'[k], at', rooms'[k], recorded'[k], receipts'[k])
    BY <1>2, <1>3, <2>1, <2>3 DEF AnswerOK, HonestOK, InstalledOK
  <2> QED BY <1>2, <1>3, <2>1, <2>2, <2>4, AnswerFits
<1>5. ASSUME Return(k, "error")
      PROVE  CaskInv'
  BY <1>1, <1>3, <1>5, StoppedFits
<1> QED BY <1>4, <1>5 DEF Prune

-----------------------------------------------------------------------------
(* Every step. *)

LEMMA KillFits ==
    ASSUME CaskInv, NEW k \in Tokens, Kill(k)
    PROVE  CaskInv'
<1>1. /\ DiskInv' /\ OthersDisk(k)
      /\ at' = at /\ rooms' = rooms /\ recorded' = recorded /\ receipts' = receipts
  BY DiskAlone DEF Kill
<1>2. DOMAIN tx = Tokens /\ \A p \in Paths : at[p] = User => NoClaim(k, tx[k], rooms[k], p)
  BY Known
<1>3. tx'[k] = NoCommand /\ DOMAIN tx' = Tokens /\ \A j \in Tokens \ {k} : tx'[j] = tx[j]
  BY <1>2 DEF Kill
<1>4. NoCommand \in Quiet
  BY DEF NoCommand, Quiet
<1>5. OthersSame(k)
  BY <1>1, <1>3 DEF OthersSame, OthersDisk
<1>6. TokenOK(k, tx'[k], at', rooms'[k], recorded'[k], receipts'[k])
  BY <1>3, <1>4, QuietFits
<1>7. \A p \in Paths : at'[p] = User => NoClaim(k, tx'[k], rooms'[k], p)
  <2>1. \A p \in Paths : at[p] = User => \A v \in rooms[k] : p \notin Planned(k, v)
    BY <1>2 DEF NoClaim
  <2> QED BY <1>1, <1>3, <1>4, <2>1, QuietFits
<1> QED BY <1>1, <1>3, <1>5, <1>6, <1>7, SameFits, StepFits

LEMMA InitInv == Init => CaskInv
<1> SUFFICES ASSUME Init
             PROVE  CaskInv
  OBVIOUS
<1> DEFINE Deployed(inst, p) == {f \in Files : \E k \in Tokens : \E v \in inst[k] :
                                    f = File(k, v, TRUE) /\ p \in Planned(k, v)}
<1>1. PICK inst \in [Tokens -> SUBSET Versions] :
          /\ rooms = inst /\ recorded = inst /\ receipts = inst
          /\ at \in [Paths -> Files]
          /\ \A p \in Paths : at[p] \in (IF Deployed(inst, p) = {} THEN {Nothing, User}
                                                                   ELSE Deployed(inst, p))
          /\ dirs \in SUBSET Dirs
          /\ \A p \in Paths : at[p] # Nothing => Dir[p] \in dirs
          /\ tx = [k \in Tokens |-> NoCommand]
          /\ faults = 0 /\ runs = 0
  BY DEF Init
<1>2. ASSUME NEW p \in Paths, at[p] = User, NEW k \in Tokens, NEW v \in inst[k]
      PROVE  p \notin Planned(k, v)
  <2> SUFFICES ASSUME p \in Planned(k, v)
               PROVE  FALSE
    OBVIOUS
  <2>1. v \in Versions
    BY <1>1
  <2>2. File(k, v, TRUE) \in Files
    BY <2>1, FileIn
  <2>3. File(k, v, TRUE) \in Deployed(inst, p)
    BY <2>2
  <2>4. at[p] \in Deployed(inst, p)
    BY <1>1, <2>3
  <2>5. PICK j \in Tokens : \E w \in inst[j] : at[p] = File(j, w, TRUE)
    BY <2>4
  <2>6. PICK w \in inst[j] : at[p] = File(j, w, TRUE)
    BY <2>5
  <2>7. w \in Versions
    BY <1>1
  <2> QED BY <1>2, <2>6, <2>7, FileIn
<1> HIDE DEF Deployed
<1>3. DiskInv
  <2>1. MaxFaults \in Nat /\ MaxRuns \in Nat
    BY CaskAssumption
  <2> QED BY <1>1, <2>1 DEF DiskInv
<1>4. \A k \in Tokens : tx[k] \in Quiet
  BY <1>1 DEF NoCommand, Quiet
<1>5. \A k \in Tokens : TokenOK(k, tx[k], at, rooms[k], recorded[k], receipts[k])
  BY <1>4, QuietFits
<1>6. \A p \in Paths : at[p] = User => \A k \in Tokens : NoClaim(k, tx[k], rooms[k], p)
  BY <1>1, <1>2, <1>4, QuietFits
<1> QED BY <1>1, <1>3, <1>5, <1>6 DEF CaskInv

LEMMA StepInv == CaskInv /\ [Next]_vars => CaskInv'
<1> SUFFICES ASSUME CaskInv, [Next]_vars
             PROVE  CaskInv'
  OBVIOUS
<1>1. CASE UNCHANGED vars
  BY <1>1 DEF vars, disk, CaskInv, DiskInv
<1>2. ASSUME NEW k \in Tokens, Begin(k)
      PROVE  CaskInv'
  BY <1>2, BeginFits
<1>3. ASSUME NEW k \in Tokens, Kill(k)
      PROVE  CaskInv'
  BY <1>3, KillFits
<1>4. ASSUME NEW k \in Tokens, Step(k)
      PROVE  CaskInv'
  <2>1. \/ Stage(k) \/ Root(k) \/ BackupReceipt(k) \/ WriteRecord(k)
        \/ RunInstaller(k) \/ Prepare(k) \/ Put(k) \/ WriteReceipt(k) \/ Promote(k)
        => CaskInv'
    BY StageFits, RootFits, BackupReceiptFits, WriteRecordFits, RunInstallerFits, PrepareFits,
       PutFits, WriteReceiptFits, PromoteFits
  <2>2. \/ RemoveReceipt(k) \/ UndoIrreversible(k) \/ Unstage(k)
        \/ RunDelete(k) \/ RunRmdir(k) \/ RunPkgutil(k)
        \/ RemoveVersion(k) \/ RemoveMetadata(k) \/ Prune(k)
        => CaskInv'
    BY RemoveReceiptFits, UndoIrreversibleFits, UnstageFits, RunDeleteFits, RunRmdirFits,
       RunPkgutilFits, RemoveVersionFits, RemoveMetadataFits, PruneFits
  <2>3. ASSUME NEW p \in Own(k),
               BackupTarget(k, p) \/ UndoRemove(k, p) \/ UndoRestore(k, p) \/ RemoveTarget(k, p)
        PROVE  CaskInv'
    BY <2>3, BackupTargetFits, UndoRemoveFits, UndoRestoreFits, RemoveTargetFits
  <2>4. ASSUME NEW d \in Dirs, UndoRemoveDir(k, d)
        PROVE  CaskInv'
    BY <2>4, UndoRemoveDirFits
  <2>5. ASSUME NEW v \in Versions,
               \/ BackupVersion(k, v) \/ UndoRestoreVersion(k, v)
               \/ UndoRestoreReceipt(k, v) \/ TakeVersion(k, v)
        PROVE  CaskInv'
    BY <2>5, BackupVersionFits, UndoRestoreVersionFits, UndoRestoreReceiptFits,
       TakeVersionFits
  <2> QED BY <1>4, <2>1, <2>2, <2>3, <2>4, <2>5, Zenon DEF Step
<1> QED BY <1>1, <1>2, <1>3, <1>4 DEF Next

-----------------------------------------------------------------------------
(* The theorems. *)

\* The invariant holds of every state the casks can be in.
THEOREM Invariant == Spec => []CaskInv
  BY InitInv, StepInv, PTL DEF Spec

LEMMA InvTypeOK == CaskInv => TypeOK
<1> SUFFICES ASSUME CaskInv
             PROVE  TypeOK
  OBVIOUS
<1>1. DiskInv
  BY DEF CaskInv
<1>2. ASSUME NEW k \in Tokens
      PROVE  tx[k].left \subseteq Leftovers /\ Range(tx[k].journal) \subseteq Reverses
  <2>1. CASE tx[k] \in Quiet
    <3>1. tx[k].left = {} /\ tx[k].journal = <<>>
      BY <2>1 DEF Quiet
    <3> QED BY <3>1 DEF Range
  <2>2. CASE tx[k] \in Command(k)
    <3>1. tx[k].left \subseteq Leftovers /\ tx[k].journal \in Seq(Reverses)
      BY <2>2 DEF Command
    <3> QED BY <3>1 DEF Range
  <2> QED BY <1>2, <2>1, <2>2, Known
<1> QED BY <1>1, <1>2 DEF TypeOK, DiskInv

\* Types (TypeOK): a journal and a report name only what exists to be named, and
\* nothing is deployed in a directory that is not there.
THEOREM TypeCorrect == Spec => []TypeOK
  BY Invariant, InvTypeOK, PTL

LEMMA InvHonest == CaskInv => HonestFailure
<1> SUFFICES ASSUME CaskInv, NEW k \in Tokens,
                    Answered(k, "install", "error") \/ Answered(k, "install", "incomplete"),
                    ~tx[k].robbed
             PROVE  /\ \A p \in Own(k) : at[p] # tx[k].before.at[p] => <<"path", p>> \in tx[k].left
                    /\ \A v \in Versions :
                          /\ (v \in rooms[k]) # (v \in tx[k].before.rooms)
                                => <<"version", v>> \in tx[k].left
                          /\ (v \in receipts[k]) # (v \in tx[k].before.receipts)
                                => <<"receipt", v>> \in tx[k].left
                    /\ tx[k].staged => <<"staging", "tree">> \in tx[k].left
  BY Zenon DEF HonestFailure
<1>1. HonestOK(k, tx[k], at, rooms[k], receipts[k])
  BY Known DEF AnswerOK
<1> QED BY <1>1 DEF HonestOK, Answered, Working

\* An install that failed names whatever it has not put back or taken away
\* (HonestFailure), however its steps and those of other casks interleaved and
\* whichever of them failed.
THEOREM Honest == Spec => []HonestFailure
  BY Invariant, InvHonest, PTL

LEMMA InvExact == CaskInv => CommittedExactly
<1> SUFFICES ASSUME CaskInv
             PROVE  InstalledExactly /\ RemovedCompletely
  BY DEF CommittedExactly
<1>1. \A k \in Tokens : /\ InstalledOK(k, tx[k], at, rooms[k], recorded[k], receipts[k])
                        /\ RemovedOK(k, tx[k], at, rooms[k], receipts[k])
  BY Known DEF AnswerOK
<1>2. InstalledExactly
  <2> SUFFICES ASSUME NEW k \in Tokens, Answered(k, "install", "ok"), ~tx[k].robbed
               PROVE  /\ rooms[k] = {tx[k].new} /\ RecordsRead(k)
                      /\ tx[k].new \in receipts[k]
                      /\ \A p \in Planned(k, tx[k].new) : at[p] = File(k, tx[k].new, TRUE)
                      /\ \A o \in tx[k].before.rooms \ {tx[k].new} :
                            /\ o \notin receipts[k]
                            /\ \A p \in Planned(k, o) \ Planned(k, tx[k].new) : at[p] = Nothing
    BY Zenon DEF InstalledExactly
  <2> QED BY <1>1 DEF InstalledOK, Answered, Working, RecordsRead
<1>3. RemovedCompletely
  BY <1>1 DEF RemovedCompletely, RemovedOK, Answered, Working
<1> QED BY <1>2, <1>3

\* A command that succeeded did all of it (CommittedExactly): an install leaves the
\* new version and nothing of the old ones, an uninstall nothing.
THEOREM Exact == Spec => []CommittedExactly
  BY Invariant, InvExact, PTL

LEMMA InvNothingLost == CaskInv => NothingLost
<1> SUFFICES ASSUME CaskInv, NEW k \in Tokens, Working(k), tx[k].op = "install",
                    ~tx[k].robbed
             PROVE  /\ \A p \in Own(k) : tx[k].before.at[p] # Nothing =>
                           tx[k].before.at[p] \in {at[p], tx[k].saved.at[p]}
                    /\ tx[k].before.rooms \subseteq rooms[k] \cup tx[k].saved.rooms
                    /\ tx[k].before.receipts \subseteq receipts[k] \cup tx[k].saved.receipts
  BY Zenon DEF NothingLost
<1>1. tx[k].pc # "idle" /\ tx[k] \in Command(k) /\ Control(k, tx[k])
  BY Known DEF Working
<1>2. tx[k].pc \in Forward \cup Back
  BY <1>1 DEF Control, Command
<1>3. /\ FilesOK(k, tx[k], at) /\ RoomsOK(tx[k], rooms[k], recorded[k])
      /\ ReceiptsOK(tx[k], receipts[k])
  BY <1>2, Installing
<1>4. tx[k].before.rooms \subseteq Versions /\ tx[k].before.receipts \subseteq Versions
  BY <1>1 DEF Command, Things
<1> QED BY <1>3, <1>4 DEF FilesOK, FileOK, RoomsOK, ReceiptsOK, ReceiptOK

\* Wherever an install is killed, all it found is where it was or in the backup
\* (NothingLost).
THEOREM Kept == Spec => []NothingLost
  BY Invariant, InvNothingLost, PTL

-----------------------------------------------------------------------------
(* Which step may touch a file. *)

\* What OthersKept says of one step.
Touches ==
    \A p \in Paths : at'[p] # at[p] =>
        \/ \E k \in Tokens : Takes(k, p) /\ tx'[k].rest # tx[k].rest
        \/ /\ at[p] # User
           /\ \E k \in Tokens : \/ p \in Own(k) /\ Working(k)
                               \/ Undoing(k, "RemoveDir", Dir[p])

\* A step that touches one path, its own command's.
LEMMA TouchesOne ==
    ASSUME CaskInv, NEW k \in Tokens, NEW p \in Own(k), NEW f, tx[k].pc # "idle",
           at' = [at EXCEPT ![p] = f] \/ at' = at, at[p] # User
    PROVE  Touches
<1>1. \A q \in Paths : at'[q] # at[q] => q = p
  BY Known DEF DiskInv
<1> QED BY <1>1 DEF Touches, Working

\* What each command may not touch is the user's.
LEMMA Claimed ==
    ASSUME CaskInv, NEW k \in Tokens, NEW p \in Own(k), tx[k].pc # "idle",
           \/ p \in tx[k].targets
           \/ Has(tx[k].journal, "Remove", p) \/ Has(tx[k].journal, "Restore", p)
    PROVE  at[p] # User
<1>1. p \in Paths
  BY CaskAssumption DEF Own, OwnedBy
<1> QED BY <1>1, Known DEF NoClaim

LEMMA StepTouches ==
    ASSUME CaskInv, Next
    PROVE  Touches
<1>1. PICK k \in Tokens : Begin(k) \/ Step(k) \/ Kill(k)
  BY DEF Next
<1>2. CASE at' = at
  BY <1>2 DEF Touches
<1>3. CASE \/ Begin(k) \/ Kill(k)
  <2>1. at' = at
    BY <1>3 DEF Begin, Install, Reinstall, Uninstall, Start, Kill, disk
  <2> QED BY <1>2, <2>1
<1>4. CASE \/ Stage(k) \/ Root(k) \/ BackupReceipt(k) \/ WriteRecord(k)
           \/ RunInstaller(k) \/ Prepare(k) \/ WriteReceipt(k) \/ Promote(k)
           \/ RemoveReceipt(k) \/ UndoIrreversible(k) \/ Unstage(k)
           \/ RunRmdir(k) \/ RunPkgutil(k)
           \/ RemoveVersion(k) \/ RemoveMetadata(k) \/ Prune(k)
  <2>1. at' = at
    BY <1>4 DEF Stage, Root, BackupReceipt, WriteRecord, RunInstaller, Prepare, WriteReceipt,
         Promote, RemoveReceipt, UndoIrreversible, Unstage, RunRmdir, RunPkgutil,
         RemoveVersion, RemoveMetadata, Prune, Fails, disk
  <2> QED BY <1>2, <2>1
<1>5. ASSUME NEW v \in Versions,
             \/ BackupVersion(k, v) \/ UndoRestoreVersion(k, v)
             \/ UndoRestoreReceipt(k, v) \/ TakeVersion(k, v)
      PROVE  Touches
  <2>1. at' = at
    BY <1>5 DEF BackupVersion, UndoRestoreVersion, UndoRestoreReceipt, TakeVersion, Fails, disk
  <2> QED BY <1>2, <2>1
<1>6. CASE Put(k)
  <2> DEFINE p == Head(tx[k].rest).target
  <2>1. tx[k].pc = "put" /\ tx[k].pc \in Forward /\ tx[k].pc \in Deploying
    BY <1>6 DEF Put, Forward, Deploying
  <2>2. /\ tx[k].rest \in Seq(Range(Plan(k, tx[k].new))) /\ tx[k].rest # <<>>
        /\ Head(tx[k].rest).kind # "pkg" /\ Has(tx[k].journal, "Remove", p)
        /\ tx[k].new \in Versions
    BY <2>1, Installing DEF Control, Command
  <2>3. p \in Own(k)
    <3>1. Head(tx[k].rest) \in Range(Plan(k, tx[k].new))
      BY <2>2
    <3> QED BY <2>2, <3>1, PlanFacts
  <2>4. at[p] # User
    BY <2>1, <2>2, <2>3, Claimed
  <2>5. \/ at' = at \/ at' = [at EXCEPT ![p] = File(k, tx[k].new, TRUE)]
        \/ at' = [at EXCEPT ![p] = File(k, tx[k].new, FALSE)]
    BY <1>6 DEF Put
  <2> HIDE DEF p
  <2> QED BY <2>1, <2>3, <2>4, <2>5, TouchesOne
<1>7. ASSUME NEW p \in Own(k),
             BackupTarget(k, p) \/ UndoRemove(k, p) \/ UndoRestore(k, p) \/ RemoveTarget(k, p)
      PROVE  Touches
  <2>1. /\ tx[k].pc # "idle"
        /\ \/ p \in tx[k].targets
           \/ Has(tx[k].journal, "Remove", p) \/ Has(tx[k].journal, "Restore", p)
    <3>1. CASE BackupTarget(k, p) \/ RemoveTarget(k, p)
      BY <3>1 DEF BackupTarget, RemoveTarget, InTurn
    <3>2. CASE UndoRemove(k, p) \/ UndoRestore(k, p)
      BY <3>2, UndoFacts DEF UndoRemove, UndoRestore
    <3> QED BY <1>7, <3>1, <3>2
  <2>2. PICK f : at' = [at EXCEPT ![p] = f] \/ at' = at
    BY <1>7 DEF BackupTarget, UndoRemove, UndoRestore, RemoveTarget, Fails, disk
  <2> QED BY <2>1, <2>2, Claimed, TouchesOne
<1>8. ASSUME NEW d \in Dirs, UndoRemoveDir(k, d)
      PROVE  Touches
  <2>1. PICK gone \in SUBSET In(d) : at' = Without(gone)
    BY <1>8 DEF UndoRemoveDir
  <2>2. Undoing(k, "RemoveDir", d)
    BY <1>8 DEF UndoRemoveDir
  <2>3. /\ \A p \in Paths : at'[p] = IF p \in gone THEN Nothing ELSE at[p]
        /\ \A p \in gone : p \in Paths /\ Dir[p] = d /\ at[p] # Nothing /\ at[p] # User
    BY <2>1, <2>2, GoneFacts
  <2> QED BY <2>2, <2>3 DEF Touches
<1>9. CASE RunDelete(k)
  <2> DEFINE kinds == {"delete", "launchctl"}
             on == Head(tx[k].rest).on
  <2>1. Directed(k, kinds)
    BY <1>9 DEF RunDelete
  <2>2. PICK gone \in SUBSET Named(on), torn \in SUBSET Named(on) : at' = Half(gone, torn)
    BY <1>9, Zenon DEF RunDelete
  <2>3. \A p \in Paths : at'[p] # at[p] => Names(on, p)
    BY <2>2, HalfFacts
  <2>4. tx'[k].rest # tx[k].rest
    <3>1. /\ tx[k] \in Command(k) /\ tx[k].rest # <<>> /\ Tail(tx[k].rest) # tx[k].rest
      BY <2>1, DirectedFacts
    <3>2. tx'[k] = Ran(k) \/ tx'[k] = Answer(k, "error")
      BY <1>9 DEF RunDelete, Beside, Ran
    <3>3. Ran(k).rest = Tail(tx[k].rest) /\ Answer(k, "error").rest = <<>>
      BY <3>1 DEF Ran, Answer, Command
    <3> QED BY <3>1, <3>2, <3>3
  <2> QED BY <2>1, <2>3, <2>4 DEF Touches, Takes
<1> QED BY <1>1, <1>3, <1>4, <1>5, <1>6, <1>7, <1>8, <1>9, Zenon DEF Step

\* No step touches a file of the user but that of a removal directive that names
\* it, and none a file of a cask but one of the command at work on it, such a
\* directive, or the removal of the directory it is in (OthersKept).
THEOREM Others == Spec => OthersKept
<1>1. CaskInv /\ [Next]_vars
      => [\A p \in Paths : at'[p] # at[p] =>
             \/ \E k \in Tokens : Takes(k, p) /\ tx'[k].rest # tx[k].rest
             \/ /\ at[p] # User
                /\ \E k \in Tokens :
                       \/ p \in Own(k) /\ Working(k)
                       \/ Undoing(k, "RemoveDir", Dir[p])]_vars
  BY StepTouches DEF Touches
<1> QED BY <1>1, Invariant, PTL DEF Spec, OthersKept
=============================================================================
