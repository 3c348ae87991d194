----------------------------- MODULE ToolsProofs -----------------------------
(***************************************************************************)
(* What is proved of three parts that work on what they are given and      *)
(* share nothing: the order of versions, the order that expand puts        *)
(* formulae in, and the post-install steps of a formula with the journal   *)
(* that takes them back.                                                   *)
(***************************************************************************)
EXTENDS Versions, Dependencies, InstallSteps, FiniteSetTheorems, SequenceTheorems,
        WellFoundedInduction, TLAPS
-----------------------------------------------------------------------------
(* Versions.  Trichotomy and Transitive hold of all package versions, of any *)
(* length.  The argument compares padded sequences: Canonical(ts, i) is End  *)
(* for every i past the tokens, so the bound of Differ does not matter and   *)
(* two versions relate to a third as lexicographic orders do.                *)

Padded == Tokens \cup {End}

\* The order at a place: the tokens before it are the same.
LessAt(v, w, i) ==
    /\ TokenLess(Canonical(v.tokens, i), Canonical(w.tokens, i))
    /\ \A j \in 1 .. i - 1 : Canonical(v.tokens, j) = Canonical(w.tokens, j)
LexLess(v, w) == \E i \in Nat \ {0} : LessAt(v, w, i)

-----------------------------------------------------------------------------
(* Tokens                                                                  *)

\* The rank of a class is its own.
LEMMA RankInjective ==
    ASSUME NEW c \in Classes \cup {"End"}, NEW d \in Classes \cup {"End"}
    PROVE  /\ Rank[c] \in Nat
           /\ Rank[c] = Rank[d] => c = d
BY DEF Rank, Classes

\* Tokens are ordered totally.
LEMMA TokenOrder ==
    ASSUME NEW a \in Padded, NEW b \in Padded, NEW c \in Padded
    PROVE  /\ a # b => TokenLess(a, b) \/ TokenLess(b, a)
           /\ ~(TokenLess(a, b) /\ TokenLess(b, a))
           /\ ~TokenLess(a, a)
           /\ TokenLess(a, b) /\ TokenLess(b, c) => TokenLess(a, c)
<1> DEFINE C == Classes \cup {"End"}
<1>1. \A x \in Padded : x[1] \in C /\ x[2] \in Nat /\ x = <<x[1], x[2]>>
  BY DEF Padded, Tokens, End
<1>2. /\ Rank[a[1]] \in Nat /\ Rank[b[1]] \in Nat /\ Rank[c[1]] \in Nat
      /\ Rank[a[1]] = Rank[b[1]] => a[1] = b[1]
  BY <1>1, RankInjective
<1>3. a # b => a[1] # b[1] \/ a[2] # b[2]
  BY <1>1
<1>4. a[2] \in Nat /\ b[2] \in Nat /\ c[2] \in Nat
  BY <1>1
<1> QED
  BY <1>2, <1>3, <1>4 DEF TokenLess

\* Normalising keeps the length and makes tokens of tokens.
LEMMA NormalizedType ==
    ASSUME NEW ts \in Seq(Tokens)
    PROVE  Normalized(ts) \in Seq(Tokens) /\ Len(Normalized(ts)) = Len(ts)
<1>1. <<"Beta", 0>> \in Tokens
  BY DEF Tokens, Classes
<1>2. \A i \in 1 .. Len(ts) : Normalized(ts)[i] \in Tokens
  BY <1>1 DEF Normalized
<1>3. DOMAIN Normalized(ts) = 1 .. Len(ts)
  BY DEF Normalized
<1>4. Normalized(ts) = [i \in 1 .. Len(ts) |-> Normalized(ts)[i]]
  BY <1>3 DEF Normalized
<1> QED
  BY <1>2, <1>3, <1>4

\* A canonical token is a token or End, and End past the last token.
LEMMA CanonicalType ==
    ASSUME NEW ts \in Seq(Tokens), NEW i \in Nat
    PROVE  /\ Canonical(ts, i) \in Padded
           /\ i > Len(ts) => Canonical(ts, i) = End
<1> DEFINE ns == Normalized(ts)
<1>1. ns \in Seq(Tokens) /\ Len(ns) = Len(ts)
  BY NormalizedType
<1>2. Canonical(ts, i) \in Padded
  <2>1. CASE Places(ns, i) = {}
    BY <2>1 DEF Canonical, Padded
  <2>2. CASE Places(ns, i) # {}
    <3>1. PICK j \in Places(ns, i) : j = CHOOSE k \in Places(ns, i) : TRUE
      BY <2>2
    <3>2. j \in 1 .. Len(ns)
      BY <3>1 DEF Places
    <3> QED
      BY <1>1, <2>2, <3>1, <3>2 DEF Canonical, Padded
  <2> QED BY <2>1, <2>2
<1>3. ASSUME i > Len(ts), Places(ns, i) # {} PROVE FALSE
  <2>1. PICK j \in 1 .. Len(ns) : Cardinality({k \in 1 .. j : Retained(ns, k)}) = i
    BY <1>3 DEF Places
  <2>2. IsFiniteSet(1 .. j) /\ Cardinality(1 .. j) = j
    BY <1>1, <2>1, FS_Interval
  <2>3. Cardinality({k \in 1 .. j : Retained(ns, k)}) <= Cardinality(1 .. j)
    BY <2>2, FS_Subset
  <2> QED
    BY <1>1, <1>3, <2>1, <2>2, <2>3
<1> QED
  BY <1>2, <1>3 DEF Canonical

-----------------------------------------------------------------------------
(* Versions                                                                *)

\* A set of places that is not empty has a first one.
LEMMA FirstPlace ==
    ASSUME NEW S \in SUBSET Nat, S # {}
    PROVE  \E i \in S : \A j \in S : i <= j
<1>1. PICK i \in S : \A j \in S : ~(<<j, i>> \in OpToRel(<, Nat))
  BY NatLessThanWellFounded, WFMin
<1>2. \A j \in S : ~(j < i)
  BY <1>1 DEF OpToRel
<1> QED
  BY <1>2

\* The bound on the places that are compared does not matter.
LEMMA LexOrder ==
    ASSUME NEW v \in Version, NEW w \in Version
    PROVE  /\ CanonicalLess(v, w) <=> LexLess(v, w)
           /\ Differ(v, w) = {} <=> \A i \in Nat \ {0} : Canonical(v.tokens, i) = Canonical(w.tokens, i)
           /\ Differ(v, w) = {} \/ LexLess(v, w) \/ LexLess(w, v)
<1> DEFINE V(i) == Canonical(v.tokens, i)
           W(i) == Canonical(w.tokens, i)
           m == Len(v.tokens)
           n == Len(w.tokens)
<1>1. v.tokens \in Seq(Tokens) /\ w.tokens \in Seq(Tokens) /\ m \in Nat /\ n \in Nat
  BY DEF Version
<1>0. Differ(v, w) = {i \in 1 .. m + n : V(i) # W(i)}
  BY DEF Differ, Upto
<1> HIDE DEF m, n
<1>2. ASSUME NEW i \in Nat \ {0}
      PROVE  /\ V(i) \in Padded /\ W(i) \in Padded
             /\ V(i) # W(i) => i \in Differ(v, w)
  <2>1. V(i) \in Padded /\ W(i) \in Padded
    BY <1>1, CanonicalType
  <2>2. V(i) # W(i) => ~(i > m /\ i > n)
    BY <1>1, CanonicalType DEF m, n
  <2>3. V(i) # W(i) => i \in 1 .. m + n
    BY <1>1, <2>2
  <2> QED
    BY <1>0, <2>1, <2>3
<1>3. Differ(v, w) \subseteq Nat \ {0}
  <2>1. 1 .. m + n \subseteq Nat \ {0}
    BY <1>1
  <2> QED
    BY <1>0, <2>1
<1>4. ASSUME NEW i \in Differ(v, w), \A j \in Differ(v, w) : i <= j
      PROVE  \A j \in 1 .. i - 1 : V(j) = W(j)
  BY <1>2, <1>3, <1>4
<1>5. CanonicalLess(v, w) => LexLess(v, w)
  BY <1>3, <1>4 DEF CanonicalLess, LexLess, LessAt
<1>6. ASSUME NEW i \in Nat \ {0}, LessAt(v, w, i)
      PROVE  CanonicalLess(v, w)
  <2>1. V(i) # W(i)
    BY <1>2, <1>6, TokenOrder DEF LessAt
  <2>2. i \in Differ(v, w)
    BY <1>2, <2>1
  <2>3. ASSUME NEW j \in Differ(v, w), ~(i <= j)
        PROVE  FALSE
    <3>1. j \in 1 .. i - 1
      BY <1>3, <2>3
    <3>2. V(j) = W(j)
      BY <1>6, <3>1 DEF LessAt
    <3> QED
      BY <2>3, <3>2 DEF Differ
  <2> QED
    BY <1>6, <2>2, <2>3 DEF CanonicalLess, LessAt
<1>7. Differ(v, w) = {} <=> \A i \in Nat \ {0} : V(i) = W(i)
  BY <1>2, <1>3 DEF Differ
<1>8. ASSUME Differ(v, w) # {}
      PROVE  LexLess(v, w) \/ LexLess(w, v)
  <2>1. PICK i \in Differ(v, w) : \A j \in Differ(v, w) : i <= j
    BY <1>3, <1>8, FirstPlace
  <2>2. i \in Nat \ {0} /\ V(i) # W(i)
    BY <1>3 DEF Differ
  <2>3. TokenLess(V(i), W(i)) \/ TokenLess(W(i), V(i))
    BY <1>2, <2>2, TokenOrder
  <2>4. \A j \in 1 .. i - 1 : V(j) = W(j)
    BY <1>4, <2>1
  <2> QED
    BY <2>2, <2>3, <2>4 DEF LexLess, LessAt
<1> QED
  BY <1>5, <1>6, <1>7, <1>8 DEF LexLess

\* The lexicographic order is strict and transitive.
LEMMA LexStrict ==
    ASSUME NEW u \in Version, NEW v \in Version, NEW w \in Version
    PROVE  /\ ~(LexLess(v, w) /\ LexLess(w, v))
           /\ LexLess(v, w) => Differ(v, w) # {}
           /\ LexLess(u, v) /\ LexLess(v, w) => LexLess(u, w)
<1> DEFINE U(i) == Canonical(u.tokens, i)
           V(i) == Canonical(v.tokens, i)
           W(i) == Canonical(w.tokens, i)
<1>1. \A i \in Nat \ {0} : U(i) \in Padded /\ V(i) \in Padded /\ W(i) \in Padded
  BY CanonicalType DEF Version
<1>2. ASSUME NEW i \in Nat \ {0}, NEW k \in Nat \ {0}, LessAt(v, w, i), LessAt(w, v, k)
      PROVE  FALSE
  <2>1. i = k
    <3>1. ~(i < k)
      BY <1>1, <1>2, TokenOrder DEF LessAt
    <3>2. ~(k < i)
      BY <1>1, <1>2, TokenOrder DEF LessAt
    <3> QED BY <3>1, <3>2
  <2> QED
    BY <1>1, <1>2, <2>1, TokenOrder DEF LessAt
<1>3. LexLess(v, w) => Differ(v, w) # {}
  <2>1. ASSUME NEW i \in Nat \ {0}, LessAt(v, w, i) PROVE V(i) # W(i)
    BY <1>1, <2>1, TokenOrder DEF LessAt
  <2> QED
    BY <2>1, LexOrder DEF LexLess
<1>4. ASSUME NEW i \in Nat \ {0}, NEW k \in Nat \ {0}, LessAt(u, v, i), LessAt(v, w, k)
      PROVE  LexLess(u, w)
  <2>1. CASE i < k
    <3>1. V(i) = W(i)
      BY <1>4, <2>1 DEF LessAt
    <3>2. LessAt(u, w, i)
      BY <1>4, <2>1, <3>1 DEF LessAt
    <3> QED BY <3>2 DEF LexLess
  <2>2. CASE k < i
    <3>1. U(k) = V(k)
      BY <1>4, <2>2 DEF LessAt
    <3>2. LessAt(u, w, k)
      BY <1>4, <2>2, <3>1 DEF LessAt
    <3> QED BY <3>2 DEF LexLess
  <2>3. CASE i = k
    <3>1. TokenLess(U(i), W(i))
      BY <1>1, <1>4, <2>3, TokenOrder DEF LessAt
    <3>2. LessAt(u, w, i)
      BY <1>4, <2>3, <3>1 DEF LessAt
    <3> QED BY <3>2 DEF LexLess
  <2> QED BY <2>1, <2>2, <2>3
<1> QED
  BY <1>2, <1>3, <1>4 DEF LexLess

\* VersionSame is symmetric and VersionLess respects it.
LEMMA VersionOrder ==
    ASSUME NEW u \in Version, NEW v \in Version, NEW w \in Version
    PROVE  /\ VersionLess(v, w) \/ VersionSame(v, w) \/ VersionLess(w, v)
           /\ ~(VersionLess(v, w) /\ VersionLess(w, v))
           /\ VersionSame(v, w) => ~VersionLess(v, w) /\ VersionSame(w, v)
           /\ VersionLess(u, v) /\ VersionLess(v, w) => VersionLess(u, w)
           /\ VersionLess(u, v) /\ VersionSame(v, w) => VersionLess(u, w)
           /\ VersionSame(u, v) /\ VersionLess(v, w) => VersionLess(u, w)
           /\ VersionSame(u, v) /\ VersionSame(v, w) => VersionSame(u, w)
<1> DEFINE Eq(x, y) == \A i \in Nat \ {0} : Canonical(x.tokens, i) = Canonical(y.tokens, i)
<1>1. \A x \in Version : x.kind \in {"null", "head", "text"}
  BY DEF Version
<1>2. \A x, y \in Version : /\ CanonicalLess(x, y) <=> LexLess(x, y)
                            /\ Differ(x, y) = {} <=> Eq(x, y)
                            /\ Eq(x, y) \/ LexLess(x, y) \/ LexLess(y, x)
                            /\ ~(LexLess(x, y) /\ LexLess(y, x))
                            /\ LexLess(x, y) => ~Eq(x, y)
  BY LexOrder, LexStrict
<1>3. \A x, y \in Version : Eq(x, y) => Eq(y, x)
  OBVIOUS
<1>4. Eq(u, v) /\ Eq(v, w) => Eq(u, w)
  OBVIOUS
<1>5. LexLess(u, v) /\ LexLess(v, w) => LexLess(u, w)
  BY LexStrict
<1>6. LexLess(u, v) /\ Eq(v, w) => LexLess(u, w)
  <2>1. ASSUME NEW i \in Nat \ {0}, LessAt(u, v, i), Eq(v, w) PROVE LessAt(u, w, i)
    BY <2>1 DEF LessAt
  <2> QED BY <2>1 DEF LexLess
<1>7. Eq(u, v) /\ LexLess(v, w) => LexLess(u, w)
  <2>1. ASSUME NEW i \in Nat \ {0}, LessAt(v, w, i), Eq(u, v) PROVE LessAt(u, w, i)
    BY <2>1 DEF LessAt
  <2> QED BY <2>1 DEF LexLess
<1> HIDE DEF Eq
<1> QED
  BY <1>1, <1>2, <1>3, <1>4, <1>5, <1>6, <1>7 DEF VersionLess, VersionSame

-----------------------------------------------------------------------------

\* Of any two package versions exactly one is less, or they are the same: a sort by
\* PkgVersion (outdated, cleanup) never meets two that cannot be compared.
THEOREM OrderTotal == \A p, q \in PkgVersion : Trichotomy(p, q)
<1> SUFFICES ASSUME NEW p \in PkgVersion, NEW q \in PkgVersion
             PROVE  Trichotomy(p, q)
  OBVIOUS
<1>1. /\ p.version \in Version /\ q.version \in Version
      /\ p.revision \in Nat /\ q.revision \in Nat
  BY DEF PkgVersion
<1> QED
  BY <1>1, VersionOrder DEF Trichotomy, PkgLess, PkgSame

\* The order of package versions is transitive, through equal versions of different
\* texts too: "newer than what is installed" does not depend on the keg compared first.
THEOREM OrderTransitive == \A p, q, r \in PkgVersion : Transitive(p, q, r)
<1> SUFFICES ASSUME NEW p \in PkgVersion, NEW q \in PkgVersion, NEW r \in PkgVersion
             PROVE  Transitive(p, q, r)
  OBVIOUS
<1>1. /\ p.version \in Version /\ q.version \in Version /\ r.version \in Version
      /\ p.revision \in Nat /\ q.revision \in Nat /\ r.revision \in Nat
  BY DEF PkgVersion
<1>2. /\ VersionLess(p.version, q.version) /\ VersionLess(q.version, r.version)
            => VersionLess(p.version, r.version)
      /\ VersionLess(p.version, q.version) /\ VersionSame(q.version, r.version)
            => VersionLess(p.version, r.version)
      /\ VersionSame(p.version, q.version) /\ VersionLess(q.version, r.version)
            => VersionLess(p.version, r.version)
      /\ VersionSame(p.version, q.version) /\ VersionSame(q.version, r.version)
            => VersionSame(p.version, r.version)
  BY <1>1, VersionOrder
<1> QED
  BY <1>1, <1>2 DEF Transitive, PkgLess, PkgSame

-----------------------------------------------------------------------------
(* Dependencies.  For every catalog, list of roots and filter, the order   *)
(* that expand builds has each dependency after its own dependencies, at   *)
(* every step.  A formula is put in the order when its last edge is        *)
(* popped, and nothing then looks at the edges again.  The inductive       *)
(* invariant therefore says where each wanted edge of a formula on the     *)
(* path leads: to a complete formula, to one that is still to be followed, *)
(* or one place up the path.                                               *)

Frames == [name : Formulae, left : Seq(Edges)]
Wants(f, e) == Follows(query, e, f \in Roots(query))
Wanted(f) == Targets(query, f, f \in Roots(query))

DepTyped == /\ query \in Queries
            /\ waiting \in Seq(Formulae)
            /\ path \in Seq(Frames)
            /\ complete \subseteq Formulae
            /\ order \in Seq(Formulae)
            /\ expansion = "running" => \A i \in 1..Len(waiting) : waiting[i] \in DOMAIN query.catalog

\* Where a wanted target of the frame i of the path p leads.
Accounted(p, i, g) ==
    \/ g \in complete
    \/ \E k \in 1..Len(p[i].left) : p[i].left[k].to = g /\ Wants(p[i].name, p[i].left[k])
    \/ i < Len(p) /\ p[i + 1].name = g
PathInv == \A i \in 1..Len(path) : \A g \in Wanted(path[i].name) : Accounted(path, i, g)
OrderInv == /\ \A i \in 1..Len(order) : order[i] \notin Roots(query)
            /\ \A f \in complete \ Roots(query) : \E i \in 1..Len(order) : order[i] = f
PrecedeInv == \A i \in 1..Len(order) : \A g \in Wanted(order[i]) \ Roots(query) :
                 \E j \in 1..(i - 1) : order[j] = g
DepInv == DepTyped /\ PathInv /\ OrderInv /\ PrecedeInv

-----------------------------------------------------------------------------
\* What the last frame of a path looks like once its first edge is popped.
LEMMA PoppedTop ==
    ASSUME DepTyped, Following
    PROVE  /\ Popped \in Seq(Frames) /\ Len(Popped) = Len(path)
           /\ \A i \in 1..Len(path) : Popped[i].name = path[i].name
           /\ \A i \in 1..Len(path) : i # Len(path) => Popped[i].left = path[i].left
           /\ Popped[Len(path)].left = Tail(path[Len(path)].left)
           /\ Len(path) \in Nat \ {0}
           /\ path[Len(path)].left \in Seq(Edges) /\ path[Len(path)].left # <<>>
           /\ NextEdge = path[Len(path)].left[1] /\ NextEdge \in Edges
<1>1. Len(path) \in Nat \ {0} /\ path[Len(path)] \in Frames
  BY DEF DepTyped, Following
<1>2. path[Len(path)].left \in Seq(Edges) /\ path[Len(path)].left # <<>>
  BY <1>1 DEF Following, Top, Frames
<1>3. Tail(path[Len(path)].left) \in Seq(Edges)
  BY <1>2
<1>4. NextEdge = path[Len(path)].left[1] /\ NextEdge \in Edges
  BY <1>2 DEF NextEdge, Top
<1> DEFINE top == [path[Len(path)] EXCEPT !.left = Tail(path[Len(path)].left)]
<1>5. Popped = [path EXCEPT ![Len(path)] = top]
  BY DEF Popped
<1>6. top \in Frames /\ top.name = path[Len(path)].name /\ top.left = Tail(path[Len(path)].left)
  BY <1>1, <1>3 DEF Frames
<1> HIDE DEF top
<1>7. Popped \in Seq(Frames) /\ Len(Popped) = Len(path)
  BY <1>1, <1>5, <1>6 DEF DepTyped
<1>8. \A i \in 1..Len(path) : Popped[i] = IF i = Len(path) THEN top ELSE path[i]
  BY <1>1, <1>5 DEF DepTyped
<1> QED BY <1>1, <1>2, <1>4, <1>6, <1>7, <1>8

\* After the pop every wanted target is accounted for, but the one just popped.
LEMMA PoppedInv ==
    ASSUME DepTyped, PathInv, Following,
           NEW i \in 1..Len(path), NEW g \in Wanted(path[i].name)
    PROVE  \/ Accounted(Popped, i, g)
           \/ i = Len(path) /\ g = NextEdge.to /\ Wants(path[i].name, NextEdge)
<1> USE PoppedTop
<1>1. Accounted(path, i, g)
  BY DEF PathInv
<1>2. CASE i # Len(path)
  <2>1. Popped[i].left = path[i].left /\ Popped[i].name = path[i].name
    BY <1>2
  <2>2. i < Len(path) => Popped[i + 1].name = path[i + 1].name
    OBVIOUS
  <2> QED BY <1>1, <2>1, <2>2 DEF Accounted
<1>3. CASE i = Len(path)
  <2> DEFINE left == path[Len(path)].left
  <2>1. left \in Seq(Edges) /\ left # <<>> /\ Popped[i].left = Tail(left) /\ Popped[i].name = path[i].name
    BY <1>3
  <2>2. CASE g \in complete
    BY <2>2 DEF Accounted
  <2>3. ASSUME NEW k \in 1..Len(left), left[k].to = g, Wants(path[i].name, left[k])
        PROVE  Accounted(Popped, i, g) \/ (g = NextEdge.to /\ Wants(path[i].name, NextEdge))
    <3>1. CASE k = 1
      BY <3>1, <2>3
    <3>2. CASE k # 1
      <4>1. k - 1 \in 1..Len(Tail(left)) /\ Tail(left)[k - 1] = left[k]
        BY <2>1, <3>2
      <4> QED BY <4>1, <2>1, <2>3 DEF Accounted
    <3> QED BY <3>1, <3>2
  <2> QED BY <1>1, <1>3, <2>2, <2>3 DEF Accounted
<1> QED BY <1>2, <1>3

\* A formula that is entered has all its wanted targets still to follow.
LEMMA Entered ==
    ASSUME NEW f, NEW g \in Wanted(f)
    PROVE  \E k \in DOMAIN query.catalog[f] :
               query.catalog[f][k].to = g /\ Wants(f, query.catalog[f][k])
BY DEF Wanted, Targets, Wants

LEMMA DepInitInv == ASSUME DepInit PROVE DepInv
<1>1. query \in Queries /\ query.roots \in Seq(Formulae)
  BY DepAssumption DEF DepInit
<1>2. DepTyped
  BY <1>1 DEF DepInit, DepTyped, Roots
<1> QED BY <1>2 DEF DepInit, DepInv, PathInv, OrderInv, PrecedeInv

-----------------------------------------------------------------------------
LEMMA VisitRootInv == ASSUME DepInv, VisitRoot PROVE DepInv'
<1> DEFINE root == Head(waiting)
<1>1. DepTyped /\ waiting # <<>> /\ path = <<>>
  BY DEF DepInv, VisitRoot
<1>2. root \in Formulae /\ root \in DOMAIN query.catalog /\ query.catalog[root] \in Seq(Edges)
  BY <1>1, DepAssumption DEF DepTyped, VisitRoot
<1>3. UNCHANGED <<query, complete, order>> /\ waiting' = Tail(waiting)
  BY DEF VisitRoot
<1>4. waiting' \in Seq(Formulae) /\ \A i \in 1..Len(waiting') : waiting'[i] = waiting[i + 1] /\ i + 1 \in 1..Len(waiting)
  BY <1>1, <1>3 DEF DepTyped
<1>5. OrderInv' /\ PrecedeInv'
  BY <1>3 DEF DepInv, OrderInv, PrecedeInv, Wanted
<1>6. CASE path' = path /\ (expansion' = "running" => expansion = "running")
  <2>1. DepTyped'
    BY <1>1, <1>3, <1>4, <1>6 DEF DepTyped
  <2>2. PathInv'
    BY <1>1, <1>6 DEF PathInv
  <2> QED BY <1>5, <2>1, <2>2 DEF DepInv
<1>7. CASE path' = Append(path, [name |-> root, left |-> query.catalog[root]]) /\ expansion' = expansion
  <2>1. /\ path' \in Seq(Frames) /\ Len(path') = 1
        /\ path'[1] = [name |-> root, left |-> query.catalog[root]]
    BY <1>1, <1>2, <1>7 DEF Frames
  <2>2. DepTyped'
    BY <1>1, <1>3, <1>4, <1>7, <2>1 DEF DepTyped
  <2>3. ASSUME NEW g \in Wanted(root) PROVE Accounted(path, 1, g)'
    <3>1. PICK k \in DOMAIN query.catalog[root] :
              query.catalog[root][k].to = g /\ Wants(root, query.catalog[root][k])
      BY Entered
    <3>2. k \in 1..Len(path'[1].left) /\ path'[1].left[k] = query.catalog[root][k] /\ path'[1].name = root
      BY <1>2, <2>1
    <3> QED BY <1>3, <3>1, <3>2 DEF Accounted, Wants
  <2>4. PathInv'
    <3> SUFFICES ASSUME NEW i \in 1..Len(path'), NEW g \in Wanted(path[i].name)'
                 PROVE  Accounted(path, i, g)'
      BY DEF PathInv
    <3>1. i = 1 /\ path'[i].name = root
      BY <2>1
    <3>2. g \in Wanted(root)
      BY <1>3, <3>1 DEF Wanted, Targets
    <3> QED BY <2>3, <3>1, <3>2
  <2> QED BY <1>5, <2>2, <2>4 DEF DepInv
<1> QED BY <1>6, <1>7 DEF VisitRoot, Enter

\* Popping an edge that leads to nothing new keeps the invariant.
LEMMA PopInv ==
    ASSUME DepInv, Following, path' = Popped, expansion' = expansion,
           UNCHANGED <<query, waiting, complete, order>>,
           Wants(Top.name, NextEdge) => NextEdge.to \in complete
    PROVE  DepInv'
<1> USE PoppedTop DEF DepInv
<1>1. DepTyped'
  BY DEF DepTyped
<1>2. PathInv'
  <2> SUFFICES ASSUME NEW i \in 1..Len(path), NEW g \in Wanted(path[i].name)
               PROVE  Accounted(Popped, i, g)
    BY DEF PathInv, Accounted, Wanted, Wants
  <2>1. CASE i = Len(path) /\ g = NextEdge.to /\ Wants(path[i].name, NextEdge)
    BY <2>1 DEF Accounted, Top
  <2> QED BY <2>1, PoppedInv
<1>3. OrderInv' /\ PrecedeInv'
  BY DEF OrderInv, PrecedeInv, Wanted
<1> QED BY <1>1, <1>2, <1>3

LEMMA FollowInv == ASSUME DepInv, Follow PROVE DepInv'
<1> DEFINE f == NextEdge.to
<1>1. Following /\ UNCHANGED <<query, waiting, complete, order>>
  BY DEF Follow
<1>2. OrderInv' /\ PrecedeInv'
  BY <1>1 DEF DepInv, OrderInv, PrecedeInv, Wanted
<1>3. CASE path' = path /\ (expansion' = "running" => expansion = "running")
  <2>1. DepTyped'
    BY <1>1, <1>3 DEF DepInv, DepTyped
  <2>2. PathInv'
    BY <1>1, <1>3 DEF DepInv, PathInv, Accounted, Wanted, Wants
  <2> QED BY <1>2, <2>1, <2>2 DEF DepInv
<1>4. CASE path' = Popped /\ expansion' = expansion /\ f \in complete
  BY <1>1, <1>4, PopInv
<1>5. CASE /\ path' = Append(Popped, [name |-> f, left |-> query.catalog[f]])
           /\ expansion' = expansion /\ f \in DOMAIN query.catalog
  <2> USE PoppedTop DEF DepInv
  <2>1. f \in Formulae /\ query.catalog[f] \in Seq(Edges)
    BY <1>1, <1>5, DepAssumption DEF DepTyped, Edges
  <2> DEFINE frame == [name |-> f, left |-> query.catalog[f]]
  <2>2. frame \in Frames
    BY <2>1 DEF Frames
  <2>3. /\ path' \in Seq(Frames) /\ Len(path') = Len(path) + 1
        /\ path'[Len(path) + 1] = frame
        /\ \A i \in 1..Len(path) : path'[i] = Popped[i]
    BY <1>1, <1>5, <2>2
  <2>4. DepTyped'
    BY <1>1, <1>5, <2>3 DEF DepTyped
  <2>5. PathInv'
    <3> SUFFICES ASSUME NEW i \in 1..Len(path'), NEW g \in Wanted(path[i].name)'
                 PROVE  Accounted(path, i, g)'
      BY DEF PathInv, Accounted, Wanted, Wants
    <3>1. CASE i \in 1..Len(path)
      <4>1. path'[i].name = path[i].name /\ g \in Wanted(path[i].name)
        BY <1>1, <2>3, <3>1 DEF Wanted
      <4>2. CASE Accounted(Popped, i, g)
        <5>1. ASSUME i < Len(path) PROVE path'[i + 1].name = Popped[i + 1].name
          <6>1. i + 1 \in 1..Len(path)
            BY <1>1, <3>1, <5>1
          <6> QED BY <2>3, <6>1
        <5>2. path'[i].left = Popped[i].left /\ path'[i].name = Popped[i].name /\ Len(Popped) = Len(path)
          BY <1>1, <2>3, <3>1
        <5>3. i < Len(path) => i < Len(path')
          BY <2>3
        <5> QED BY <1>1, <4>2, <5>1, <5>2, <5>3 DEF Accounted, Wants
      <4>3. CASE i = Len(path) /\ g = f
        BY <1>1, <2>3, <4>3 DEF Accounted
      <4> QED BY <1>1, <3>1, <4>1, <4>2, <4>3, PoppedInv
    <3>2. CASE i = Len(path) + 1
      <4>1. g \in Wanted(f) /\ path'[i] = frame
        BY <1>1, <2>3, <3>2 DEF Wanted
      <4>2. PICK k \in DOMAIN query.catalog[f] :
                query.catalog[f][k].to = g /\ Wants(f, query.catalog[f][k])
        BY <4>1, Entered
      <4>3. k \in 1..Len(path'[i].left) /\ path'[i].left[k] = query.catalog[f][k] /\ path'[i].name = f
        BY <2>1, <4>1
      <4> QED BY <1>1, <4>2, <4>3 DEF Accounted, Wants
    <3> QED BY <1>1, <2>3, <3>1, <3>2
  <2> QED BY <1>2, <2>4, <2>5
<1> QED BY <1>3, <1>4, <1>5 DEF Follow, Enter

LEMMA LeaveInv == ASSUME DepInv, Leave PROVE DepInv'
<1> USE DEF DepInv
<1> DEFINE n == Len(path)
           name == path[n].name
<1>0. path \in Seq(Frames) /\ path # <<>> /\ path[n].left = <<>>
  BY DEF Leave, Top, DepTyped
<1>a. n \in Nat \ {0} /\ path[n] \in Frames
  BY <1>0
<1>1. n \in Nat \ {0} /\ path[n] \in Frames /\ path[n].left = <<>> /\ name \in Formulae
  BY <1>0, <1>a DEF Frames
<1>2. UNCHANGED <<query, waiting, expansion>> /\ complete' = complete \cup {name}
  BY DEF Leave, Top
<1>3. /\ path' \in Seq(Frames) /\ Len(path') = n - 1
      /\ \A i \in 1..(n - 1) : path'[i] = path[i]
  <2>1. path' = SubSeq(path, 1, n - 1)
    BY DEF Leave
  <2>2. 1 \in Int /\ n - 1 \in Int /\ \A i \in 1..(n - 1) : path[i] \in Frames
    BY <1>0, <1>1
  <2> HIDE DEF n
  <2>3. /\ SubSeq(path, 1, n - 1) \in Seq(Frames)
        /\ Len(SubSeq(path, 1, n - 1)) = IF 1 <= n - 1 THEN (n - 1) - 1 + 1 ELSE 0
        /\ \A i \in 1..((n - 1) - 1 + 1) : SubSeq(path, 1, n - 1)[i] = path[1 + i - 1]
    BY <2>2, SubSeqProperties
  <2> QED BY <1>1, <2>1, <2>3
<1>4. PathInv'
  <2> SUFFICES ASSUME NEW i \in 1..(n - 1), NEW g \in Wanted(path[i].name)
               PROVE  Accounted(path, i, g)'
    BY <1>1, <1>2, <1>3 DEF PathInv, Accounted, Wanted, Wants
  <2>1. Accounted(path, i, g)
    BY <1>1 DEF PathInv
  <2>2. CASE i < n /\ path[i + 1].name = g
    <3>1. CASE i + 1 = n
      BY <1>2, <2>2, <3>1 DEF Accounted
    <3>2. CASE i + 1 # n
      BY <1>1, <1>3, <2>2, <3>2 DEF Accounted
    <3> QED BY <3>1, <3>2
  <2> QED BY <1>1, <1>2, <1>3, <2>1, <2>2 DEF Accounted, Wants
<1>5. \A g \in Wanted(name) : g \in complete
  BY <1>1 DEF PathInv, Accounted
<1>6. CASE name \in Roots(query)
  <2>1. order' = order
    BY <1>6 DEF Leave, Top
  <2>2. DepTyped'
    BY <1>1, <1>2, <1>3, <2>1 DEF DepTyped
  <2>3. OrderInv' /\ PrecedeInv'
    BY <1>2, <1>6, <2>1 DEF OrderInv, PrecedeInv, Wanted, Roots
  <2> QED BY <1>4, <2>2, <2>3
<1>7. CASE name \notin Roots(query)
  <2>1. order' = Append(order, name)
    BY <1>7 DEF Leave, Top
  <2>2. /\ order' \in Seq(Formulae) /\ Len(order') = Len(order) + 1 /\ Len(order) \in Nat
        /\ order'[Len(order) + 1] = name
        /\ \A i \in 1..Len(order) : order'[i] = order[i]
    BY <1>1, <2>1 DEF DepTyped
  <2>3. DepTyped'
    BY <1>1, <1>2, <1>3, <2>2 DEF DepTyped
  <2>4. OrderInv'
    <3>1. \A i \in 1..Len(order') : order'[i] \notin Roots(query)
      BY <1>7, <2>2 DEF OrderInv
    <3>2. ASSUME NEW f \in complete' \ Roots(query) PROVE \E i \in 1..Len(order') : order'[i] = f
      <4>1. CASE f = name
        BY <2>2, <4>1
      <4>2. CASE f # name
        <5>1. PICK i \in 1..Len(order) : order[i] = f
          BY <1>2, <3>2, <4>2 DEF OrderInv
        <5> QED BY <2>2, <5>1
      <4> QED BY <4>1, <4>2
    <3> QED BY <1>2, <3>1, <3>2 DEF OrderInv, Roots
  <2>5. PrecedeInv'
    <3> SUFFICES ASSUME NEW i \in 1..Len(order'), NEW g \in (Wanted(order[i]) \ Roots(query))'
                 PROVE  \E j \in 1..(i - 1) : order'[j] = g
      BY DEF PrecedeInv
    <3>0. g \in Wanted(order'[i]) \ Roots(query)
      BY <1>2 DEF Wanted
    <3>1. CASE i \in 1..Len(order)
      <4>1. PICK j \in 1..(i - 1) : order[j] = g
        BY <2>2, <3>0, <3>1 DEF PrecedeInv
      <4> QED BY <2>2, <3>1, <4>1
    <3>2. CASE i = Len(order) + 1
      <4>1. PICK j \in 1..Len(order) : order[j] = g
        BY <1>5, <2>2, <3>0, <3>2 DEF OrderInv
      <4> QED BY <2>2, <3>2, <4>1
    <3> QED BY <2>2, <3>1, <3>2
  <2> QED BY <1>4, <2>3, <2>4, <2>5
<1> QED BY <1>6, <1>7

LEMMA StepInv == ASSUME DepInv, [DepNext]_depVars PROVE DepInv'
<1>1. CASE VisitRoot
  BY <1>1, VisitRootInv
<1>2. CASE Skip
  BY <1>2, PopInv DEF Skip, Wants
<1>3. CASE Follow
  BY <1>3, FollowInv
<1>4. CASE Leave
  BY <1>4, LeaveInv
<1>5. CASE FinishExpansion
  BY <1>5 DEF FinishExpansion, DepInv, DepTyped, PathInv, OrderInv, PrecedeInv, Accounted, Wanted, Wants
<1>6. CASE UNCHANGED depVars
  BY <1>6 DEF depVars, DepInv, DepTyped, PathInv, OrderInv, PrecedeInv, Accounted, Wanted, Wants
<1> QED BY <1>1, <1>2, <1>3, <1>4, <1>5, <1>6 DEF DepNext

\* Whatever the catalog, the roots and the filter, each dependency comes after
\* its own dependencies in the order that `install` pours (dependency.rs,
\* Traversal::visit).
THEOREM OrderSound == DepSpec => []DependenciesPrecede
<1>1. DepInv => DependenciesPrecede
  <2> SUFFICES ASSUME DepInv, NEW i \in DOMAIN order,
                      NEW g \in Targets(query, order[i], FALSE) \ Roots(query)
               PROVE  \E j \in 1..(i - 1) : order[j] = g
    BY DEF DependenciesPrecede
  <2>1. i \in 1..Len(order)
    BY DEF DepInv, DepTyped
  <2>2. order[i] \notin Roots(query)
    BY <2>1 DEF DepInv, OrderInv
  <2>3. (order[i] \in Roots(query)) = FALSE
    BY <2>2
  <2>4. g \in Wanted(order[i])
    BY <2>3 DEF Wanted
  <2> QED BY <2>1, <2>4 DEF DepInv, PrecedeInv
<1> QED BY <1>1, DepInitInv, StepInv, PTL DEF DepSpec

-----------------------------------------------------------------------------
(* Steps.  For every list of steps, every tree and whatever call fails:    *)
(* the inverses noted so far give back the tree the steps found, at every  *)
(* moment between two calls.  The argument is a list of trees T, one       *)
(* for each inverse: T[i] is what the first i inverses were noted for, and *)
(* the i-th inverse makes T[i - 1] of T[i] (Retraces).  A call that       *)
(* changes the tree must therefore add one inverse that takes the change   *)
(* back, or change what the last inverse clears anyway.  Why each call     *)
(* does is a matter of the work before it: WorkFits says, of each item of  *)
(* todo, which inverse or which free path the items before it provide.     *)
(* Sections: paths, trees, renames, sequences, the list T, what takes back *)
(* what, modes, the journal root, the work and what it promises, the       *)
(* actions one by one, rollback, the guards, and the theorem.              *)
-----------------------------------------------------------------------------
(* Paths                                                                   *)

Name == STRING \cup {"journal"} \cup Nat
Path == Seq(Name)
\* Below the prefix, and not in the journal.
Outside(p) == p \in Path /\ p # << >> /\ p[1] # "journal"
Inner(p) == p = << >> \/ Outside(p)
\* In the journal, under number n.
Numbered(p, n) == p \in Path /\ Len(p) > 1 /\ p[1] = "journal" /\ p[2] = n

LEMMA Joined ==
    ASSUME NEW a \in Path, NEW b \in Path
    PROVE  /\ a \o b \in Path /\ Len(a \o b) = Len(a) + Len(b)
           /\ \A i \in 1 .. Len(a) : (a \o b)[i] = a[i]
           /\ \A i \in 1 .. Len(b) : (a \o b)[Len(a) + i] = b[i]
<1>1. /\ a \o b \in Seq(Name) /\ Len(a \o b) = Len(a) + Len(b)
      /\ \A i \in 1 .. Len(a) + Len(b) : (a \o b)[i] = IF i <= Len(a) THEN a[i] ELSE b[i - Len(a)]
  BY ConcatProperties DEF Path
<1>2. Len(a) \in Nat /\ Len(b) \in Nat
  BY DEF Path
<1>3. ASSUME NEW i \in 1 .. Len(b) PROVE (a \o b)[Len(a) + i] = b[i]
  <2> DEFINE k == Len(a) + i
  <2>1. k \in 1 .. Len(a) + Len(b) /\ ~(k <= Len(a)) /\ k - Len(a) = i
    BY <1>2
  <2> HIDE DEF k
  <2>2. (a \o b)[k] = b[k - Len(a)]
    BY <1>1, <2>1
  <2> QED
    BY <2>1, <2>2 DEF k
<1>4. \A i \in 1 .. Len(a) : (a \o b)[i] = a[i]
  BY <1>1, <1>2
<1> QED
  BY <1>1, <1>3, <1>4 DEF Path

LEMMA PrefixIs ==
    ASSUME NEW p \in Path, NEW q \in Path
    PROVE  IsPrefix(p, q) <=> Len(p) <= Len(q) /\ \A i \in 1 .. Len(p) : p[i] = q[i]
<1>1. Len(p) \in Nat /\ Len(q) \in Nat
  BY DEF Path
<1>2. SubSeq(p, 1, Len(p)) = p
  BY DEF Path
<1>3. ASSUME Len(p) <= Len(q)
      PROVE  SubSeq(q, 1, Len(p)) = p <=> \A i \in 1 .. Len(p) : p[i] = q[i]
  <2> DEFINE s == SubSeq(q, 1, Len(p))
  <2>1. s \in Path /\ Len(s) = Len(p) /\ \A i \in 1 .. Len(p) : s[i] = q[i]
    BY <1>1, <1>3 DEF Path
  <2> HIDE DEF s
  <2>2. (\A i \in 1 .. Len(p) : p[i] = q[i]) => s = p
    BY <2>1 DEF Path
  <2>3. s = p => \A i \in 1 .. Len(p) : p[i] = q[i]
    BY <2>1
  <2> QED
    BY <2>2, <2>3 DEF s
<1> QED
  BY <1>1, <1>2, <1>3 DEF IsPrefix

LEMMA SameLength ==
    ASSUME NEW p \in Path, NEW q \in Path, IsPrefix(p, q), Len(p) = Len(q)
    PROVE  p = q
<1>1. \A i \in 1 .. Len(p) : p[i] = q[i]
  BY PrefixIs
<1> QED
  BY <1>1 DEF Path

LEMMA PrefixOrder ==
    ASSUME NEW p \in Path, NEW q \in Path, NEW r \in Path
    PROVE  /\ IsPrefix(p, p) /\ IsPrefix(<< >>, p)
           /\ IsPrefix(p, q) /\ IsPrefix(q, r) => IsPrefix(p, r)
           /\ IsPrefix(p, r) /\ IsPrefix(q, r) => IsPrefix(p, q) \/ IsPrefix(q, p)
           /\ IsPrefix(p, q) /\ IsPrefix(q, p) => p = q
           /\ IsPrefix(p, q) => Len(p) <= Len(q)
           /\ IsPrefix(p, q) /\ p # q => Len(p) < Len(q)
<1>1. Len(p) \in Nat /\ Len(q) \in Nat /\ Len(r) \in Nat /\ << >> \in Path /\ Len(<< >>) = 0
  BY DEF Path
<1>2. IsPrefix(p, p) /\ IsPrefix(<< >>, p)
  BY <1>1, PrefixIs
<1>3. IsPrefix(p, q) /\ IsPrefix(q, r) => IsPrefix(p, r)
  BY <1>1, PrefixIs
<1>4. IsPrefix(p, r) /\ IsPrefix(q, r) => IsPrefix(p, q) \/ IsPrefix(q, p)
  BY <1>1, PrefixIs
<1>5. IsPrefix(p, q) => Len(p) <= Len(q)
  BY PrefixIs
<1>6. IsPrefix(q, p) => Len(q) <= Len(p)
  BY PrefixIs
<1>7. IsPrefix(p, q) /\ p # q => Len(p) < Len(q)
  BY <1>1, <1>5, SameLength
<1> QED
  BY <1>1, <1>2, <1>3, <1>4, <1>5, <1>6, <1>7

LEMMA ParentFacts ==
    ASSUME NEW p \in Path
    PROVE  /\ Parent(p) \in Path /\ IsPrefix(Parent(p), p)
           /\ p # << >> => Len(Parent(p)) = Len(p) - 1 /\ Parent(p) # p
           /\ \A q \in Path : IsPrefix(q, p) /\ q # p => IsPrefix(q, Parent(p))
<1>1. Len(p) \in Nat
  BY DEF Path
<1>2. CASE p = << >>
  <2>1. Parent(p) = << >>
    BY <1>2 DEF Parent
  <2>2. \A q \in Path : IsPrefix(q, p) => Len(q) = 0
    <3>1. \A q \in Path : IsPrefix(q, p) => Len(q) <= Len(p) /\ Len(q) \in Nat
      BY PrefixOrder DEF Path
    <3>2. Len(p) = 0
      BY <1>2
    <3> QED
      BY <3>1, <3>2
  <2> QED
    BY <1>2, <2>1, <2>2, PrefixOrder DEF Path
<1>3. CASE p # << >>
  <2> DEFINE u == Parent(p)
  <2>1. Len(p) > 0
    BY <1>1, <1>3 DEF Path
  <2>2. u \in Path /\ Len(u) = Len(p) - 1 /\ \A i \in 1 .. Len(p) - 1 : u[i] = p[i]
    <3> DEFINE n == Len(p) - 1
    <3>1. n \in Nat /\ \A i \in 1 .. n : p[i] \in Name
      BY <1>1, <2>1 DEF Path
    <3>2. u = SubSeq(p, 1, n)
      BY DEF Parent
    <3> HIDE DEF u, n
    <3>3. u \in Seq(Name) /\ Len(u) = n /\ \A i \in 1 .. n : u[i] = p[1 + i - 1]
      <4>1. 1 \in Int /\ n \in Int
        BY <3>1
      <4>2. /\ u \in Seq(Name) /\ Len(u) = IF 1 <= n THEN n - 1 + 1 ELSE 0
            /\ \A i \in 1 .. n - 1 + 1 : u[i] = p[1 + i - 1]
        BY <3>1, <3>2, <4>1, SubSeqProperties
      <4> QED
        BY <3>1, <4>2
    <3>4. Len(u) = Len(p) - 1 /\ u \in Path
      BY <3>3 DEF Path, n
    <3>5. ASSUME NEW i \in 1 .. Len(p) - 1 PROVE u[i] = p[i]
      BY <1>1, <3>3, <3>5 DEF n
    <3> QED
      BY <3>4, <3>5
  <2> HIDE DEF u
  <2>3. IsPrefix(u, p)
    BY <1>1, <2>2, PrefixIs
  <2>4. ASSUME NEW q \in Path, IsPrefix(q, p), q # p PROVE IsPrefix(q, u)
    <3>1. Len(q) < Len(p) /\ Len(q) \in Nat
      BY <2>4, PrefixOrder DEF Path
    <3>2. \A i \in 1 .. Len(q) : q[i] = p[i]
      BY <2>4, PrefixIs
    <3> QED
      BY <1>1, <2>2, <3>1, <3>2, PrefixIs
  <2>5. u # p
    BY <1>1, <2>2
  <2> QED
    BY <2>2, <2>3, <2>4, <2>5 DEF u
<1> QED
  BY <1>2, <1>3

\* Path r, which is at or below p, when p has become q.
Graft(p, q, r) == q \o SubSeq(r, Len(p) + 1, Len(r))

LEMMA GraftFacts ==
    ASSUME NEW p \in Path, NEW q \in Path, NEW r \in Path, IsPrefix(p, r)
    PROVE  /\ Graft(p, q, r) \in Path /\ IsPrefix(q, Graft(p, q, r))
           /\ Graft(q, p, Graft(p, q, r)) = r
           /\ Len(Graft(p, q, r)) = Len(q) + Len(r) - Len(p)
           /\ Graft(p, q, r) = q <=> r = p
<1> DEFINE s == SubSeq(r, Len(p) + 1, Len(r))
           g == Graft(p, q, r)
<1>1. Len(p) \in Nat /\ Len(q) \in Nat /\ Len(r) \in Nat /\ Len(p) <= Len(r)
  BY PrefixOrder DEF Path
<1>2. s \in Path /\ Len(s) = Len(r) - Len(p) /\ \A i \in 1 .. Len(s) : s[i] = r[Len(p) + i]
  BY <1>1 DEF Path
<1>3. g = q \o s
  BY DEF Graft
<1> HIDE DEF g, s
<1>4. g \in Path /\ Len(g) = Len(q) + Len(s)
      /\ (\A i \in 1 .. Len(q) : g[i] = q[i]) /\ \A i \in 1 .. Len(s) : g[Len(q) + i] = s[i]
  BY <1>2, <1>3, Joined
<1>5. IsPrefix(q, g)
  BY <1>1, <1>2, <1>4, PrefixIs
<1> DEFINE t == SubSeq(g, Len(q) + 1, Len(g))
           h == Graft(q, p, g)
<1>6. t \in Path /\ Len(t) = Len(s) /\ \A i \in 1 .. Len(s) : t[i] = s[i]
  BY <1>1, <1>2, <1>4 DEF Path
<1>7. h = p \o t
  BY DEF Graft
<1> HIDE DEF h, t
<1>8. h \in Path /\ Len(h) = Len(r)
      /\ (\A i \in 1 .. Len(p) : h[i] = p[i]) /\ \A i \in 1 .. Len(t) : h[Len(p) + i] = t[i]
  <2>1. Len(h) = Len(p) + Len(t) /\ h \in Path
        /\ (\A i \in 1 .. Len(p) : h[i] = p[i]) /\ \A i \in 1 .. Len(t) : h[Len(p) + i] = t[i]
    BY <1>6, <1>7, Joined
  <2> QED
    BY <1>1, <1>2, <1>6, <2>1
<1>9. \A i \in 1 .. Len(p) : p[i] = r[i]
  BY PrefixIs
<1>10. ASSUME NEW i \in 1 .. Len(r) PROVE h[i] = r[i]
  <2>1. CASE i <= Len(p)
    BY <1>1, <1>8, <1>9, <2>1
  <2>2. CASE i > Len(p)
    <3> DEFINE j == i - Len(p)
    <3>1. j \in 1 .. Len(s) /\ i = Len(p) + j
      BY <1>1, <1>2, <2>2
    <3> HIDE DEF j
    <3> QED
      BY <1>2, <1>6, <1>8, <3>1
  <2> QED
    BY <1>1, <2>1, <2>2
<1>11. h = r
  BY <1>8, <1>10 DEF Path
<1>12. g = q <=> r = p
  <2>1. r = p => g = q
    <3>1. r = p => Len(g) = Len(q)
      BY <1>1, <1>2, <1>4
    <3> QED
      BY <1>4, <1>5, <3>1, SameLength
  <2>2. g = q => r = p
    <3>1. g = q => Len(r) = Len(p)
      BY <1>1, <1>2, <1>4
    <3> QED
      BY <3>1, SameLength
  <2> QED
    BY <2>1, <2>2
<1>13. Len(g) = Len(q) + Len(r) - Len(p)
  BY <1>1, <1>2, <1>4
<1> QED
  BY <1>4, <1>5, <1>11, <1>12, <1>13 DEF g, h

\* What is above a grafted path, from q on, is grafted too.
LEMMA GraftAbove ==
    ASSUME NEW p \in Path, NEW q \in Path, NEW r \in Path, IsPrefix(p, r), r # p
    PROVE  /\ IsPrefix(p, Parent(r)) /\ r # << >> /\ Graft(p, q, r) # << >>
           /\ Parent(Graft(p, q, r)) = Graft(p, q, Parent(r))
<1> DEFINE u == Parent(r)
           g == Graft(p, q, r)
           h == Graft(p, q, u)
           v == Parent(g)
<1>1. Len(p) \in Nat /\ Len(q) \in Nat /\ Len(r) \in Nat /\ Len(p) < Len(r)
  BY PrefixOrder DEF Path
<1>2. r # << >>
  BY <1>1
<1>3. u \in Path /\ IsPrefix(p, u) /\ Len(u) = Len(r) - 1 /\ u # r
  BY <1>2, ParentFacts
<1>4. g \in Path /\ Len(g) = Len(q) + Len(r) - Len(p)
  BY GraftFacts
<1>5. h \in Path /\ Len(h) = Len(q) + Len(u) - Len(p)
  <2> HIDE DEF u
  <2>1. \A x \in Path : IsPrefix(p, x) => Graft(p, q, x) \in Path /\ Len(Graft(p, q, x)) = Len(q) + Len(x) - Len(p)
    BY GraftFacts
  <2> QED
    BY <1>3, <2>1
<1>6. g # << >>
  BY <1>1, <1>4
<1>7. v \in Path /\ Len(v) = Len(g) - 1 /\ IsPrefix(v, g)
  BY <1>4, <1>6, ParentFacts
<1>8. Len(h) = Len(v)
  BY <1>1, <1>3, <1>4, <1>5, <1>7
<1>9. IsPrefix(h, g)
  <2> DEFINE a == SubSeq(u, Len(p) + 1, Len(u))
             b == SubSeq(r, Len(p) + 1, Len(r))
  <2>1. a \in Path /\ Len(a) = Len(u) - Len(p) /\ \A i \in 1 .. Len(a) : a[i] = u[Len(p) + i]
    BY <1>1, <1>3 DEF Path
  <2>2. b \in Path /\ Len(b) = Len(r) - Len(p) /\ \A i \in 1 .. Len(b) : b[i] = r[Len(p) + i]
    BY <1>1 DEF Path
  <2>3. h = q \o a /\ g = q \o b
    BY DEF Graft
  <2>4. IsPrefix(u, r)
    BY ParentFacts
  <2>5. \A i \in 1 .. Len(u) : u[i] = r[i]
    BY <1>3, <2>4, PrefixIs
  <2> HIDE DEF u
  <2>6. Len(a) = Len(b) - 1 /\ \A i \in 1 .. Len(a) : a[i] = b[i]
    <3>1. Len(a) = Len(b) - 1 /\ Len(b) \in Nat
      BY <1>1, <1>3, <2>1, <2>2
    <3>2. ASSUME NEW i \in 1 .. Len(a) PROVE a[i] = b[i]
      <4> DEFINE k == Len(p) + i
      <4>1. k \in 1 .. Len(u) /\ i \in 1 .. Len(b)
        BY <1>1, <1>3, <2>1, <3>1, <3>2
      <4>2. a[i] = u[k] /\ b[i] = r[k]
        BY <2>1, <2>2, <4>1
      <4> QED
        BY <2>5, <4>1, <4>2
    <3> QED
      BY <3>1, <3>2
  <2> HIDE DEF a, b, h, g
  <2>7. /\ Len(h) = Len(q) + Len(a) /\ Len(g) = Len(q) + Len(b)
        /\ \A i \in 1 .. Len(q) : h[i] = q[i] /\ g[i] = q[i]
        /\ \A i \in 1 .. Len(a) : h[Len(q) + i] = a[i]
        /\ \A i \in 1 .. Len(b) : g[Len(q) + i] = b[i]
    <3>1. /\ Len(h) = Len(q) + Len(a)
          /\ \A i \in 1 .. Len(q) : h[i] = q[i]
          /\ \A i \in 1 .. Len(a) : h[Len(q) + i] = a[i]
      BY <2>1, <2>3, Joined
    <3>2. /\ Len(g) = Len(q) + Len(b)
          /\ \A i \in 1 .. Len(q) : g[i] = q[i]
          /\ \A i \in 1 .. Len(b) : g[Len(q) + i] = b[i]
      BY <2>2, <2>3, Joined
    <3> QED
      BY <3>1, <3>2
  <2>8. Len(a) \in Nat /\ Len(b) \in Nat
    BY <2>1, <2>2 DEF Path
  <2>9. ASSUME NEW i \in 1 .. Len(h) PROVE h[i] = g[i]
    <3>1. CASE i <= Len(q)
      BY <1>1, <2>7, <3>1
    <3>2. CASE i > Len(q)
      <4> DEFINE k == i - Len(q)
      <4>1. k \in 1 .. Len(a) /\ k \in 1 .. Len(b) /\ i = Len(q) + k
        BY <1>1, <2>6, <2>7, <2>8, <3>2
      <4> HIDE DEF k
      <4> QED
        BY <2>6, <2>7, <4>1
    <3> QED
      BY <1>1, <3>1, <3>2
  <2>10. Len(h) <= Len(g)
    BY <1>1, <1>3, <1>4, <1>5
  <2> QED
    BY <1>4, <1>5, <2>9, <2>10, PrefixIs
<1>10. IsPrefix(v, h) \/ IsPrefix(h, v)
  BY <1>4, <1>5, <1>7, <1>9, PrefixOrder
<1>11. v = h
  BY <1>5, <1>7, <1>8, <1>10, SameLength
<1> QED
  BY <1>2, <1>3, <1>6, <1>11

-----------------------------------------------------------------------------
(* Trees                                                                   *)

\* A finite tree: what is above an entry is a directory, the prefix is one.
TreeFits(f) ==
    /\ f = [p \in DOMAIN f |-> f[p]] /\ DOMAIN f \subseteq Path /\ IsFiniteSet(DOMAIN f)
    /\ IsDir(f, << >>)
    /\ \A p \in DOMAIN f : IsEntry(f[p]) /\ (p # << >> => IsDir(f, Parent(p)))

\* What is above something that is there is a directory.
LEMMA TreeClosed ==
    ASSUME NEW f, TreeFits(f), NEW p \in DOMAIN f, NEW q \in Path, IsPrefix(q, p)
    PROVE  q \in DOMAIN f /\ (q # p => IsDir(f, q))
<1> DEFINE R == {r \in DOMAIN f : IsPrefix(q, r)}
           R2 == {r \in R : r # q}
<1>1. R \subseteq Path /\ p \in R /\ \A r \in Path : Len(r) \in Nat
  BY DEF TreeFits, Path
<1>2. ASSUME NEW r \in DOMAIN f, IsPrefix(q, r), r # q
      PROVE  IsDir(f, Parent(r)) /\ Parent(r) \in R /\ Len(Parent(r)) < Len(r)
  <2>1. r \in Path /\ r # << >> /\ Len(r) \in Nat
    <3>1. r \in Path
      BY <1>1, <1>2
    <3>2. IsPrefix(r, q) => r = q
      BY <1>2, <3>1, PrefixOrder
    <3> QED
      BY <1>1, <1>2, <3>1, <3>2, PrefixOrder
  <2>2. IsDir(f, Parent(r))
    BY <1>2, <2>1 DEF TreeFits
  <2>3. Len(Parent(r)) = Len(r) - 1 /\ IsPrefix(q, Parent(r))
    BY <1>2, <2>1, ParentFacts
  <2> QED
    BY <2>1, <2>2, <2>3 DEF IsDir
<1>3. ASSUME NEW Q \in SUBSET R, Q # {} PROVE \E r \in Q : \A s \in Q : Len(r) <= Len(s)
  <2>1. PICK n \in {Len(r) : r \in Q} : \A m \in {Len(r) : r \in Q} : n <= m
    <3>1. {Len(r) : r \in Q} \in SUBSET Nat /\ {Len(r) : r \in Q} # {}
      BY <1>1, <1>3
    <3> QED
      BY <3>1, FirstPlace
  <2> QED
    BY <2>1
<1>4. q \in DOMAIN f
  <2>1. PICK r \in R : \A s \in R : Len(r) <= Len(s)
    BY <1>1, <1>3
  <2>2. CASE r = q
    BY <2>2
  <2>3. CASE r # q
    <3>1. Parent(r) \in R /\ Len(Parent(r)) < Len(r)
      BY <1>2, <2>3
    <3>2. Len(r) <= Len(Parent(r)) /\ Len(r) \in Nat /\ Len(Parent(r)) \in Nat
      BY <1>1, <2>1, <3>1
    <3> QED
      BY <3>1, <3>2
  <2> QED
    BY <2>2, <2>3
<1>5. ASSUME q # p PROVE IsDir(f, q)
  <2>1. R2 \in SUBSET R /\ p \in R2
    BY <1>1, <1>5
  <2>2. PICK r \in R2 : \A s \in R2 : Len(r) <= Len(s)
    BY <1>3, <2>1
  <2>3. IsDir(f, Parent(r)) /\ Parent(r) \in R /\ Len(Parent(r)) < Len(r)
    BY <1>2, <2>2
  <2>4. Parent(r) \notin R2
    <3>1. Len(r) \in Nat /\ Len(Parent(r)) \in Nat
      BY <1>1, <2>2, <2>3
    <3> QED
      BY <2>2, <2>3, <3>1
  <2>5. Parent(r) = q
    BY <2>3, <2>4
  <2> QED
    BY <2>3, <2>5
<1> QED
  BY <1>4, <1>5

LEMMA OutsideFacts ==
    ASSUME NEW p, Outside(p)
    PROVE  /\ p \in Path /\ p # << >> /\ p # Journal /\ Journal \in Path /\ Journal # << >>
           /\ ~IsPrefix(p, Journal) /\ ~IsPrefix(Journal, p)
           /\ Parent(Journal) = << >> /\ Inner(Parent(p)) /\ Parent(p) # Journal
           /\ \A q \in Path : IsPrefix(p, q) => Outside(q)
           /\ \A q \in Path : IsPrefix(q, p) => Inner(q)
<1>1. p \in Path /\ p # << >> /\ p[1] # "journal" /\ Len(p) \in Nat /\ Len(p) > 0
  BY DEF Outside, Path
<1>2. Journal \in Path /\ Journal # << >> /\ Len(Journal) = 1 /\ Journal[1] = "journal"
  <2>1. "journal" \in Name
    BY DEF Name
  <2>2. << "journal" >> \in Seq(Name)
    BY <2>1
  <2> QED
    BY <2>2 DEF Journal, Path
<1>3. \A q \in Path : IsPrefix(p, q) => Outside(q)
  <2>1. ASSUME NEW q \in Path, IsPrefix(p, q) PROVE Outside(q)
    <3>1. Len(p) <= Len(q) /\ p[1] = q[1]
      BY <1>1, <2>1, PrefixIs
    <3>2. q # << >>
      BY <1>1, <3>1
    <3> QED
      BY <1>1, <3>1, <3>2 DEF Outside
  <2> QED
    BY <2>1
<1>4. \A q \in Path : IsPrefix(q, p) => Inner(q)
  <2>1. ASSUME NEW q \in Path, IsPrefix(q, p), q # << >> PROVE Outside(q)
    <3>1. Len(q) \in Nat /\ Len(q) > 0
      BY <2>1 DEF Path
    <3>2. p[1] = q[1]
      BY <1>1, <2>1, <3>1, PrefixIs
    <3> QED
      BY <1>1, <2>1, <3>2 DEF Outside
  <2> QED
    BY <2>1 DEF Inner
<1>5. ~IsPrefix(p, Journal)
  BY <1>2, <1>3 DEF Outside
<1>6. ~IsPrefix(Journal, p)
  BY <1>1, <1>2, PrefixIs
<1>7. Parent(Journal) = << >>
  BY <1>2, SubSeqEmpty DEF Parent
<1>8. Inner(Parent(p)) /\ Parent(p) # Journal
  <2>1. Inner(Parent(p))
    BY <1>1, <1>4, ParentFacts
  <2> QED
    BY <1>2, <2>1 DEF Inner, Outside
<1> QED
  BY <1>1, <1>2, <1>3, <1>4, <1>5, <1>6, <1>7, <1>8 DEF Outside

LEMMA CutFacts ==
    ASSUME NEW f, TreeFits(f), NEW p \in Path
    PROVE  /\ DOMAIN Cut(f, p) = {q \in DOMAIN f : ~IsPrefix(p, q)}
           /\ \A q \in DOMAIN Cut(f, p) : Cut(f, p)[q] = f[q]
           /\ p # << >> => TreeFits(Cut(f, p))
           /\ p \notin DOMAIN f => Cut(f, p) = f
<1> DEFINE g == Cut(f, p)
<1>1. DOMAIN g = {q \in DOMAIN f : ~IsPrefix(p, q)} /\ \A q \in DOMAIN g : g[q] = f[q]
  BY DEF Cut, Subtree
<1>2. ASSUME p # << >> PROVE TreeFits(g)
  <2>1. g = [q \in DOMAIN g |-> g[q]]
    BY DEF Cut
  <2>2. DOMAIN g \subseteq Path /\ IsFiniteSet(DOMAIN g)
    BY <1>1, FS_Subset DEF TreeFits
  <2>3. IsDir(g, << >>)
    <3>1. ~IsPrefix(p, << >>)
      <4>1. << >> \in Path
        BY DEF Path
      <4>2. IsPrefix(<< >>, p)
        BY PrefixOrder
      <4> QED
        BY <1>2, <4>1, <4>2, PrefixOrder
    <3> QED
      BY <1>1, <3>1 DEF TreeFits, IsDir
  <2>4. ASSUME NEW q \in DOMAIN g, q # << >> PROVE IsDir(g, Parent(q))
    <3>1. q \in DOMAIN f /\ q \in Path /\ IsDir(f, Parent(q)) /\ ~IsPrefix(p, q)
      BY <1>1, <2>4 DEF TreeFits
    <3>2. Parent(q) \in Path /\ IsPrefix(Parent(q), q)
      BY <3>1, ParentFacts
    <3>3. ~IsPrefix(p, Parent(q))
      BY <3>1, <3>2, PrefixOrder
    <3> QED
      BY <1>1, <3>1, <3>3 DEF IsDir
  <2>5. \A q \in DOMAIN g : IsEntry(g[q])
    BY <1>1 DEF TreeFits
  <2> HIDE DEF g
  <2> QED
    BY <2>1, <2>2, <2>3, <2>4, <2>5 DEF TreeFits
<1>3. ASSUME p \notin DOMAIN f PROVE g = f
  <2>1. \A q \in DOMAIN f : q \in Path /\ ~IsPrefix(p, q)
    BY <1>3, TreeClosed DEF TreeFits
  <2>2. DOMAIN g = DOMAIN f
    BY <1>1, <2>1
  <2>3. f = [q \in DOMAIN f |-> f[q]]
    BY DEF TreeFits
  <2> QED
    BY <2>2, <2>3 DEF Cut, Subtree
<1> QED
  BY <1>1, <1>2, <1>3

\* An entry that was not there.
LEMMA WithFacts ==
    ASSUME NEW f, TreeFits(f), NEW p \in Path, p \notin DOMAIN f, IsDir(f, Parent(p)), NEW e, IsEntry(e)
    PROVE  /\ TreeFits(With(f, p, e)) /\ Cut(With(f, p, e), p) = f
           /\ DOMAIN With(f, p, e) = DOMAIN f \cup {p}
           /\ \A q \in DOMAIN f : With(f, p, e)[q] = f[q]
           /\ With(f, p, e)[p] = e /\ Children(With(f, p, e), p) = {} /\ p # << >> /\ Parent(p) # p
           /\ Subtree(With(f, p, e), p) = {p}
<1> DEFINE g == With(f, p, e)
<1>1. DOMAIN g = DOMAIN f \cup {p} /\ (\A q \in DOMAIN f : g[q] = f[q]) /\ g[p] = e
  BY DEF With
<1>2. \A q \in DOMAIN f : q \in Path /\ ~IsPrefix(p, q)
  BY TreeClosed DEF TreeFits
<1>3. p # << >> /\ Parent(p) # p
  BY DEF TreeFits, IsDir
<1>4. Subtree(g, p) = {p}
  BY <1>1, <1>2, PrefixOrder DEF Subtree
<1>5. Children(g, p) = {}
  <2>1. Len(p) \in Nat
    BY DEF Path
  <2> QED
    BY <1>4, <2>1 DEF Children
<1>6. Cut(g, p) = f
  <2>1. DOMAIN g \ Subtree(g, p) = DOMAIN f
    BY <1>1, <1>4
  <2>2. f = [q \in DOMAIN f |-> f[q]]
    BY DEF TreeFits
  <2> HIDE DEF g
  <2> QED
    BY <1>1, <2>1, <2>2 DEF Cut
<1>7. TreeFits(g)
  <2>1. g = [q \in DOMAIN g |-> g[q]]
    BY DEF With
  <2>2. DOMAIN g \subseteq Path /\ IsFiniteSet(DOMAIN g)
    BY <1>1, FS_AddElement DEF TreeFits
  <2>3. \A q \in DOMAIN g : IsEntry(g[q])
    BY <1>1 DEF TreeFits
  <2>4. \A q : IsDir(f, q) => IsDir(g, q)
    BY <1>1 DEF IsDir
  <2>5. \A q \in DOMAIN g : q # << >> => IsDir(g, Parent(q))
    BY <1>1, <2>4 DEF TreeFits
  <2>6. IsDir(g, << >>)
    BY <2>4 DEF TreeFits
  <2> HIDE DEF g
  <2> QED
    BY <2>1, <2>2, <2>3, <2>5, <2>6 DEF TreeFits
<1> QED
  BY <1>1, <1>3, <1>4, <1>5, <1>6, <1>7

-----------------------------------------------------------------------------
(* Renames                                                                 *)

LEMMA MovedFacts ==
    ASSUME NEW f, TreeFits(f), NEW p \in Path, NEW q \in Path, CanRename(f, p, q), q \notin DOMAIN f
    PROVE  /\ TreeFits(Moved(f, p, q)) /\ p # << >> /\ q # << >>
           /\ DOMAIN Moved(f, p, q) = {r \in DOMAIN f : ~IsPrefix(p, r)}
                                      \cup {Graft(p, q, r) : r \in Subtree(f, p)}
           /\ \A r \in DOMAIN f : ~IsPrefix(p, r) => Moved(f, p, q)[r] = f[r]
           /\ \A r \in Subtree(f, p) : Moved(f, p, q)[Graft(p, q, r)] = f[r]
<1> DEFINE g == Moved(f, p, q)
           there == {Graft(p, q, r) : r \in Subtree(f, p)}
           rest == {r \in DOMAIN f : ~IsPrefix(p, r)}
<1>1. DOMAIN f \subseteq Path
  BY DEF TreeFits
<1>2. \A r \in DOMAIN f : ~IsPrefix(q, r)
  BY <1>1, TreeClosed
<1>3. \A r \in Subtree(f, p) : /\ r \in DOMAIN f /\ r \in Path /\ IsPrefix(p, r)
                               /\ Graft(p, q, r) \in Path /\ IsPrefix(q, Graft(p, q, r))
                               /\ Graft(q, p, Graft(p, q, r)) = r
  BY <1>1, GraftFacts DEF Subtree
<1>4. rest \cap there = {}
  BY <1>2, <1>3
<1>5. g = [r \in rest \cup there |-> IF r \in there THEN f[Graft(q, p, r)] ELSE Cut(f, p)[r]]
  <2>1. DOMAIN Cut(f, p) = rest
    BY CutFacts
  <2> QED
    BY <2>1 DEF Moved, Graft
<1>6. \A r \in rest : Cut(f, p)[r] = f[r]
  BY CutFacts
<1>7. DOMAIN g = rest \cup there /\ g = [r \in DOMAIN g |-> g[r]]
  BY <1>5
<1>8. \A r \in rest : g[r] = f[r]
  BY <1>4, <1>5, <1>6
<1>9. \A r \in Subtree(f, p) : g[Graft(p, q, r)] = f[r]
  BY <1>3, <1>5
<1> HIDE DEF g, there, rest
<1>10. /\ p \in DOMAIN f /\ Writable(f, Parent(p)) /\ Writable(f, Parent(q)) /\ ~IsPrefix(p, q)
  BY DEF CanRename
<1>11. p # << >> /\ q # << >>
  <2>1. << >> \in DOMAIN f
    BY DEF TreeFits, IsDir
  <2> QED
    BY <1>10, <2>1, PrefixOrder
<1>12. << >> \in Path /\ ~IsPrefix(p, << >>)
  <2>1. << >> \in Path
    BY DEF Path
  <2> QED
    BY <1>11, <2>1, PrefixOrder
<1>13. ASSUME NEW r, IsDir(f, r), ~IsPrefix(p, r) PROVE IsDir(g, r)
  BY <1>7, <1>8, <1>13 DEF IsDir, rest
<1>14. IsDir(g, << >>)
  BY <1>12, <1>13 DEF TreeFits
<1>15. IsFiniteSet(DOMAIN g) /\ DOMAIN g \subseteq Path
  <2>1. IsFiniteSet(rest) /\ IsFiniteSet(Subtree(f, p))
    BY FS_Subset DEF TreeFits, rest, Subtree
  <2>2. IsFiniteSet(there)
    <3> DEFINE S == Subtree(f, p)
               G(r) == Graft(p, q, r)
    <3>1. IsFiniteSet(S)
      BY <2>1
    <3> HIDE DEF S
    <3>2. IsFiniteSet({G(r) : r \in S})
      <4> DEFINE F == [r \in S |-> G(r)]
      <4>1. F \in Surjection(S, {G(r) : r \in S})
        BY DEF Surjection
      <4> QED
        BY <3>1, <4>1, FS_Surjection
    <3> QED
      BY <3>2 DEF there, S
  <2>3. IsFiniteSet(rest \cup there)
    BY <2>1, <2>2, FS_Union
  <2> QED
    BY <1>1, <1>3, <1>7, <2>3 DEF rest, there
<1>16. \A r \in DOMAIN g : IsEntry(g[r])
  <2>1. \A r \in DOMAIN f : IsEntry(f[r])
    BY DEF TreeFits
  <2>2. \A r \in rest : IsEntry(g[r])
    BY <1>8, <2>1 DEF rest
  <2>3. \A r \in Subtree(f, p) : IsEntry(g[Graft(p, q, r)])
    BY <1>3, <1>9, <2>1
  <2> QED
    BY <1>7, <2>2, <2>3 DEF there
<1>17. ASSUME NEW r \in rest, r # << >> PROVE IsDir(g, Parent(r))
  <2>1. r \in Path /\ IsDir(f, Parent(r)) /\ ~IsPrefix(p, r)
    BY <1>1, <1>17 DEF TreeFits, rest
  <2>2. ~IsPrefix(p, Parent(r))
    BY <2>1, ParentFacts, PrefixOrder
  <2> QED
    BY <1>13, <2>1, <2>2
<1>18. ASSUME NEW r \in Subtree(f, p) PROVE IsDir(g, Parent(Graft(p, q, r)))
  <2>1. r \in Path /\ IsPrefix(p, r) /\ r \in DOMAIN f
    BY <1>3
  <2>2. CASE r = p
    <3>1. Graft(p, q, r) = q
      BY <2>2, GraftFacts, PrefixOrder
    <3>2. IsDir(f, Parent(q))
      BY <1>10 DEF Writable
    <3>3. ~IsPrefix(p, Parent(q))
      BY <1>10, ParentFacts, PrefixOrder
    <3> QED
      BY <1>13, <3>1, <3>2, <3>3
  <2>3. CASE r # p
    <3> DEFINE u == Parent(r)
    <3>1. IsPrefix(p, u) /\ r # << >> /\ Parent(Graft(p, q, r)) = Graft(p, q, u)
      BY <2>1, <2>3, GraftAbove
    <3>2. IsDir(f, u)
      BY <2>1, <3>1 DEF TreeFits
    <3>3. u \in Subtree(f, p)
      BY <3>1, <3>2 DEF Subtree, IsDir
    <3>4. Graft(p, q, u) \in DOMAIN g /\ g[Graft(p, q, u)] = f[u]
      BY <1>7, <1>9, <3>3 DEF there
    <3> QED
      BY <3>1, <3>2, <3>4 DEF IsDir
  <2> QED
    BY <2>2, <2>3
<1>19. \A r \in DOMAIN g : r # << >> => IsDir(g, Parent(r))
  BY <1>7, <1>17, <1>18 DEF there
<1>20. TreeFits(g)
  BY <1>7, <1>14, <1>15, <1>16, <1>19 DEF TreeFits
<1> QED
  BY <1>7, <1>8, <1>9, <1>11, <1>20 DEF g, rest, there

\* A rename to a free place can be taken back, which restores the tree.
LEMMA MovedBack ==
    ASSUME NEW f, TreeFits(f), NEW p \in Path, NEW q \in Path, CanRename(f, p, q), q \notin DOMAIN f
    PROVE  LET g == Moved(f, p, q) IN
           /\ q \in DOMAIN g /\ p \notin DOMAIN g
           /\ CanRename(g, q, p) /\ Moved(g, q, p) = f
<1> DEFINE g == Moved(f, p, q)
           h == Moved(g, q, p)
<1>1. /\ TreeFits(g) /\ p # << >> /\ q # << >>
      /\ DOMAIN g = {r \in DOMAIN f : ~IsPrefix(p, r)} \cup {Graft(p, q, r) : r \in Subtree(f, p)}
      /\ \A r \in DOMAIN f : ~IsPrefix(p, r) => g[r] = f[r]
      /\ \A r \in Subtree(f, p) : g[Graft(p, q, r)] = f[r]
  BY MovedFacts
<1> HIDE DEF g
<1>2. /\ p \in DOMAIN f /\ Writable(f, Parent(p)) /\ Writable(f, Parent(q)) /\ ~IsPrefix(p, q)
      /\ IsDir(f, p) => f[p].mode = "rw"
  BY DEF CanRename
<1>3. DOMAIN f \subseteq Path /\ \A r \in DOMAIN f : ~IsPrefix(q, r)
  <2>1. DOMAIN f \subseteq Path
    BY DEF TreeFits
  <2> QED
    BY <2>1, TreeClosed
<1>4. \A r \in Subtree(f, p) : /\ r \in DOMAIN f /\ r \in Path /\ IsPrefix(p, r)
                               /\ Graft(p, q, r) \in Path /\ IsPrefix(q, Graft(p, q, r))
                               /\ Graft(q, p, Graft(p, q, r)) = r
  BY <1>3, GraftFacts DEF Subtree
<1>5. p \in Subtree(f, p) /\ Graft(p, q, p) = q
  BY <1>2, PrefixOrder, GraftFacts DEF Subtree
<1>6. q \in DOMAIN g /\ g[q] = f[p]
  BY <1>1, <1>5
<1>7. ~IsPrefix(q, p)
  BY <1>2, <1>3
<1>8. p \notin DOMAIN g
  <2>1. IsPrefix(p, p)
    BY PrefixOrder
  <2>2. \A r \in Subtree(f, p) : Graft(p, q, r) # p
    BY <1>4, <1>7
  <2> QED
    BY <1>1, <2>1, <2>2
<1>9. \A r \in Path : r \in DOMAIN f /\ ~IsPrefix(p, r) <=> r \in DOMAIN g /\ ~IsPrefix(q, r)
  BY <1>1, <1>3, <1>4
<1>10. ASSUME NEW r, Writable(f, r), ~IsPrefix(p, r) PROVE Writable(g, r)
  BY <1>1, <1>10 DEF Writable, IsDir
<1>11. Writable(g, Parent(p)) /\ Writable(g, Parent(q))
  <2>1. ~IsPrefix(p, Parent(p))
    BY <1>1, ParentFacts, PrefixOrder
  <2>2. ~IsPrefix(p, Parent(q))
    BY <1>2, ParentFacts, PrefixOrder
  <2> QED
    BY <1>2, <1>10, <2>1, <2>2
<1>12. CanRename(g, q, p)
  BY <1>2, <1>6, <1>7, <1>8, <1>11 DEF CanRename, IsDir
<1>13. /\ DOMAIN h = {r \in DOMAIN g : ~IsPrefix(q, r)} \cup {Graft(q, p, r) : r \in Subtree(g, q)}
       /\ h = [r \in DOMAIN h |-> h[r]]
       /\ \A r \in DOMAIN g : ~IsPrefix(q, r) => h[r] = g[r]
       /\ \A r \in Subtree(g, q) : h[Graft(q, p, r)] = g[r]
  <2>2. /\ TreeFits(h) /\ DOMAIN h = {r \in DOMAIN g : ~IsPrefix(q, r)} \cup {Graft(q, p, r) : r \in Subtree(g, q)}
        /\ \A r \in DOMAIN g : ~IsPrefix(q, r) => h[r] = g[r]
        /\ \A r \in Subtree(g, q) : h[Graft(q, p, r)] = g[r]
    BY <1>1, <1>8, <1>12, MovedFacts, Zenon
  <2> QED
    BY <2>2 DEF TreeFits
<1> HIDE DEF h
<1>14. \A r \in Subtree(f, p) : Graft(p, q, r) \in Subtree(g, q)
  BY <1>1, <1>4 DEF Subtree
<1>15. \A s \in Subtree(g, q) : \E r \in Subtree(f, p) : s = Graft(p, q, r)
  <2>1. ASSUME NEW s \in Subtree(g, q) PROVE \E r \in Subtree(f, p) : s = Graft(p, q, r)
    <3>1. s \in DOMAIN g /\ IsPrefix(q, s)
      BY DEF Subtree
    <3> QED
      BY <1>1, <1>3, <3>1
  <2> QED
    BY <2>1
<1>16. ASSUME NEW r \in DOMAIN f PROVE r \in DOMAIN h /\ h[r] = f[r]
  <2>1. CASE IsPrefix(p, r)
    <3>1. r \in Subtree(f, p)
      BY <2>1 DEF Subtree
    <3> DEFINE s == Graft(p, q, r)
    <3>2. s \in Subtree(g, q) /\ Graft(q, p, s) = r /\ g[s] = f[r]
      BY <1>1, <1>4, <1>14, <3>1
    <3> HIDE DEF s
    <3> QED
      BY <1>13, <3>2
  <2>2. CASE ~IsPrefix(p, r)
    BY <1>1, <1>3, <1>9, <1>13, <2>2
  <2> QED
    BY <2>1, <2>2
<1>17. ASSUME NEW r \in DOMAIN h PROVE r \in DOMAIN f
  <2>1. CASE r \in DOMAIN g /\ ~IsPrefix(q, r)
    BY <1>1, <1>9, <2>1 DEF TreeFits
  <2>2. ASSUME NEW s \in Subtree(g, q), r = Graft(q, p, s) PROVE r \in DOMAIN f
    <3>1. PICK t \in Subtree(f, p) : s = Graft(p, q, t)
      BY <1>15
    <3> QED
      BY <1>4, <2>2, <3>1
  <2> QED
    BY <1>13, <1>17, <2>1, <2>2
<1>18. h = f
  <2>1. f = [r \in DOMAIN f |-> f[r]]
    BY DEF TreeFits
  <2>2. DOMAIN h = DOMAIN f
    BY <1>16, <1>17
  <2> QED
    BY <1>13, <1>16, <2>1, <2>2
<1> QED
  BY <1>6, <1>8, <1>12, <1>18 DEF g, h

-----------------------------------------------------------------------------
(* Sequences of anything                                                   *)

\* A sequence, of whatever elements.
IsList(a) == \E S : a \in Seq(S)

LEMMA ListIs ==
    ASSUME NEW a, IsList(a)
    PROVE  /\ Len(a) \in Nat /\ DOMAIN a = 1 .. Len(a) /\ a = [i \in 1 .. Len(a) |-> a[i]]
           /\ a = << >> <=> Len(a) = 0
<1>1. PICK S : a \in Seq(S)
  BY DEF IsList
<1> QED
  BY <1>1

LEMMA ListSame ==
    ASSUME NEW a, NEW b, IsList(a), IsList(b), Len(a) = Len(b), \A i \in 1 .. Len(a) : a[i] = b[i]
    PROVE  a = b
<1>1. /\ Len(a) \in Nat /\ a = [i \in 1 .. Len(a) |-> a[i]]
      /\ Len(b) \in Nat /\ b = [i \in 1 .. Len(b) |-> b[i]]
  BY ListIs
<1> QED
  BY <1>1

LEMMA ListMade ==
    ASSUME NEW n \in Nat, NEW a, a = [i \in 1 .. n |-> a[i]]
    PROVE  IsList(a) /\ Len(a) = n
<1> DEFINE S == {a[i] : i \in 1 .. n}
<1>1. a \in Seq(S) /\ Len(a) = n
  OBVIOUS
<1> QED
  BY <1>1 DEF IsList

LEMMA ListFew ==
    ASSUME NEW x, NEW y, NEW z
    PROVE  /\ IsList(<< >>) /\ Len(<< >>) = 0
           /\ IsList(<< x >>) /\ Len(<< x >>) = 1 /\ << x >>[1] = x
           /\ IsList(<< x, y >>) /\ Len(<< x, y >>) = 2 /\ << x, y >>[1] = x /\ << x, y >>[2] = y
           /\ IsList(<< x, y, z >>) /\ Len(<< x, y, z >>) = 3
           /\ << x, y, z >>[1] = x /\ << x, y, z >>[2] = y /\ << x, y, z >>[3] = z
<1>1. << >> \in Seq({x}) /\ << x >> \in Seq({x}) /\ << x, y >> \in Seq({x, y})
  OBVIOUS
<1>2. << x, y, z >> \in Seq({x, y, z})
  OBVIOUS
<1> QED
  BY <1>1, <1>2 DEF IsList

LEMMA ListJoined ==
    ASSUME NEW a, NEW b, IsList(a), IsList(b)
    PROVE  /\ IsList(a \o b) /\ Len(a \o b) = Len(a) + Len(b)
           /\ \A i \in 1 .. Len(a) : (a \o b)[i] = a[i]
           /\ \A i \in 1 .. Len(b) : (a \o b)[Len(a) + i] = b[i]
           /\ \A i \in 1 .. Len(a) + Len(b) : i > Len(a) => (a \o b)[i] = b[i - Len(a)]
<1>1. PICK S : a \in Seq(S)
  BY DEF IsList
<1>2. PICK R : b \in Seq(R)
  BY DEF IsList
<1> DEFINE Q == S \cup R
<1>3. a \in Seq(Q) /\ b \in Seq(Q) /\ Len(a) \in Nat /\ Len(b) \in Nat
  <2>1. \A i \in 1 .. Len(a) : a[i] \in Q
    BY <1>1
  <2>2. \A i \in 1 .. Len(b) : b[i] \in Q
    BY <1>2
  <2>3. Len(a) \in Nat /\ Len(b) \in Nat /\ a = [i \in 1 .. Len(a) |-> a[i]] /\ b = [i \in 1 .. Len(b) |-> b[i]]
    BY ListIs
  <2> HIDE DEF Q
  <2> QED
    BY <2>1, <2>2, <2>3
<1> HIDE DEF Q
<1> DEFINE c == a \o b
<1>4. /\ c \in Seq(Q) /\ Len(c) = Len(a) + Len(b)
      /\ \A i \in 1 .. Len(a) + Len(b) : c[i] = IF i <= Len(a) THEN a[i] ELSE b[i - Len(a)]
  BY <1>3, ConcatProperties
<1> HIDE DEF c
<1>5. \A i \in 1 .. Len(a) : c[i] = a[i]
  BY <1>3, <1>4
<1>6. \A i \in 1 .. Len(a) + Len(b) : i > Len(a) => c[i] = b[i - Len(a)]
  BY <1>3, <1>4
<1>7. ASSUME NEW i \in 1 .. Len(b) PROVE c[Len(a) + i] = b[i]
  <2> DEFINE k == Len(a) + i
  <2>1. k \in 1 .. Len(a) + Len(b) /\ k > Len(a) /\ k - Len(a) = i
    BY <1>3
  <2> HIDE DEF k
  <2>2. c[k] = b[k - Len(a)]
    BY <1>6, <2>1
  <2> QED
    BY <2>1, <2>2 DEF k
<1> QED
  BY <1>4, <1>5, <1>6, <1>7 DEF c, IsList

LEMMA ListMore ==
    ASSUME NEW a, IsList(a), NEW x
    PROVE  /\ IsList(Append(a, x)) /\ Len(Append(a, x)) = Len(a) + 1 /\ Append(a, x) # << >>
           /\ \A i \in 1 .. Len(a) : Append(a, x)[i] = a[i]
           /\ Append(a, x)[Len(a) + 1] = x /\ Last(Append(a, x)) = x
           /\ a \o << x >> = Append(a, x)
<1>1. PICK S : a \in Seq(S)
  BY DEF IsList
<1> DEFINE Q == S \cup {x}
<1>2. a \in Seq(Q) /\ x \in Q /\ Len(a) \in Nat
  <2>1. \A i \in 1 .. Len(a) : a[i] \in Q
    BY <1>1
  <2>2. Len(a) \in Nat /\ a = [i \in 1 .. Len(a) |-> a[i]]
    BY ListIs
  <2> QED
    BY <2>1, <2>2
<1> HIDE DEF Q
<1> DEFINE c == Append(a, x)
<1>3. /\ c \in Seq(Q) /\ Len(c) = Len(a) + 1 /\ (\A i \in 1 .. Len(a) : c[i] = a[i]) /\ c[Len(a) + 1] = x
  BY <1>2, AppendProperties
<1> HIDE DEF c
<1>4. IsList(c) /\ c # << >> /\ Last(c) = x
  BY <1>2, <1>3 DEF IsList, Last
<1>5. a \o << x >> = c
  <2>1. IsList(<< x >>) /\ Len(<< x >>) = 1 /\ << x >>[1] = x
    BY ListFew
  <2> DEFINE d == a \o << x >>
  <2>2. IsList(d) /\ Len(d) = Len(a) + 1
        /\ (\A i \in 1 .. Len(a) : d[i] = a[i]) /\ \A i \in 1 .. 1 : d[Len(a) + i] = << x >>[i]
    BY <2>1, ListJoined
  <2> HIDE DEF d
  <2>3. d[Len(a) + 1] = x
    BY <2>1, <2>2
  <2>4. \A i \in 1 .. Len(d) : d[i] = c[i]
    BY <1>2, <1>3, <2>2, <2>3
  <2>5. d = c
    BY <1>3, <1>4, <2>2, <2>4, ListSame
  <2> QED
    BY <2>5 DEF d
<1> QED
  BY <1>3, <1>4, <1>5 DEF c

LEMMA ListLess ==
    ASSUME NEW a, IsList(a), a # << >>
    PROVE  /\ Len(a) \in Nat /\ Len(a) > 0
           /\ IsList(Tail(a)) /\ Len(Tail(a)) = Len(a) - 1
           /\ \A i \in 1 .. Len(a) - 1 : Tail(a)[i] = a[i + 1]
           /\ IsList(Front(a)) /\ Len(Front(a)) = Len(a) - 1
           /\ \A i \in 1 .. Len(a) - 1 : Front(a)[i] = a[i]
           /\ Last(a) = a[Len(a)] /\ Head(a) = a[1]
<1>1. PICK S : a \in Seq(S)
  BY DEF IsList
<1>2. Len(a) \in Nat /\ Len(a) > 0
  BY <1>1
<1>3. Tail(a) \in Seq(S) /\ Len(Tail(a)) = Len(a) - 1 /\ \A i \in 1 .. Len(a) - 1 : Tail(a)[i] = a[i + 1]
  BY <1>1, HeadTailProperties
<1> DEFINE n == Len(a) - 1
           b == SubSeq(a, 1, n)
<1>4. b \in Seq(S) /\ Len(b) = n /\ \A i \in 1 .. n : b[i] = a[i]
  <2>1. 1 \in Int /\ n \in Int /\ n \in Nat /\ \A i \in 1 .. n : a[i] \in S
    BY <1>1, <1>2
  <2> HIDE DEF n
  <2>2. /\ b \in Seq(S) /\ Len(b) = IF 1 <= n THEN n - 1 + 1 ELSE 0
        /\ \A i \in 1 .. n - 1 + 1 : b[i] = a[1 + i - 1]
    BY <1>1, <2>1, SubSeqProperties
  <2> QED
    BY <2>1, <2>2
<1>5. Front(a) = b /\ Last(a) = a[Len(a)] /\ Head(a) = a[1]
  BY <1>1 DEF Front, Last
<1> QED
  BY <1>2, <1>3, <1>4, <1>5 DEF IsList

-----------------------------------------------------------------------------
(* The trees a journal goes back through                                   *)

\* The inverses J, last one first, take tree f back through the trees T to s.
Retraces(s, f, J, T) ==
    /\ T[Len(J)] = f
    /\ \A i \in 0 .. Len(J) : TreeFits(T[i])
    /\ \A i \in 1 .. Len(J) : CanApply(T[i], J[i]) /\ T[i - 1] = ApplyInverse(T[i], J[i])
    /\ Cut(T[0], Journal) = s

\* Before there is a journal root, no inverse is about it.
Traces(s, f, J, T) ==
    /\ Retraces(s, f, J, T)
    /\ Journal \notin DOMAIN f => \A i \in 0 .. Len(J) : Journal \notin DOMAIN T[i]

Retraced(s, f, J)   == \E T : Retraces(s, f, J, T)
Restorable(s, f, J) == \E T : Traces(s, f, J, T)

LEMMA TraceUndone ==
    ASSUME NEW s, NEW f, NEW J, IsList(J), Restorable(s, f, J)
    PROVE  Cut(Undone(f, J), Journal) = s
<1>1. PICK T : Traces(s, f, J, T)
  BY DEF Restorable
<1> DEFINE N == Len(J)
           Step(a, n) == IF n = 0 THEN f
                         ELSE IF CanApply(a[n - 1], J[N - n + 1])
                              THEN ApplyInverse(a[n - 1], J[N - n + 1]) ELSE a[n - 1]
           Is(a) == a = [n \in 0 .. N |-> Step(a, n)]
           b == [n \in 0 .. N |-> T[N - n]]
           c == CHOOSE a : Is(a)
<1>2. N \in Nat
  BY ListIs
<1>3. T[N] = f /\ \A i \in 1 .. N : CanApply(T[i], J[i]) /\ T[i - 1] = ApplyInverse(T[i], J[i])
  BY <1>1 DEF Traces, Retraces
<1>4. ASSUME NEW n \in 0 .. N PROVE b[n] = Step(b, n)
  <2>1. b[n] = T[N - n]
    OBVIOUS
  <2>2. CASE n = 0
    BY <1>2, <1>3, <2>1, <2>2
  <2>3. CASE n # 0
    <3> DEFINE k == N - n + 1
    <3>1. k \in 1 .. N /\ n - 1 \in 0 .. N /\ N - (n - 1) = k /\ N - n = k - 1
      BY <1>2, <2>3
    <3>2. b[n - 1] = T[k]
      BY <3>1
    <3> HIDE DEF k, b
    <3>3. CanApply(T[k], J[k]) /\ T[k - 1] = ApplyInverse(T[k], J[k])
      BY <1>3, <3>1
    <3> QED
      BY <2>1, <2>3, <3>1, <3>2, <3>3 DEF k
  <2> QED
    BY <2>2, <2>3
<1>5. Is(b)
  <2>1. b = [n \in 0 .. N |-> b[n]]
    OBVIOUS
  <2> HIDE DEF b, Step
  <2> QED
    BY <1>4, <2>1
<1>6. Is(c)
  <2> HIDE DEF b, Is
  <2> QED
    BY <1>5
<1>7. ASSUME NEW n \in 0 .. N, c[n] # b[n] PROVE FALSE
  <2> DEFINE Bad == {m \in 0 .. N : c[m] # b[m]}
  <2>1. Bad \in SUBSET Nat /\ Bad # {}
    <3> HIDE DEF b, c
    <3>1. \A m \in 0 .. N : m \in Nat
      BY <1>2
    <3> QED
      BY <1>7, <3>1
  <2>2. PICK m \in Bad : \A j \in Bad : m <= j
    BY <2>1, FirstPlace
  <2>3. m \in 0 .. N /\ c[m] # b[m]
    BY <2>2
  <2>4. c[m] = Step(c, m)
    <3> HIDE DEF Step, c
    <3> QED
      BY <1>6, <2>3
  <2>5. m # 0
    BY <1>4, <2>3, <2>4
  <2>6. m - 1 \in 0 .. N /\ m - 1 \notin Bad
    BY <1>2, <2>2, <2>3, <2>5
  <2>7. c[m - 1] = b[m - 1]
    BY <2>6
  <2> HIDE DEF b, c
  <2> QED
    BY <1>4, <2>3, <2>4, <2>7
<1>8. Undone(f, J) = c[N]
  BY DEF Undone
<1>9. b[N] = T[0]
  BY <1>2
<1> HIDE DEF b, c
<1>10. c[N] = T[0]
  BY <1>2, <1>7, <1>9
<1> QED
  BY <1>1, <1>8, <1>10 DEF Traces, Retraces

LEMMA TraceMore ==
    ASSUME NEW s, NEW f, NEW J, IsList(J), Restorable(s, f, J), NEW g, NEW inv, TreeFits(g),
           CanApply(g, inv), ApplyInverse(g, inv) = f, Journal \notin DOMAIN g => Journal \notin DOMAIN f
    PROVE  Restorable(s, g, Append(J, inv))
<1>1. PICK T : Traces(s, f, J, T)
  BY DEF Restorable
<1> DEFINE K == Append(J, inv)
           U == [i \in 0 .. Len(J) + 1 |-> IF i = Len(J) + 1 THEN g ELSE T[i]]
<1>2. Len(J) \in Nat
  BY ListIs
<1>3. Len(K) = Len(J) + 1 /\ K[Len(J) + 1] = inv /\ \A i \in 1 .. Len(J) : K[i] = J[i]
  BY ListMore
<1>4. U[Len(J) + 1] = g /\ \A i \in 0 .. Len(J) : U[i] = T[i]
  BY <1>2
<1> HIDE DEF K, U
<1>5. /\ T[Len(J)] = f /\ (\A i \in 0 .. Len(J) : TreeFits(T[i]))
      /\ \A i \in 1 .. Len(J) : CanApply(T[i], J[i]) /\ T[i - 1] = ApplyInverse(T[i], J[i])
      /\ Cut(T[0], Journal) = s
      /\ Journal \notin DOMAIN f => \A i \in 0 .. Len(J) : Journal \notin DOMAIN T[i]
  BY <1>1 DEF Traces, Retraces
<1>6. ASSUME NEW i \in 0 .. Len(K)
      PROVE  TreeFits(U[i]) /\ (Journal \notin DOMAIN g => Journal \notin DOMAIN U[i])
  <2>1. CASE i = Len(J) + 1
    BY <1>4, <2>1
  <2>2. CASE i # Len(J) + 1
    <3>1. i \in 0 .. Len(J)
      BY <1>2, <1>3, <2>2
    <3> QED
      BY <1>4, <1>5, <3>1
  <2> QED
    BY <2>1, <2>2
<1>7. ASSUME NEW i \in 1 .. Len(K)
      PROVE  CanApply(U[i], K[i]) /\ U[i - 1] = ApplyInverse(U[i], K[i])
  <2>1. CASE i = Len(J) + 1
    <3>1. i - 1 = Len(J) /\ Len(J) \in 0 .. Len(J)
      BY <1>2, <2>1
    <3> QED
      BY <1>3, <1>4, <1>5, <2>1, <3>1
  <2>2. CASE i # Len(J) + 1
    <3>1. i \in 1 .. Len(J) /\ i \in 0 .. Len(J) /\ i - 1 \in 0 .. Len(J)
      BY <1>2, <1>3, <2>2
    <3> QED
      BY <1>3, <1>4, <1>5, <3>1
  <2> QED
    BY <2>1, <2>2
<1>8. Cut(U[0], Journal) = s
  BY <1>2, <1>4, <1>5
<1> QED
  BY <1>3, <1>4, <1>6, <1>7, <1>8 DEF Traces, Retraces, Restorable, K

\* A change that the last inverse takes back with the rest.
LEMMA TraceTop ==
    ASSUME NEW s, NEW f, NEW J, IsList(J), Restorable(s, f, J), J # << >>, NEW g, TreeFits(g),
           CanApply(f, Last(J)) => CanApply(g, Last(J)),
           CanApply(f, Last(J)) => ApplyInverse(g, Last(J)) = ApplyInverse(f, Last(J)),
           Journal \notin DOMAIN g => Journal \notin DOMAIN f
    PROVE  Restorable(s, g, J)
<1>1. PICK T : Traces(s, f, J, T)
  BY DEF Restorable
<1> DEFINE N == Len(J)
           U == [i \in 0 .. N |-> IF i = N THEN g ELSE T[i]]
<1>2. N \in Nat /\ N > 0 /\ Last(J) = J[N]
  BY ListLess
<1>3. U[N] = g /\ \A i \in 0 .. N - 1 : U[i] = T[i]
  BY <1>2
<1> HIDE DEF U
<1>5. /\ T[N] = f /\ (\A i \in 0 .. N : TreeFits(T[i]))
      /\ \A i \in 1 .. N : CanApply(T[i], J[i]) /\ T[i - 1] = ApplyInverse(T[i], J[i])
      /\ Cut(T[0], Journal) = s
      /\ Journal \notin DOMAIN f => \A i \in 0 .. N : Journal \notin DOMAIN T[i]
  BY <1>1 DEF Traces, Retraces
<1>6. ASSUME NEW i \in 0 .. N
      PROVE  TreeFits(U[i]) /\ (Journal \notin DOMAIN g => Journal \notin DOMAIN U[i])
  <2>1. CASE i = N
    BY <1>3, <2>1
  <2>2. CASE i # N
    <3>1. i \in 0 .. N - 1
      BY <1>2, <2>2
    <3> QED
      BY <1>3, <1>5, <3>1
  <2> QED
    BY <2>1, <2>2
<1>7. ASSUME NEW i \in 1 .. N
      PROVE  CanApply(U[i], J[i]) /\ U[i - 1] = ApplyInverse(U[i], J[i])
  <2>0. i - 1 \in 0 .. N - 1 /\ U[i - 1] = T[i - 1] /\ CanApply(T[i], J[i]) /\ T[i - 1] = ApplyInverse(T[i], J[i])
    BY <1>2, <1>3, <1>5
  <2>1. CASE i = N
    BY <1>2, <1>3, <1>5, <2>0, <2>1
  <2>2. CASE i # N
    <3>1. i \in 0 .. N - 1
      BY <1>2, <2>2
    <3> QED
      BY <1>3, <2>0, <3>1
  <2> QED
    BY <2>1, <2>2
<1>8. Cut(U[0], Journal) = s
  BY <1>2, <1>3, <1>5
<1> QED
  BY <1>3, <1>6, <1>7, <1>8 DEF Traces, Retraces, Restorable

-----------------------------------------------------------------------------
(* What takes back what                                                    *)

\* An inverse whose subject is not there does nothing.
LEMMA NothingToUndo ==
    ASSUME NEW f, TreeFits(f), NEW p
    PROVE  /\ p \notin DOMAIN f => CanApply(f, RemovalOf(p)) /\ ApplyInverse(f, RemovalOf(p)) = f
           /\ \A q : p \notin DOMAIN f => CanApply(f, MoveBack(q, p)) /\ ApplyInverse(f, MoveBack(q, p)) = f
           /\ p \in DOMAIN f => /\ CanApply(f, ModeOf(p, f[p].mode))
                                /\ ApplyInverse(f, ModeOf(p, f[p].mode)) = f
<1>1. p \notin DOMAIN f => CanApply(f, RemovalOf(p)) /\ ApplyInverse(f, RemovalOf(p)) = f
  BY DEF CanApply, ApplyInverse, RemovalOf, Cleared, Clears, Fetches
<1>2. \A q : p \notin DOMAIN f => CanApply(f, MoveBack(q, p)) /\ ApplyInverse(f, MoveBack(q, p)) = f
  BY DEF CanApply, ApplyInverse, MoveBack, Cleared, Clears, Fetches
<1>3. ASSUME p \in DOMAIN f
      PROVE  CanApply(f, ModeOf(p, f[p].mode)) /\ ApplyInverse(f, ModeOf(p, f[p].mode)) = f
  <2> DEFINE inv == ModeOf(p, f[p].mode)
             g == [f EXCEPT ![p].mode = f[p].mode]
  <2>1. inv.undo = "mode" /\ inv.at = p /\ inv.mode = f[p].mode
    BY DEF ModeOf
  <2>2. CanApply(f, inv)
    BY <2>1 DEF CanApply, Cleared, Clears, Fetches
  <2>3. ApplyInverse(f, inv) = g
    BY <1>3, <2>1 DEF ApplyInverse
  <2>4. g = f
    <3>1. f[p] = [kind |-> f[p].kind, data |-> f[p].data, mode |-> f[p].mode]
      BY <1>3 DEF TreeFits, IsEntry
    <3>2. [f[p] EXCEPT !.mode = f[p].mode] = f[p]
      BY <3>1
    <3>3. f = [q \in DOMAIN f |-> f[q]]
      BY DEF TreeFits
    <3>4. g = [q \in DOMAIN f |-> IF q = p THEN [f[p] EXCEPT !.mode = f[p].mode] ELSE f[q]]
      BY <1>3
    <3> HIDE DEF g
    <3> QED
      BY <3>2, <3>3, <3>4
  <2> QED
    BY <2>2, <2>3, <2>4
<1> QED
  BY <1>1, <1>2, <1>3

LEMMA MkdirBack ==
    ASSUME NEW f, TreeFits(f), NEW p \in Path, CanCreate(f, p)
    PROVE  LET g == With(f, p, Directory) IN
           /\ TreeFits(g) /\ CanApply(g, RemovalOf(p)) /\ ApplyInverse(g, RemovalOf(p)) = f
<1> DEFINE g == With(f, p, Directory)
           inv == RemovalOf(p)
<1>1. p \notin DOMAIN f /\ Writable(f, Parent(p)) /\ IsDir(f, Parent(p)) /\ IsEntry(Directory)
  BY DEF CanCreate, Writable, IsEntry, Directory
<1>2. /\ TreeFits(g) /\ Cut(g, p) = f /\ DOMAIN g = DOMAIN f \cup {p}
      /\ (\A q \in DOMAIN f : g[q] = f[q]) /\ Children(g, p) = {} /\ Subtree(g, p) = {p}
  <2>1. \A q \in DOMAIN f : g[q] = f[q]
    BY <1>1 DEF With
  <2>2. TreeFits(g) /\ Cut(g, p) = f /\ Children(g, p) = {} /\ Subtree(g, p) = {p}
    BY <1>1, WithFacts, Zenon
  <2>4. p # << >>
    BY <1>1 DEF TreeFits, IsDir
  <2>3. DOMAIN g = DOMAIN f \cup {p}
    BY DEF With
  <2> QED
    BY <2>1, <2>2, <2>3, <2>4
<1> HIDE DEF g
<1>3. inv.undo = "remove" /\ inv.at = p
  BY DEF RemovalOf
<1> HIDE DEF inv
<1>4. Writable(g, Parent(p))
  BY <1>1, <1>2 DEF Writable, IsDir
<1>5. CanRemove(g, p)
  BY <1>2, <1>4 DEF CanRemove
<1>6. ~Fetches(Cleared(g, inv), inv) /\ Clears(g, inv) /\ Cleared(g, inv) = f
  BY <1>2, <1>3 DEF Fetches, Clears, Cleared
<1>7. CanApply(g, inv)
  BY <1>3, <1>5, <1>6 DEF CanApply
<1>8. ApplyInverse(g, inv) = f
  BY <1>3, <1>6 DEF ApplyInverse
<1> QED
  BY <1>2, <1>7, <1>8 DEF g, inv

\* The inverse of a backup and of a move, after a rename to a free place.
LEMMA RenameBack ==
    ASSUME NEW f, TreeFits(f), NEW p \in Path, NEW q \in Path, CanRename(f, p, q), q \notin DOMAIN f,
           NEW inv, inv \in {ReplaceBy(p, q), RestoreFrom(p, q), MoveBack(p, q)}
    PROVE  LET g == Moved(f, p, q) IN
           /\ TreeFits(g) /\ CanApply(g, inv) /\ ApplyInverse(g, inv) = f
<1> DEFINE g == Moved(f, p, q)
<1>1. q \in DOMAIN g /\ p \notin DOMAIN g /\ CanRename(g, q, p) /\ Moved(g, q, p) = f
  BY MovedBack
<1>2. TreeFits(g)
  BY MovedFacts
<1> HIDE DEF g
<1>3. inv.undo \in {"replace", "restore", "move_back"} /\ inv.at = p /\ inv.from = q
  BY DEF ReplaceBy, RestoreFrom, MoveBack
<1>4. ~Clears(g, inv) /\ Cleared(g, inv) = g /\ Fetches(g, inv)
  BY <1>1, <1>3 DEF Clears, Cleared, Fetches
<1>5. CanApply(g, inv)
  BY <1>1, <1>3, <1>4 DEF CanApply
<1>6. ApplyInverse(g, inv) = f
  BY <1>1, <1>3, <1>4 DEF ApplyInverse
<1> QED
  BY <1>2, <1>5, <1>6 DEF g

\* The inverse clears p or what p is below.
Covers(inv, p) == inv.undo \in {"remove", "replace"} /\ IsPrefix(inv.at, p)

\* Two trees that differ below the path an inverse clears.
LEMMA SameCleared ==
    ASSUME NEW f, NEW g, NEW inv, inv.undo \in {"remove", "replace"},
           IF inv.at \in DOMAIN f THEN Cut(g, inv.at) = Cut(f, inv.at) ELSE Cut(g, inv.at) = f,
           inv.at \in DOMAIN g, CanApply(f, inv), CanRemove(g, inv.at)
    PROVE  CanApply(g, inv) /\ ApplyInverse(g, inv) = ApplyInverse(f, inv)
<1>1. Clears(g, inv) /\ Cleared(g, inv) = Cleared(f, inv)
  BY DEF Clears, Cleared
<1>2. CanApply(g, inv)
  BY <1>1 DEF CanApply
<1>3. ApplyInverse(g, inv) = ApplyInverse(f, inv)
  BY <1>1 DEF ApplyInverse
<1> QED
  BY <1>2, <1>3

\* A new entry at or below a path the inverse clears.
LEMMA PutCovered ==
    ASSUME NEW f, TreeFits(f), NEW p \in Path, CanCreate(f, p), NEW e, IsEntry(e),
           NEW inv, inv.at \in Path, inv.at # << >>, Covers(inv, p), CanApply(f, inv)
    PROVE  LET g == With(f, p, e) IN
           /\ CanApply(g, inv) /\ ApplyInverse(g, inv) = ApplyInverse(f, inv)
<1> DEFINE g == With(f, p, e)
           a == inv.at
           u == Parent(p)
           b == Parent(a)
<1>1. p \notin DOMAIN f /\ Writable(f, u) /\ IsDir(f, u) /\ f[u].mode = "rw" /\ u \in DOMAIN f
  BY DEF CanCreate, Writable, IsDir
<1>2. /\ TreeFits(g) /\ Cut(g, p) = f /\ DOMAIN g = DOMAIN f \cup {p}
      /\ (\A q \in DOMAIN f : g[q] = f[q]) /\ Children(g, p) = {} /\ Subtree(g, p) = {p} /\ p # << >>
  <2>1. \A q \in DOMAIN f : g[q] = f[q]
    BY <1>1 DEF With
  <2>3. DOMAIN g = DOMAIN f \cup {p}
    BY DEF With
  <2>2. TreeFits(g) /\ Cut(g, p) = f /\ Children(g, p) = {} /\ Subtree(g, p) = {p}
    <3>1. p \notin DOMAIN f /\ IsDir(f, Parent(p))
      BY <1>1
    <3>2. TreeFits(g)
      BY <3>1, WithFacts
    <3>3. Cut(g, p) = f
      BY <3>1, WithFacts
    <3>4. Children(g, p) = {}
      BY <3>1, WithFacts
    <3>5. Subtree(g, p) = {p}
      <4>1. \A q \in DOMAIN f : q \in Path /\ ~IsPrefix(p, q)
        BY <3>1, TreeClosed DEF TreeFits
      <4> HIDE DEF g
      <4> QED
        BY <2>3, <4>1, PrefixOrder DEF Subtree
    <3> QED
      BY <3>2, <3>3, <3>4, <3>5
  <2>4. p # << >>
    BY <1>1 DEF TreeFits, IsDir
  <2> QED
    BY <2>1, <2>2, <2>3, <2>4
<1> HIDE DEF g
<1>3. a \in Path /\ inv.undo \in {"remove", "replace"} /\ IsPrefix(a, p) /\ a # << >>
  BY DEF Covers
<1>4. u \in Path /\ IsPrefix(u, p) /\ (a # p => IsPrefix(a, u)) /\ u # p
  BY <1>2, <1>3, ParentFacts
<1>5. b \in Path /\ IsPrefix(b, a) /\ b # a
  BY <1>3, ParentFacts
<1> HIDE DEF a, u, b
<1>6. a \in DOMAIN g
  BY <1>2, <1>3, TreeClosed
<1>7. a \in DOMAIN f <=> a # p
  <2>1. a # p => a \in DOMAIN f
    BY <1>2, <1>6
  <2> QED
    BY <1>1, <2>1
<1>8. IF a \in DOMAIN f THEN Cut(g, a) = Cut(f, a) ELSE Cut(g, a) = f
  <2>1. CASE a = p
    BY <1>2, <1>7, <2>1
  <2>2. CASE a # p
    <3>1. DOMAIN g \ Subtree(g, a) = DOMAIN f \ Subtree(f, a)
      BY <1>2, <1>3 DEF Subtree
    <3> QED
      BY <1>2, <1>7, <2>2, <3>1 DEF Cut
  <2> QED
    BY <2>1, <2>2
<1>9. Writable(g, b)
  <2>1. a \in DOMAIN f => CanRemove(f, a)
    BY <1>3 DEF CanApply, Clears, a
  <2>2. Writable(f, b)
    BY <1>1, <1>7, <2>1 DEF CanRemove, b, u
  <2> QED
    BY <1>2, <2>2 DEF Writable, IsDir
<1>10. ASSUME NEW q \in Subtree(g, a), IsDir(g, q), Children(g, q) # {} PROVE g[q].mode = "rw"
  <2>1. q # p /\ q \in DOMAIN f /\ IsPrefix(a, q) /\ g[q] = f[q] /\ IsDir(f, q)
    BY <1>2, <1>10 DEF Subtree, IsDir
  <2>2. CASE q = u
    BY <1>1, <2>1, <2>2
  <2>3. CASE q # u
    <3>1. p \notin Children(g, q)
      <4>1. q \in Path
        BY <2>1 DEF TreeFits
      <4>2. IsPrefix(q, p) => IsPrefix(q, u)
        BY <2>1, <4>1, ParentFacts DEF u
      <4>3. IsPrefix(q, u) => Len(q) < Len(u)
        BY <1>4, <2>3, <4>1, PrefixOrder
      <4>4. Len(u) = Len(p) - 1 /\ Len(p) \in Nat /\ Len(q) \in Nat
        BY <1>2, <4>1, ParentFacts DEF u, Path
      <4> QED
        BY <4>2, <4>3, <4>4 DEF Children, Subtree
    <3>2. Children(f, q) # {}
      BY <1>2, <1>10, <3>1 DEF Children, Subtree
    <3>3. a \in DOMAIN f
      <4>1. DOMAIN f \subseteq Path
        BY DEF TreeFits
      <4> QED
        BY <1>3, <2>1, <4>1, TreeClosed
    <3>4. CanRemove(f, a)
      BY <1>3, <3>3 DEF CanApply, Clears, a
    <3> QED
      BY <2>1, <3>2, <3>4 DEF CanRemove, Subtree
  <2> QED
    BY <2>2, <2>3
<1>11. CanRemove(g, a)
  BY <1>9, <1>10 DEF CanRemove, b
<1>12. CanApply(g, inv) /\ ApplyInverse(g, inv) = ApplyInverse(f, inv)
  BY <1>3, <1>6, <1>8, <1>11, SameCleared DEF a
<1> QED
  BY <1>12 DEF g

-----------------------------------------------------------------------------
(* Modes                                                                   *)

LEMMA ModeFacts ==
    ASSUME NEW f, TreeFits(f), NEW p \in DOMAIN f, NEW m
    PROVE  LET g == [f EXCEPT ![p].mode = m] IN
           /\ TreeFits(g) /\ DOMAIN g = DOMAIN f
           /\ \A q \in DOMAIN f : q # p => g[q] = f[q]
           /\ g[p] = [kind |-> f[p].kind, data |-> f[p].data, mode |-> m]
           /\ \A q : IsDir(g, q) <=> IsDir(f, q)
<1> DEFINE g == [f EXCEPT ![p].mode = m]
<1>1. f[p] = [kind |-> f[p].kind, data |-> f[p].data, mode |-> f[p].mode]
  BY DEF TreeFits, IsEntry
<1>2. [f[p] EXCEPT !.mode = m] = [kind |-> f[p].kind, data |-> f[p].data, mode |-> m]
  BY <1>1
<1>3. DOMAIN g = DOMAIN f /\ (\A q \in DOMAIN f : q # p => g[q] = f[q]) /\ g[p] = [f[p] EXCEPT !.mode = m]
  OBVIOUS
<1>4. g = [q \in DOMAIN g |-> g[q]]
  OBVIOUS
<1> HIDE DEF g
<1>5. g[p] = [kind |-> f[p].kind, data |-> f[p].data, mode |-> m]
  BY <1>2, <1>3
<1>6. g[p].kind = f[p].kind /\ IsEntry(g[p])
  BY <1>5 DEF IsEntry
<1>7. \A q : IsDir(g, q) <=> IsDir(f, q)
  BY <1>3, <1>6 DEF IsDir
<1>8. TreeFits(g)
  BY <1>3, <1>4, <1>6, <1>7 DEF TreeFits
<1> QED
  BY <1>3, <1>5, <1>7, <1>8 DEF g

\* A mode the last inverse puts back.
LEMMA ModeBack ==
    ASSUME NEW f, TreeFits(f), NEW p \in DOMAIN f, NEW m
    PROVE  LET g == [f EXCEPT ![p].mode = m]
               inv == ModeOf(p, f[p].mode)
           IN  CanApply(g, inv) /\ ApplyInverse(g, inv) = ApplyInverse(f, inv)
<1> DEFINE g == [f EXCEPT ![p].mode = m]
           inv == ModeOf(p, f[p].mode)
           h == [g EXCEPT ![p].mode = f[p].mode]
<1>1. /\ TreeFits(g) /\ DOMAIN g = DOMAIN f /\ \A q \in DOMAIN f : q # p => g[q] = f[q]
      /\ g[p] = [kind |-> f[p].kind, data |-> f[p].data, mode |-> m]
  BY ModeFacts
<1> HIDE DEF g
<1>2. /\ TreeFits(h) /\ DOMAIN h = DOMAIN f /\ \A q \in DOMAIN f : q # p => h[q] = f[q]
      /\ h[p] = [kind |-> g[p].kind, data |-> g[p].data, mode |-> f[p].mode]
  BY <1>1, ModeFacts
<1>3. inv.undo = "mode" /\ inv.at = p /\ inv.mode = f[p].mode
  BY DEF ModeOf
<1>4. CanApply(g, inv)
  BY <1>3 DEF CanApply, Clears, Fetches, Cleared
<1>5. ApplyInverse(g, inv) = h
  BY <1>1, <1>3 DEF ApplyInverse
<1>6. ApplyInverse(f, inv) = f
  BY NothingToUndo
<1> HIDE DEF h
<1>7. f[p] = [kind |-> f[p].kind, data |-> f[p].data, mode |-> f[p].mode]
  BY DEF TreeFits, IsEntry
<1>8. h[p] = f[p]
  BY <1>1, <1>2, <1>7
<1>9. h = f
  BY <1>2, <1>8 DEF TreeFits
<1> QED
  BY <1>4, <1>5, <1>6, <1>9 DEF g, inv

\* The mode of something without children, at or below a path the inverse clears.
LEMMA ModeCovered ==
    ASSUME NEW f, TreeFits(f), NEW p \in DOMAIN f, p # << >>, Children(f, p) = {}, NEW m,
           NEW inv, inv.at \in Path, inv.at # << >>, Covers(inv, p), CanApply(f, inv)
    PROVE  LET g == [f EXCEPT ![p].mode = m] IN
           /\ CanApply(g, inv) /\ ApplyInverse(g, inv) = ApplyInverse(f, inv)
<1> DEFINE g == [f EXCEPT ![p].mode = m]
           a == inv.at
           b == Parent(a)
<1>1. /\ TreeFits(g) /\ DOMAIN g = DOMAIN f /\ \A q \in DOMAIN f : q # p => g[q] = f[q]
      /\ \A q : IsDir(g, q) <=> IsDir(f, q)
  BY ModeFacts
<1> HIDE DEF g
<1>2. a \in Path /\ inv.undo \in {"remove", "replace"} /\ IsPrefix(a, p) /\ a # << >> /\ p \in Path
  BY DEF Covers, TreeFits
<1>3. a \in DOMAIN f
  BY <1>2, TreeClosed
<1>4. b \in Path /\ IsPrefix(b, a) /\ b # a
  BY <1>2, ParentFacts
<1>5. CanRemove(f, a)
  BY <1>2, <1>3 DEF CanApply, Clears
<1>6. b # p
  BY <1>2, <1>4, PrefixOrder
<1> HIDE DEF a, b
<1>7. Writable(g, b)
  BY <1>1, <1>5, <1>6 DEF CanRemove, Writable, IsDir, b
<1>8. \A q : Subtree(g, q) = Subtree(f, q) /\ Children(g, q) = Children(f, q)
  BY <1>1 DEF Subtree, Children
<1>9. CanRemove(g, a)
  BY <1>1, <1>5, <1>7, <1>8 DEF CanRemove, Subtree, b
<1>10. Cut(g, a) = Cut(f, a)
  <2>1. \A q \in DOMAIN f \ Subtree(f, a) : g[q] = f[q]
    BY <1>1, <1>2 DEF Subtree
  <2> QED
    BY <1>1, <1>8, <2>1 DEF Cut
<1>11. CanApply(g, inv) /\ ApplyInverse(g, inv) = ApplyInverse(f, inv)
  BY <1>1, <1>2, <1>3, <1>9, <1>10, SameCleared DEF a
<1> QED
  BY <1>11 DEF g

-----------------------------------------------------------------------------
(* The journal root                                                        *)

\* The inverses noted before there is a journal.
EarlyInverse(inv) ==
    /\ Outside(inv.at)
    /\ inv.undo \in {"remove", "move_back", "mode"}
    /\ inv.undo = "move_back" => Outside(inv.from)

\* The tree, with an empty journal root.
WithRoot(t) == With(t, Journal, Directory)

LEMMA WithRootPath == Journal \in Path /\ Parent(Journal) = << >>
<1>1. "journal" \in Name
  BY DEF Name
<1>2. << "journal" >> \in Seq(Name) /\ Len(<< "journal" >>) = 1
  BY <1>1
<1> QED
  BY <1>2, SubSeqEmpty DEF Journal, Path, Parent

LEMMA RootFacts ==
    ASSUME NEW t, TreeFits(t), Journal \notin DOMAIN t
    PROVE  LET u == WithRoot(t) IN
           /\ TreeFits(u) /\ Cut(u, Journal) = t
           /\ u = [q \in DOMAIN t \cup {Journal} |-> IF q = Journal THEN Directory ELSE t[q]]
           /\ \A p : Outside(p) => Subtree(u, p) = Subtree(t, p) /\ (p \in DOMAIN u <=> p \in DOMAIN t)
           /\ \A p : Outside(p) => Children(u, p) = Children(t, p)
           /\ \A p : p # Journal => (IsDir(u, p) <=> IsDir(t, p)) /\ (Writable(u, p) <=> Writable(t, p))
<1> DEFINE u == WithRoot(t)
<1>1. Journal \in Path /\ Parent(Journal) = << >>
  BY WithRootPath
<1>2. u = [q \in DOMAIN t \cup {Journal} |-> IF q = Journal THEN Directory ELSE t[q]]
  BY DEF WithRoot, With
<1>3. IsDir(t, Parent(Journal)) /\ IsEntry(Directory)
  BY <1>1 DEF TreeFits, IsEntry, Directory
<1>4. TreeFits(u)
  BY <1>1, <1>3, WithFacts DEF WithRoot
<1>5. Cut(u, Journal) = t
  BY <1>1, <1>3, WithFacts DEF WithRoot
<1> HIDE DEF u
<1>6. ASSUME NEW p, Outside(p)
      PROVE  /\ Subtree(u, p) = Subtree(t, p) /\ (p \in DOMAIN u <=> p \in DOMAIN t)
             /\ Children(u, p) = Children(t, p)
  <2>1. ~IsPrefix(p, Journal) /\ p # Journal
    BY <1>6, OutsideFacts
  <2>2. Subtree(u, p) = Subtree(t, p)
    BY <1>2, <2>1 DEF Subtree
  <2> QED
    BY <1>2, <2>1, <2>2 DEF Children
<1>7. ASSUME NEW p, p # Journal
      PROVE  (IsDir(u, p) <=> IsDir(t, p)) /\ (Writable(u, p) <=> Writable(t, p))
  BY <1>2, <1>7 DEF IsDir, Writable
<1> QED
  BY <1>2, <1>4, <1>5, <1>6, <1>7 DEF u

\* The journal root changes nothing of what an inverse outside it does.
LEMMA RootAside ==
    ASSUME NEW t, TreeFits(t), Journal \notin DOMAIN t, NEW inv, EarlyInverse(inv), CanApply(t, inv)
    PROVE  /\ CanApply(WithRoot(t), inv)
           /\ ApplyInverse(WithRoot(t), inv) = WithRoot(ApplyInverse(t, inv))
<1> DEFINE u == WithRoot(t)
           a == inv.at
<1>1. /\ TreeFits(u) /\ Cut(u, Journal) = t
      /\ u = [q \in DOMAIN t \cup {Journal} |-> IF q = Journal THEN Directory ELSE t[q]]
      /\ \A p : Outside(p) => Subtree(u, p) = Subtree(t, p) /\ (p \in DOMAIN u <=> p \in DOMAIN t)
      /\ \A p : Outside(p) => Children(u, p) = Children(t, p)
      /\ \A p : p # Journal => (IsDir(u, p) <=> IsDir(t, p)) /\ (Writable(u, p) <=> Writable(t, p))
  BY RootFacts
<1> HIDE DEF u
<1>2. Outside(a) /\ a # Journal /\ Parent(a) # Journal /\ ~IsPrefix(a, Journal) /\ a \in Path
      /\ \A q \in Path : IsPrefix(a, q) => Outside(q)
  BY OutsideFacts DEF EarlyInverse
<1>3. DOMAIN t \subseteq Path /\ DOMAIN u = DOMAIN t \cup {Journal} /\ u[Journal] = Directory
      /\ \A q \in DOMAIN t : u[q] = t[q]
  BY <1>1 DEF TreeFits
<1>4. \A v : WithRoot(v) = [q \in DOMAIN v \cup {Journal} |-> IF q = Journal THEN Directory ELSE v[q]]
  BY DEF WithRoot, With
<1> HIDE DEF a
<1>5. CASE inv.undo = "remove"
  <2>1. /\ Cleared(t, inv) = IF a \in DOMAIN t THEN Cut(t, a) ELSE t
        /\ Cleared(u, inv) = IF a \in DOMAIN t THEN Cut(u, a) ELSE u
        /\ \A v : ~Fetches(v, inv)
        /\ Clears(t, inv) <=> a \in DOMAIN t
        /\ Clears(u, inv) <=> a \in DOMAIN t
    BY <1>1, <1>2, <1>5 DEF Cleared, Clears, Fetches, a
  <2>2. ApplyInverse(t, inv) = Cleared(t, inv) /\ ApplyInverse(u, inv) = Cleared(u, inv)
    BY <1>5, <2>1 DEF ApplyInverse
  <2>3. Cut(u, a) = WithRoot(Cut(t, a))
    <3> DEFINE c == Cut(t, a)
    <3>1. c = [q \in DOMAIN t \ Subtree(t, a) |-> t[q]]
      BY DEF Cut
    <3>2. Cut(u, a) = [q \in DOMAIN u \ Subtree(t, a) |-> u[q]]
      BY <1>1, <1>2 DEF Cut
    <3>3. Journal \notin Subtree(t, a)
      BY <1>2 DEF Subtree
    <3> HIDE DEF c
    <3>4. WithRoot(c) = [q \in DOMAIN c \cup {Journal} |-> IF q = Journal THEN Directory ELSE c[q]]
      BY <1>4
    <3>5. DOMAIN c \cup {Journal} = DOMAIN u \ Subtree(t, a)
      BY <1>3, <3>1, <3>3
    <3>6. \A q \in DOMAIN u \ Subtree(t, a) : u[q] = IF q = Journal THEN Directory ELSE c[q]
      BY <1>3, <3>1
    <3> QED
      BY <3>2, <3>4, <3>5, <3>6 DEF c
  <2>4. ASSUME a \in DOMAIN t PROVE CanRemove(u, a)
    <3>1. CanRemove(t, a)
      BY <2>1, <2>4 DEF CanApply, a
    <3>2. Writable(u, Parent(a))
      BY <1>1, <1>2, <3>1 DEF CanRemove
    <3>3. ASSUME NEW q \in Subtree(u, a), IsDir(u, q), Children(u, q) # {} PROVE u[q].mode = "rw"
      <4>1. q \in Subtree(t, a) /\ q \in DOMAIN t /\ IsPrefix(a, q)
        BY <1>1, <1>2, <3>3 DEF Subtree
      <4>2. Outside(q) /\ q # Journal
        BY <1>2, <1>3, <4>1
      <4>3. IsDir(t, q) /\ Children(t, q) # {} /\ u[q] = t[q]
        BY <1>1, <1>3, <3>3, <4>1, <4>2
      <4> QED
        BY <3>1, <4>1, <4>3 DEF CanRemove
    <3> QED
      BY <3>2, <3>3 DEF CanRemove
  <2>5. CanApply(u, inv)
    BY <2>1, <2>4 DEF CanApply, a
  <2> QED
    BY <2>1, <2>2, <2>3, <2>5 DEF u
<1>6. CASE inv.undo = "move_back"
  <2> DEFINE b == inv.from
  <2>1. Outside(b) /\ b # Journal /\ Parent(b) # Journal /\ ~IsPrefix(b, Journal) /\ b \in Path
    BY <1>6, OutsideFacts DEF EarlyInverse
  <2> HIDE DEF b
  <2>2. /\ Cleared(t, inv) = t /\ Cleared(u, inv) = u /\ ~Clears(t, inv) /\ ~Clears(u, inv)
        /\ Fetches(t, inv) <=> b \in DOMAIN t
        /\ Fetches(u, inv) <=> b \in DOMAIN t
    BY <1>1, <1>6, <2>1 DEF Cleared, Clears, Fetches, b
  <2>3. /\ ApplyInverse(t, inv) = IF b \in DOMAIN t THEN Moved(t, b, a) ELSE t
        /\ ApplyInverse(u, inv) = IF b \in DOMAIN t THEN Moved(u, b, a) ELSE u
    BY <1>6, <2>2 DEF ApplyInverse, a, b
  <2>4. Moved(u, b, a) = WithRoot(Moved(t, b, a))
    <3> DEFINE there == {Graft(b, a, r) : r \in Subtree(t, b)}
               m == Moved(t, b, a)
               mu == Moved(u, b, a)
               rest == DOMAIN t \ Subtree(t, b)
    <3>1. m = [r \in rest \cup there |-> IF r \in there THEN t[Graft(a, b, r)] ELSE Cut(t, b)[r]]
      <4>1. DOMAIN Cut(t, b) = rest
        BY DEF Cut
      <4> QED
        BY <4>1 DEF Moved, Graft
    <3>2. mu = [r \in (DOMAIN u \ Subtree(t, b)) \cup there |->
                  IF r \in there THEN u[Graft(a, b, r)] ELSE Cut(u, b)[r]]
      <4>1. DOMAIN Cut(u, b) = DOMAIN u \ Subtree(t, b) /\ Subtree(u, b) = Subtree(t, b)
        BY <1>1, <2>1 DEF Cut
      <4>2. {Graft(b, a, r) : r \in Subtree(u, b)} = there
        BY <4>1
      <4> QED
        BY <4>1, <4>2 DEF Moved, Graft
    <3>3. /\ \A r \in rest : Cut(t, b)[r] = t[r]
          /\ \A r \in DOMAIN u \ Subtree(t, b) : Cut(u, b)[r] = u[r]
      BY <1>1, <2>1 DEF Cut
    <3>4. Journal \notin there /\ Journal \notin Subtree(t, b)
      <4>1. \A r \in Subtree(t, b) : r \in Path /\ IsPrefix(b, r)
        BY <1>3 DEF Subtree
      <4>2. \A r \in Subtree(t, b) : IsPrefix(a, Graft(b, a, r))
        BY <1>2, <2>1, <4>1, GraftFacts
      <4> QED
        BY <1>2, <2>1, <4>1, <4>2
    <3>5. \A r \in there : Graft(a, b, r) \in DOMAIN t
      <4>1. \A r \in Subtree(t, b) : r \in Path /\ IsPrefix(b, r) /\ r \in DOMAIN t
        BY <1>3 DEF Subtree
      <4>2. \A r \in Subtree(t, b) : Graft(a, b, Graft(b, a, r)) = r
        BY <1>2, <2>1, <4>1, GraftFacts
      <4> QED
        BY <4>1, <4>2
    <3> HIDE DEF m, mu, there
    <3>6. DOMAIN mu = DOMAIN m \cup {Journal}
      BY <1>3, <3>1, <3>2, <3>4
    <3>7. ASSUME NEW r \in DOMAIN mu PROVE mu[r] = IF r = Journal THEN Directory ELSE m[r]
      <4>1. CASE r \in there
        BY <1>3, <3>1, <3>2, <3>4, <3>5, <4>1
      <4>2. CASE r \notin there
        <5>1. r \in DOMAIN u \ Subtree(t, b) /\ mu[r] = u[r]
          BY <3>2, <3>3, <4>2
        <5> QED
          BY <1>3, <3>1, <3>3, <4>2, <5>1
      <4> QED
        BY <4>1, <4>2
    <3>8. mu = [r \in DOMAIN mu |-> mu[r]]
      BY <3>2
    <3>9. mu = WithRoot(m)
      BY <1>4, <3>6, <3>7, <3>8
    <3> QED
      BY <3>9 DEF m, mu
  <2>5. ASSUME b \in DOMAIN t PROVE CanRename(u, b, a)
    <3>1. CanRename(t, b, a)
      BY <2>2, <2>5 DEF CanApply, a, b
    <3>2. b \in DOMAIN u /\ Writable(u, Parent(b)) /\ Writable(u, Parent(a)) /\ ~IsPrefix(b, a)
      BY <1>1, <1>2, <2>1, <2>5, <3>1 DEF CanRename
    <3>3. (IsDir(u, b) <=> IsDir(t, b)) /\ (IsDir(u, a) <=> IsDir(t, a)) /\ Children(u, a) = Children(t, a)
          /\ u[b] = t[b] /\ (a \in DOMAIN u <=> a \in DOMAIN t)
      BY <1>1, <1>2, <1>3, <2>1, <2>5
    <3>4. IsDir(u, b) => u[b].mode = "rw"
      BY <3>1, <3>3 DEF CanRename
    <3>5. a \in DOMAIN u => IsDir(u, b) = IsDir(u, a) /\ Children(u, a) = {}
      BY <3>1, <3>3 DEF CanRename, IsDir
    <3> QED
      BY <3>2, <3>4, <3>5 DEF CanRename
  <2>6. CanApply(u, inv)
    BY <2>2, <2>5 DEF CanApply, a, b
  <2> QED
    BY <2>3, <2>4, <2>6 DEF u
<1>7. CASE inv.undo = "mode"
  <2>1. CanApply(u, inv)
    BY <1>7 DEF CanApply, Clears, Cleared, Fetches
  <2>2. /\ ApplyInverse(t, inv) = IF a \in DOMAIN t THEN [t EXCEPT ![a].mode = inv.mode] ELSE t
        /\ ApplyInverse(u, inv) = IF a \in DOMAIN t THEN [u EXCEPT ![a].mode = inv.mode] ELSE u
    BY <1>1, <1>2, <1>7 DEF ApplyInverse, a
  <2>3. ASSUME a \in DOMAIN t
        PROVE  [u EXCEPT ![a].mode = inv.mode] = WithRoot([t EXCEPT ![a].mode = inv.mode])
    <3> DEFINE tm == [t EXCEPT ![a].mode = inv.mode]
               um == [u EXCEPT ![a].mode = inv.mode]
    <3>1. DOMAIN tm = DOMAIN t /\ tm[a] = [t[a] EXCEPT !.mode = inv.mode] /\ \A q \in DOMAIN t : q # a => tm[q] = t[q]
      BY <2>3
    <3>2. /\ DOMAIN um = DOMAIN u /\ um[a] = [u[a] EXCEPT !.mode = inv.mode]
          /\ (\A q \in DOMAIN u : q # a => um[q] = u[q]) /\ um = [q \in DOMAIN um |-> um[q]]
      BY <1>3, <2>3
    <3> HIDE DEF tm, um
    <3>3. u[a] = t[a] /\ a # Journal
      BY <1>2, <1>3, <2>3
    <3>4. ASSUME NEW q \in DOMAIN u PROVE um[q] = IF q = Journal THEN Directory ELSE tm[q]
      <4>1. CASE q = a
        BY <2>3, <3>1, <3>2, <3>3, <4>1
      <4>2. CASE q # a
        BY <1>3, <3>1, <3>2, <4>2
      <4> QED
        BY <4>1, <4>2
    <3>5. um = WithRoot(tm)
      BY <1>3, <1>4, <3>1, <3>2, <3>4
    <3> QED
      BY <3>5 DEF tm, um
  <2> QED
    BY <2>1, <2>2, <2>3 DEF u
<1> QED
  BY <1>5, <1>6, <1>7 DEF EarlyInverse

LEMMA TraceRoot ==
    ASSUME NEW s, NEW f, NEW J, IsList(J), Restorable(s, f, J), Journal \notin DOMAIN f,
           \A i \in 1 .. Len(J) : EarlyInverse(J[i])
    PROVE  Restorable(s, WithRoot(f), J)
<1>1. PICK T : Traces(s, f, J, T)
  BY DEF Restorable
<1> DEFINE N == Len(J)
           U == [i \in 0 .. N |-> WithRoot(T[i])]
<1>2. N \in Nat
  BY ListIs
<1>3. \A i \in 0 .. N : U[i] = WithRoot(T[i])
  OBVIOUS
<1> HIDE DEF U
<1>4. /\ T[N] = f /\ (\A i \in 0 .. N : TreeFits(T[i]) /\ Journal \notin DOMAIN T[i])
      /\ \A i \in 1 .. N : CanApply(T[i], J[i]) /\ T[i - 1] = ApplyInverse(T[i], J[i])
      /\ Cut(T[0], Journal) = s
  BY <1>1 DEF Traces, Retraces
<1>5. \A i \in 0 .. N : TreeFits(U[i])
  <2>1. \A i \in 0 .. N : TreeFits(WithRoot(T[i]))
    BY <1>4, RootFacts
  <2> QED
    BY <1>3, <2>1
<1>6. ASSUME NEW i \in 1 .. N PROVE CanApply(U[i], J[i]) /\ U[i - 1] = ApplyInverse(U[i], J[i])
  <2>1. i \in 0 .. N /\ i - 1 \in 0 .. N
    BY <1>2
  <2>2. TreeFits(T[i]) /\ Journal \notin DOMAIN T[i] /\ EarlyInverse(J[i]) /\ CanApply(T[i], J[i])
    BY <1>4, <2>1
  <2>3. CanApply(WithRoot(T[i]), J[i]) /\ ApplyInverse(WithRoot(T[i]), J[i]) = WithRoot(ApplyInverse(T[i], J[i]))
    BY <2>2, RootAside
  <2> QED
    BY <1>3, <1>4, <2>1, <2>3
<1>7. Cut(U[0], Journal) = s
  <2>1. TreeFits(T[0]) /\ Journal \notin DOMAIN T[0] /\ U[0] = WithRoot(T[0])
    BY <1>2, <1>3, <1>4
  <2>2. Cut(U[0], Journal) = T[0]
    BY <2>1, RootFacts
  <2>3. Cut(T[0], Journal) = T[0]
    BY <2>1, CutFacts, WithRootPath
  <2> QED
    BY <1>4, <2>2, <2>3
<1>8. U[N] = WithRoot(f) /\ Journal \in DOMAIN WithRoot(f)
  <2>1. U[N] = WithRoot(f)
    BY <1>2, <1>3, <1>4
  <2>2. Journal \in DOMAIN WithRoot(f)
    BY DEF WithRoot, With
  <2> QED
    BY <2>1, <2>2
<1> QED
  BY <1>5, <1>6, <1>7, <1>8 DEF Traces, Retraces, Restorable

-----------------------------------------------------------------------------
(* The work of a step                                                      *)

\* A path is covered while the last inverse clears it or what it is below,
\* and away while nothing is there.
Covered(J, p) == J # << >> /\ Covers(Last(J), p)

\* The path is in the state now.
Has(state, f, J, p) == IF state = "covered" THEN Covered(J, p) ELSE p \notin DOMAIN f

\* The items that bring a path into a state, and those that leave it there.
Brings(state, x, p) ==
    IF state = "covered"
    THEN \/ x.do = "replace" /\ IsPrefix(x.at, p)
         \/ x.do = "backup" /\ x.undo = "replace" /\ IsPrefix(x.at, p)
         \/ x.do = "note" /\ x.inverse = RemovalOf(x.inverse.at) /\ IsPrefix(x.inverse.at, p)
         \/ x.do = "rename" /\ x.noted = << ReplaceBy(x.from, x.at) >> /\ IsPrefix(x.from, p)
    ELSE \/ x.do = "backup" /\ x.at = p
         \/ x.do = "rename" /\ x.noted # << >> /\ x.from = p

Leaves(state, x, p) ==
    IF state = "covered"
    THEN \/ x.do \in {"put", "set_mode", "copy_entry", "copy_children", "root"}
         \/ x.do \in {"parents", "mkdir"} /\ IsPrefix(x.at, p)
    ELSE \/ x.do \in {"note", "root"}
         \/ x.do \in {"parents", "mkdir"} /\ ~IsPrefix(p, x.at)

\* The path will be in the state when the i-th item is next.
Will(state, f, J, w, i, p) ==
    \E j \in 0 .. i - 1 :
        /\ IF j = 0 THEN Has(state, f, J, p) ELSE Brings(state, w[j], p)
        /\ \A k \in j + 1 .. i - 1 : Leaves(state, w[k], p)

\* The items, and the paths they are about.
OnePath == {"mkdir", "touch", "remove", "remove_path", "inreplace", "write", "set_permissions",
            "set_mode_recursive", "replace", "backup", "put", "set_mode"}
TwoPaths == {"move", "move_children", "move_each", "move_child", "copy", "copy_entry", "copy_children",
             "link_dir", "link_each", "link_entry", "link_children", "link_list", "symlink", "link"}

ItemFits(x) ==
    /\ x.do \in OnePath \cup TwoPaths \cup {"parents", "note", "rename", "root", "run", "maintenance"}
    /\ "do" \in DOMAIN x
    /\ x.do \in OnePath \cup TwoPaths => "at" \in DOMAIN x /\ Outside(x.at)
    /\ x.do \in TwoPaths => "from" \in DOMAIN x /\ Outside(x.from)
    /\ x.do = "parents" => Inner(x.at)
    /\ x.do = "backup" => x.undo \in {"replace", "restore"}
    /\ x.do = "put" => IsEntry(x.entry)

\* An inverse is noted when it would do nothing.
NoteFits(f, J, w, i, v) ==
    /\ Outside(v.at)
    /\ \/ v = RemovalOf(v.at) /\ Will("away", f, J, w, i, v.at)
       \/ v = MoveBack(v.at, v.from) /\ Outside(v.from) /\ Will("away", f, J, w, i, v.from)
       \/ i = 1 /\ v.at \in DOMAIN f /\ v = ModeOf(v.at, f[v.at].mode)

\* A mode is changed when it is noted, or when the directory is new.
ModeFits(f, J, w, i, p) ==
    \/ i = 1 /\ p \in DOMAIN f /\ J # << >> /\ Last(J) = ModeOf(p, f[p].mode)
    \/ i = 1 /\ p \in DOMAIN f /\ Children(f, p) = {} /\ Covered(J, p)
    \/ i = 2 /\ w[1].do = "note" /\ w[1].inverse.undo = "mode" /\ w[1].inverse.at = p
    \/ i = 2 /\ w[1].do = "put" /\ w[1].at = p

\* A path is renamed to a free place; of a move, the inverse is noted before.
RenameFits(f, J, n, w, i, x) ==
    /\ Outside(x.from)
    /\ \/ /\ x.noted = << >> /\ Outside(x.at)
          /\ \/ i = 1 /\ J # << >> /\ Last(J) = MoveBack(x.from, x.at) /\ x.at \notin DOMAIN f
             \/ i > 1 /\ w[i - 1] = Notes(MoveBack(x.from, x.at))
       \/ /\ i = 1 /\ n > 0 /\ x.at = Append(Journal, n - 1) /\ x.at \notin DOMAIN f
          /\ Journal \in DOMAIN f
          /\ x.noted \in {<< ReplaceBy(x.from, x.at) >>, << RestoreFrom(x.from, x.at) >>}

\* What must hold of the i-th item for its turn to come out well.
FitAt(f, J, n, w, i) ==
    /\ ItemFits(w[i])
    /\ w[i].do \in {"put", "copy_entry", "copy_children"} => Will("covered", f, J, w, i, w[i].at)
    /\ w[i].do = "note" => NoteFits(f, J, w, i, w[i].inverse)
    /\ w[i].do = "set_mode" => ModeFits(f, J, w, i, w[i].at)
    /\ w[i].do = "rename" => RenameFits(f, J, n, w, i, w[i])
    /\ w[i].do = "root" => i = 1 /\ Journal \notin DOMAIN f

WorkFits(f, J, n, w) == IsList(w) /\ \A i \in 1 .. Len(w) : FitAt(f, J, n, w, i)

\* What the first item promises of the state of a path.
Promises(state, f, J, x, p) == (Has(state, f, J, p) /\ Leaves(state, x, p)) \/ Brings(state, x, p)

LEMMA WillSame ==
    ASSUME NEW state, NEW f, NEW J, NEW v, NEW w, NEW i \in Nat, NEW p,
           \A k \in 1 .. i - 1 : v[k] = w[k], Will(state, f, J, w, i, p)
    PROVE  Will(state, f, J, v, i, p)
<1>1. PICK j \in 0 .. i - 1 :
        /\ IF j = 0 THEN Has(state, f, J, p) ELSE Brings(state, w[j], p)
        /\ \A k \in j + 1 .. i - 1 : Leaves(state, w[k], p)
  BY DEF Will
<1>2. j # 0 => j \in 1 .. i - 1
  OBVIOUS
<1>3. \A k \in j + 1 .. i - 1 : k \in 1 .. i - 1
  OBVIOUS
<1>4. IF j = 0 THEN Has(state, f, J, p) ELSE Brings(state, v[j], p)
  BY <1>1, <1>2
<1>5. \A k \in j + 1 .. i - 1 : Leaves(state, v[k], p)
  BY <1>1, <1>3
<1> QED
  BY <1>4, <1>5 DEF Will

LEMMA FitSame ==
    ASSUME NEW f, NEW J, NEW n, NEW v, NEW w, NEW i \in Nat, i > 0,
           \A k \in 1 .. i : v[k] = w[k], FitAt(f, J, n, w, i)
    PROVE  FitAt(f, J, n, v, i)
<1>1. i \in 1 .. i /\ v[i] = w[i] /\ \A k \in 1 .. i - 1 : k \in 1 .. i /\ v[k] = w[k]
  OBVIOUS
<1>2. i > 1 => v[i - 1] = w[i - 1] /\ v[1] = w[1]
  BY <1>1
<1>3. \A state, p : Will(state, f, J, w, i, p) => Will(state, f, J, v, i, p)
  BY <1>1, WillSame
<1>4. v[i].do = "note" => NoteFits(f, J, v, i, v[i].inverse)
  BY <1>1, <1>3 DEF FitAt, NoteFits
<1>5. v[i].do = "set_mode" => ModeFits(f, J, v, i, v[i].at)
  BY <1>1, <1>2 DEF FitAt, ModeFits
<1>6. v[i].do = "rename" => RenameFits(f, J, n, v, i, v[i])
  BY <1>1, <1>2 DEF FitAt, RenameFits
<1> QED
  BY <1>1, <1>3, <1>4, <1>5, <1>6 DEF FitAt

\* The first item is replaced by new ones, which keep its promise.
LEMMA WillTail ==
    ASSUME NEW state, NEW f, NEW J, NEW g, NEW K, NEW w, IsList(w), NEW new, IsList(new), NEW p,
           NEW i \in 2 .. Len(w), Will(state, f, J, w, i, p),
           Promises(state, f, J, w[1], p) => Will(state, g, K, new, Len(new) + 1, p)
    PROVE  Will(state, g, K, new \o Tail(w), i + Len(new) - 1, p)
<1> DEFINE c == new \o Tail(w)
           n == Len(new)
           h == i + n - 1
<1>1. Len(w) \in Nat /\ w # << >> /\ n \in Nat
  BY ListIs
<1>2. /\ \A k \in 1 .. n : c[k] = new[k]
      /\ \A k \in 2 .. Len(w) : c[k + n - 1] = w[k]
  <2>1. IsList(Tail(w)) /\ Len(Tail(w)) = Len(w) - 1 /\ \A k \in 1 .. Len(w) - 1 : Tail(w)[k] = w[k + 1]
    BY <1>1, ListLess
  <2>2. /\ \A k \in 1 .. n : c[k] = new[k]
        /\ \A k \in 1 .. Len(w) - 1 : c[n + k] = Tail(w)[k]
    BY <2>1, ListJoined
  <2> HIDE DEF c
  <2>3. ASSUME NEW k \in 2 .. Len(w) PROVE c[k + n - 1] = w[k]
    <3>1. k - 1 \in 1 .. Len(w) - 1 /\ n + (k - 1) = k + n - 1 /\ (k - 1) + 1 = k
      BY <1>1
    <3>2. c[n + (k - 1)] = Tail(w)[k - 1] /\ Tail(w)[k - 1] = w[(k - 1) + 1]
      BY <2>1, <2>2, <3>1
    <3> QED
      BY <3>1, <3>2
  <2> QED
    BY <2>2, <2>3
<1> HIDE DEF c
<1>3. PICK j \in 0 .. i - 1 :
        /\ IF j = 0 THEN Has(state, f, J, p) ELSE Brings(state, w[j], p)
        /\ \A k \in j + 1 .. i - 1 : Leaves(state, w[k], p)
  BY DEF Will
<1>4. ASSUME NEW k \in n + 1 .. h - 1, k - n + 1 > j PROVE Leaves(state, c[k], p)
  <2> DEFINE a == k - n + 1
  <2>1. a \in 2 .. Len(w) /\ a + n - 1 = k /\ a \in j + 1 .. i - 1
    BY <1>1, <1>4
  <2> HIDE DEF a
  <2> QED
    BY <1>2, <1>3, <2>1
<1>5. CASE j >= 2
  <2> DEFINE b == j + n - 1
  <2>1. b \in 0 .. h - 1 /\ b # 0 /\ j \in 2 .. Len(w)
    BY <1>1, <1>5
  <2>2. Brings(state, c[b], p)
    BY <1>2, <1>3, <1>5, <2>1
  <2>3. \A k \in b + 1 .. h - 1 : k \in n + 1 .. h - 1 /\ k - n + 1 > j
    BY <1>1, <1>5
  <2> HIDE DEF b
  <2>4. \A k \in b + 1 .. h - 1 : Leaves(state, c[k], p)
    BY <1>4, <2>3
  <2>5. Will(state, g, K, c, h, p)
    BY <2>1, <2>2, <2>4 DEF Will
  <2> QED
    BY <2>5 DEF c
<1>6. CASE j < 2
  <2>1. Promises(state, f, J, w[1], p)
    <3>1. CASE j = 0
      <4>1. 1 \in j + 1 .. i - 1
        BY <3>1
      <4> QED
        BY <1>3, <3>1, <4>1 DEF Promises
    <3>2. CASE j = 1
      BY <1>3, <3>2 DEF Promises
    <3> QED
      BY <1>6, <3>1, <3>2
  <2>2. PICK b \in 0 .. n + 1 - 1 :
          /\ IF b = 0 THEN Has(state, g, K, p) ELSE Brings(state, new[b], p)
          /\ \A k \in b + 1 .. n + 1 - 1 : Leaves(state, new[k], p)
    BY <2>1 DEF Will
  <2>3. b \in 0 .. h - 1 /\ b \in 0 .. n
    BY <1>1
  <2>4. IF b = 0 THEN Has(state, g, K, p) ELSE Brings(state, c[b], p)
    <3>1. b # 0 => b \in 1 .. n
      BY <1>1, <2>3
    <3> QED
      BY <1>2, <2>2, <3>1
  <2>5. ASSUME NEW k \in b + 1 .. h - 1 PROVE Leaves(state, c[k], p)
    <3>1. CASE k <= n
      <4>1. k \in b + 1 .. n + 1 - 1 /\ k \in 1 .. n
        BY <1>1, <2>3, <3>1
      <4> QED
        BY <1>2, <2>2, <4>1
    <3>2. CASE k > n
      <4>1. k \in n + 1 .. h - 1 /\ k - n + 1 > j
        BY <1>1, <1>6, <2>3, <3>2
      <4> QED
        BY <1>4, <4>1
    <3> QED
      BY <1>1, <2>3, <3>1, <3>2
  <2>6. Will(state, g, K, c, h, p)
    BY <2>3, <2>4, <2>5 DEF Will
  <2> QED
    BY <2>6 DEF c
<1> QED
  BY <1>5, <1>6

LEMMA TailFits ==
    ASSUME NEW f, NEW J, NEW n, NEW g, NEW K, NEW m, NEW w, NEW new,
           WorkFits(f, J, n, w), w # << >>, IsList(new),
           \A i \in 1 .. Len(new) : FitAt(g, K, m, new, i),
           \A state \in {"covered", "away"} : \A p : Outside(p) /\ Promises(state, f, J, w[1], p)
               => Will(state, g, K, new, Len(new) + 1, p),
           w[1].do \in {"note", "put"} =>
               /\ new = << >>
               /\ Len(w) > 1 /\ w[2].do = "set_mode" => ModeFits(g, K, Tail(w), 1, w[2].at)
               /\ Len(w) > 1 /\ w[2].do = "rename" => RenameFits(g, K, m, Tail(w), 1, w[2])
    PROVE  WorkFits(g, K, m, new \o Tail(w))
<1> DEFINE c == new \o Tail(w)
           l == Len(new)
<1>1. /\ IsList(w) /\ Len(w) \in Nat /\ Len(w) > 0 /\ l \in Nat /\ IsList(Tail(w))
      /\ Len(Tail(w)) = Len(w) - 1 /\ \A k \in 1 .. Len(w) - 1 : Tail(w)[k] = w[k + 1]
  BY ListIs, ListLess DEF WorkFits
<1>2. /\ IsList(c) /\ Len(c) = l + Len(w) - 1
      /\ (\A k \in 1 .. l : c[k] = new[k]) /\ \A k \in 1 .. Len(w) - 1 : c[l + k] = Tail(w)[k]
  BY <1>1, ListJoined
<1>3. new = << >> => c = Tail(w)
  <2>1. ASSUME new = << >> PROVE c = Tail(w)
    <3>1. l = 0
      BY <2>1, ListFew
    <3> HIDE DEF c, l
    <3>2. Len(c) = Len(Tail(w)) /\ \A k \in 1 .. Len(c) : c[k] = Tail(w)[k]
      <4>1. \A k \in 1 .. Len(w) - 1 : l + k = k
        BY <1>1, <3>1
      <4> QED
        BY <1>1, <1>2, <3>1, <4>1
    <3> QED
      BY <1>1, <1>2, <3>2, ListSame
  <2> QED
    BY <2>1
<1> HIDE DEF c
<1>4. ASSUME NEW i \in 1 .. l PROVE FitAt(g, K, m, c, i)
  <2>1. i \in Nat /\ i > 0 /\ \A k \in 1 .. i : c[k] = new[k]
    BY <1>1, <1>2
  <2> QED
    BY <2>1, FitSame
<1>5. ASSUME NEW i \in 2 .. Len(w) PROVE FitAt(g, K, m, c, i + l - 1)
  <2> DEFINE h == i + l - 1
             x == w[i]
  <2>1. h \in 1 .. Len(c) /\ i \in 1 .. Len(w) /\ h \in Nat
    BY <1>1, <1>2
  <2>2. c[h] = x
    <3>1. i - 1 \in 1 .. Len(w) - 1 /\ l + (i - 1) = h /\ (i - 1) + 1 = i
      BY <1>1
    <3>2. c[l + (i - 1)] = Tail(w)[i - 1] /\ Tail(w)[i - 1] = w[(i - 1) + 1]
      BY <1>1, <1>2, <3>1
    <3> QED
      BY <3>1, <3>2
  <2>3. FitAt(f, J, n, w, i)
    BY <2>1 DEF WorkFits
  <2>4. \A state \in {"covered", "away"} : \A p : Outside(p) /\ Will(state, f, J, w, i, p)
            => Will(state, g, K, c, h, p)
    BY <1>1, WillTail DEF c
  <2>5. i = 2 => h = l + 1
    BY <1>1
  <2>6. i # 2 => c[h - 1] = w[i - 1] /\ h > 1 /\ i > 2
    <3>1. ASSUME i # 2 PROVE c[h - 1] = w[i - 1] /\ h > 1 /\ i > 2
      <4>1. i - 2 \in 1 .. Len(w) - 1 /\ l + (i - 2) = h - 1 /\ (i - 2) + 1 = i - 1 /\ h > 1 /\ i > 2
        BY <1>1, <3>1
      <4>2. c[l + (i - 2)] = Tail(w)[i - 2] /\ Tail(w)[i - 2] = w[(i - 2) + 1]
        BY <1>1, <1>2, <4>1
      <4> QED
        BY <4>1, <4>2
    <3> QED
      BY <3>1
  <2>7. new = << >> /\ i = 2 => h = 1 /\ c = Tail(w)
    BY <1>1, <1>3, <2>5, ListFew
  <2> HIDE DEF h, x
  <2>8. ItemFits(x)
    BY <2>3 DEF FitAt, x
  <2>9. x.do \in {"put", "copy_entry", "copy_children"} => Will("covered", g, K, c, h, x.at)
    <3>1. x.do \in {"put", "copy_entry", "copy_children"} => Outside(x.at)
      BY <2>8 DEF ItemFits, OnePath, TwoPaths
    <3> QED
      BY <2>3, <2>4, <3>1 DEF FitAt, x
  <2>10. x.do = "note" => NoteFits(g, K, c, h, x.inverse)
    <3>1. x.do = "note" => NoteFits(f, J, w, i, x.inverse)
      BY <2>3 DEF FitAt, x
    <3>2. i # 1
      OBVIOUS
    <3> QED
      BY <2>4, <3>1, <3>2 DEF NoteFits
  <2>11. x.do = "set_mode" => ModeFits(g, K, c, h, x.at)
    <3>1. x.do = "set_mode" => ModeFits(f, J, w, i, x.at)
      BY <2>3 DEF FitAt, x
    <3>2. ASSUME x.do = "set_mode" PROVE ModeFits(g, K, c, h, x.at)
      <4>1. i = 2 /\ w[1].do \in {"note", "put"}
        BY <3>1, <3>2 DEF ModeFits
      <4>2. Len(w) > 1 /\ x = w[2]
        BY <1>1, <4>1 DEF x
      <4> QED
        BY <2>7, <3>2, <4>1, <4>2
    <3> QED
      BY <3>2
  <2>12. x.do = "rename" => RenameFits(g, K, m, c, h, x)
    <3>1. ASSUME x.do = "rename" PROVE RenameFits(g, K, m, c, h, x)
      <4>1. RenameFits(f, J, n, w, i, x)
        BY <2>3, <3>1 DEF FitAt, x
      <4>2. /\ Outside(x.from) /\ x.noted = << >> /\ Outside(x.at)
            /\ w[i - 1] = Notes(MoveBack(x.from, x.at))
        BY <4>1 DEF RenameFits
      <4>3. CASE i = 2
        <5>1. w[1].do = "note"
          BY <4>2, <4>3 DEF Notes
        <5>2. Len(w) > 1 /\ x = w[2]
          BY <1>1, <4>3 DEF x
        <5> QED
          BY <2>7, <3>1, <4>3, <5>1, <5>2
      <4>4. CASE i # 2
        BY <2>6, <4>2, <4>4 DEF RenameFits
      <4> QED
        BY <4>3, <4>4
    <3> QED
      BY <3>1
  <2>13. x.do # "root"
    BY <2>3 DEF FitAt, x
  <2>14. FitAt(g, K, m, c, h)
    BY <2>2, <2>8, <2>9, <2>10, <2>11, <2>12, <2>13 DEF FitAt
  <2> QED
    BY <2>14 DEF h
<1>6. ASSUME NEW i \in 1 .. Len(c) PROVE FitAt(g, K, m, c, i)
  <2>1. CASE i <= l
    BY <1>1, <1>4, <2>1
  <2>2. CASE i > l
    <3> DEFINE k == i - l + 1
    <3>1. k \in 2 .. Len(w) /\ k + l - 1 = i
      BY <1>1, <1>2, <2>2
    <3> HIDE DEF k
    <3>2. FitAt(g, K, m, c, k + l - 1)
      BY <1>5, <3>1
    <3> QED
      BY <3>1, <3>2
  <2> QED
    BY <1>1, <2>1, <2>2
<1> QED
  BY <1>2, <1>6 DEF WorkFits, c

-----------------------------------------------------------------------------
(* The invariant                                                           *)

\* Every inverse is about a path outside the journal, and about nothing in it
\* before there is one.
InverseFits(f, inv) == Outside(inv.at) /\ (Journal \notin DOMAIN f => EarlyInverse(inv))

\* What is in the journal has a number given out.
InPlaces(f, n) == \A p \in DOMAIN f : Inner(p) \/ p = Journal \/ \E m \in Nat : m < n /\ Numbered(p, m)

\* While the steps run: the inverses give back the tree they started from.
Journaled == IsList(inverses) /\ (leftovers = {} => Restorable(start, fs, inverses))

\* During rollback: the inverses left do, unless something was reported.
Returning == IsList(inverses) /\ (leftovers = {} => Retraced(start, fs, inverses))

\* The tree, the journal and the work of a running execution.
Busy ==
    /\ TreeFits(fs) /\ backups \in Nat /\ InPlaces(fs, backups)
    /\ leftovers = {}
    /\ \A i \in 1 .. Len(inverses) : InverseFits(fs, inverses[i])
    /\ WorkFits(fs, inverses, backups, todo)

\* The inductive invariant.
StepsInv ==
    /\ program \in Programs /\ pc \in Nat \ {0}
    /\ phase = "execute" => Journaled /\ Busy
    /\ phase = "rollback" => Returning
    /\ phase \in {"committed", "rolled_back"} /\ leftovers = {} => Journal \notin DOMAIN fs
    /\ phase = "rolled_back" /\ leftovers = {} => fs = start

-----------------------------------------------------------------------------
(* Items that stand for others                                             *)

LEMMA Sequenced ==
    ASSUME NEW S, IsFiniteSet(S)
    PROVE  /\ IsList(SetToSeq(S)) /\ DOMAIN SetToSeq(S) = 1 .. Len(SetToSeq(S)) /\ Len(SetToSeq(S)) \in Nat
           /\ \A i \in 1 .. Len(SetToSeq(S)) : SetToSeq(S)[i] \in S
<1>1. Cardinality(S) \in Nat /\ ExistsBijection(1 .. Cardinality(S), S)
  BY FS_CardinalityType
<1>2. \E g \in [1 .. Cardinality(S) -> S] : IsInjective(g)
  BY <1>1 DEF ExistsBijection, Bijection, Injection, IsInjective
<1>3. SetToSeq(S) \in [1 .. Cardinality(S) -> S]
  BY <1>2 DEF SetToSeq
<1>4. SetToSeq(S) \in Seq(S)
  BY <1>1, <1>3
<1> QED
  BY <1>4, ListIs DEF IsList

LEMMA EmptyBefore ==
    ASSUME NEW w, IsList(w)
    PROVE  << >> \o w = w
<1> DEFINE c == << >> \o w
<1>1. IsList(<< >>) /\ Len(<< >>) = 0
  BY ListFew
<1>2. Len(w) \in Nat
  BY ListIs
<1>3. IsList(c) /\ Len(c) = 0 + Len(w) /\ \A i \in 1 .. Len(w) : c[0 + i] = w[i]
  BY <1>1, ListJoined
<1> HIDE DEF c
<1>4. Len(c) = Len(w) /\ \A i \in 1 .. Len(c) : c[i] = w[i]
  <2>1. \A i \in 1 .. Len(w) : 0 + i = i
    BY <1>2
  <2> QED
    BY <1>2, <1>3, <2>1
<1>5. c = w
  BY <1>3, <1>4, ListSame
<1> QED
  BY <1>5 DEF c

\* Items that say nothing of the state of a path, and items that ask nothing of it.
Plain == {"touch", "remove", "remove_path", "inreplace", "write", "set_permissions", "set_mode_recursive",
          "move", "move_children", "move_each", "move_child", "copy", "link_dir", "link_each", "link_entry",
          "link_children", "link_list", "symlink", "link", "run", "maintenance"}
Free(x) == ItemFits(x) /\ x.do \in Plain \cup {"mkdir", "parents", "replace", "backup"}

LEMMA FreeFits ==
    ASSUME NEW f, NEW J, NEW n, NEW w, NEW i, Free(w[i])
    PROVE  FitAt(f, J, n, w, i)
<1>1. w[i].do \notin {"put", "copy_entry", "copy_children", "note", "set_mode", "rename", "root"}
  BY DEF Free, Plain
<1> QED
  BY <1>1 DEF Free, FitAt

LEMMA PlainPromises ==
    ASSUME NEW x, x.do \in Plain, NEW state, NEW f, NEW J, NEW p
    PROVE  ~Promises(state, f, J, x, p)
<1>1. x.do \notin {"put", "copy_entry", "copy_children", "note", "set_mode", "rename", "root",
                   "mkdir", "parents", "replace", "backup"}
  BY DEF Plain
<1>2. ~Leaves(state, x, p)
  BY <1>1 DEF Leaves
<1>3. ~Brings(state, x, p)
  BY <1>1 DEF Brings
<1> QED
  BY <1>2, <1>3 DEF Promises

LEMMA FirstItem ==
    ASSUME StepsInv, phase = "execute", todo # << >>
    PROVE  /\ Journaled /\ Busy /\ Item = todo[1] /\ ItemFits(Item) /\ FitAt(fs, inverses, backups, todo, 1)
           /\ IsList(todo) /\ Len(todo) \in Nat /\ Len(todo) > 0 /\ IsList(Tail(todo))
<1>1. Journaled /\ Busy
  BY DEF StepsInv
<1>2. Item = todo[1] /\ IsList(todo) /\ Len(todo) \in Nat /\ Len(todo) > 0 /\ IsList(Tail(todo))
  BY <1>1, ListLess DEF Item, Busy, WorkFits
<1>3. FitAt(fs, inverses, backups, todo, 1)
  BY <1>1, <1>2 DEF Busy, WorkFits
<1> QED
  BY <1>1, <1>2, <1>3 DEF FitAt

LEMMA EndsKeeps ==
    ASSUME StepsInv, phase = "execute", phase' = "rollback",
           UNCHANGED << fs, inverses, unchangedByWork >>
    PROVE  StepsInv'
<1>1. Returning
  <2>1. Journaled
    BY DEF StepsInv
  <2>2. Restorable(start, fs, inverses) => Retraced(start, fs, inverses)
    BY DEF Restorable, Retraced, Traces
  <2> QED
    BY <2>1, <2>2 DEF Journaled, Returning
<1> QED
  BY <1>1 DEF StepsInv, Returning, unchangedByWork

LEMMA FailsKeeps ==
    ASSUME StepsInv, phase = "execute", Fails
    PROVE  StepsInv'
BY EndsKeeps DEF Fails

LEMMA StandsKeeps ==
    ASSUME StepsInv, phase = "execute", todo # << >>, NEW new, IsList(new), StandsFor(new),
           Item.do \notin {"note", "put"},
           \A i \in 1 .. Len(new) : FitAt(fs, inverses, backups, new, i),
           \A state \in {"covered", "away"} : \A p : Outside(p) /\ Promises(state, fs, inverses, Item, p)
               => Will(state, fs, inverses, new, Len(new) + 1, p)
    PROVE  StepsInv'
<1>1. Busy /\ Item = todo[1] /\ WorkFits(fs, inverses, backups, todo)
  BY FirstItem DEF Busy
<1>2. WorkFits(fs, inverses, backups, new \o Tail(todo))
  BY <1>1, TailFits
<1>3. /\ todo' = new \o Tail(todo)
      /\ UNCHANGED << fs, deferred, inverses, backups, phase, faults, unchangedByWork >>
  BY DEF StandsFor
<1> QED
  BY <1>1, <1>2, <1>3 DEF StepsInv, Journaled, Busy, unchangedByWork

LEMMA PlainKeeps ==
    ASSUME StepsInv, phase = "execute", todo # << >>, NEW new, IsList(new), StandsFor(new),
           Item.do \in Plain,
           \A i \in 1 .. Len(new) : FitAt(fs, inverses, backups, new, i)
    PROVE  StepsInv'
<1>1. \A state \in {"covered", "away"} : \A p : ~Promises(state, fs, inverses, Item, p)
  BY PlainPromises
<1>2. Item.do \notin {"note", "put"}
  BY DEF Plain
<1> QED
  BY <1>1, <1>2, StandsKeeps

\* Plain work becomes free work.
LEMMA FreeKeeps ==
    ASSUME StepsInv, phase = "execute", todo # << >>, NEW new, IsList(new), StandsFor(new),
           Item.do \in Plain, \A i \in 1 .. Len(new) : Free(new[i])
    PROVE  StepsInv'
BY FreeFits, PlainKeeps

-----------------------------------------------------------------------------
(* The steps                                                               *)

LEMMA UnderFacts ==
    ASSUME NEW p, Outside(p), NEW q, Outside(q)
    PROVE  Under(p, q) \in Path /\ Outside(Under(p, q)) /\ IsPrefix(p, Under(p, q))
<1>1. p \in Path /\ q \in Path /\ q # << >>
  BY DEF Outside
<1>2. q[Len(q)] \in Name /\ Last(q) = q[Len(q)]
  BY <1>1 DEF Path, Last
<1>3. p \in Seq(Name) /\ Last(q) \in Name
  BY <1>1, <1>2 DEF Path
<1> DEFINE u == Append(p, Last(q))
<1>4. u \in Seq(Name) /\ Len(u) = Len(p) + 1 /\ \A i \in 1 .. Len(p) : u[i] = p[i]
  BY <1>3, AppendProperties
<1> HIDE DEF u
<1>5. u \in Path /\ Len(p) \in Nat
  BY <1>3, <1>4 DEF Path
<1>6. IsPrefix(p, u)
  BY <1>1, <1>4, <1>5, PrefixIs
<1>7. Outside(u)
  BY <1>5, <1>6, OutsideFacts
<1> QED
  BY <1>5, <1>6, <1>7 DEF u, Under

LEMMA ChildrenFacts ==
    ASSUME NEW f, TreeFits(f), NEW p, Outside(p)
    PROVE  /\ IsFiniteSet(Children(f, p))
           /\ \A c \in Children(f, p) : c \in DOMAIN f /\ Outside(c) /\ IsPrefix(p, c)
<1>1. Children(f, p) \subseteq DOMAIN f /\ \A c \in Children(f, p) : IsPrefix(p, c)
  BY DEF Children, Subtree
<1>2. IsFiniteSet(Children(f, p))
  BY <1>1, FS_Subset DEF TreeFits
<1>3. \A c \in Children(f, p) : Outside(c)
  BY <1>1, OutsideFacts DEF TreeFits
<1> QED
  BY <1>1, <1>2, <1>3

LEMMA DestinationFacts ==
    ASSUME NEW p, Outside(p), NEW q, Outside(q)
    PROVE  Outside(DestinationFor(p, q)) /\ IsPrefix(q, DestinationFor(p, q))
<1>1. q \in Path
  BY DEF Outside
<1> QED
  BY <1>1, UnderFacts, PrefixOrder DEF DestinationFor

LEMMA FreeMade ==
    ASSUME NEW p, Outside(p)
    PROVE  /\ Free(ParentsOf(p)) /\ Free(DirectoryAt(p)) /\ Free(Replaces(p))
           /\ \A undo \in {"replace", "restore"} : Free(BacksUp(p, undo))
           /\ \A q, force : Outside(q) => Free(Links(q, p, force))
<1>1. Inner(p) /\ Inner(Parent(p))
  BY OutsideFacts DEF Inner
<1>2. Free(ParentsOf(p)) /\ Free(DirectoryAt(p))
  BY <1>1 DEF Free, ItemFits, ParentsOf, DirectoryAt, OnePath, TwoPaths, Plain
<1>3. Free(Replaces(p))
  BY DEF Free, ItemFits, Replaces, OnePath, TwoPaths, Plain
<1>4. \A undo \in {"replace", "restore"} : Free(BacksUp(p, undo))
  BY DEF Free, ItemFits, BacksUp, OnePath, TwoPaths, Plain
<1>5. \A q, force : Outside(q) => Free(Links(q, p, force))
  BY DEF Free, ItemFits, Links, OnePath, TwoPaths, Plain
<1> QED
  BY <1>2, <1>3, <1>4, <1>5

\* An item that changes its kind, or its path.
LEMMA FreeChanged ==
    ASSUME NEW x, ItemFits(x)
    PROVE  /\ x.do \in TwoPaths => /\ Free([x EXCEPT !.do = "move_each"])
                                   /\ Free([x EXCEPT !.do = "link_each"])
                                   /\ Free([x EXCEPT !.do = "link_dir"])
                                   /\ Free([x EXCEPT !.do = "link_list"])
           /\ x.do = "set_mode_recursive" => \A c : Outside(c) => Free([x EXCEPT !.at = c])
<1>1. "do" \in DOMAIN x /\ (x.do \in OnePath \cup TwoPaths => "at" \in DOMAIN x /\ Outside(x.at))
      /\ (x.do \in TwoPaths => "from" \in DOMAIN x /\ Outside(x.from))
  BY DEF ItemFits
<1>2. ASSUME x.do \in TwoPaths, NEW d \in {"move_each", "link_each", "link_dir", "link_list"}
      PROVE  Free([x EXCEPT !.do = d])
  <2> DEFINE y == [x EXCEPT !.do = d]
  <2>1. y.do = d /\ y.at = x.at /\ y.from = x.from /\ DOMAIN y = DOMAIN x
    BY <1>1, <1>2
  <2>2. d \in Plain /\ d \in TwoPaths /\ d \notin {"parents", "backup", "put"}
    BY DEF Plain, TwoPaths
  <2> HIDE DEF y
  <2>3. ItemFits(y)
    BY <1>1, <1>2, <2>1, <2>2 DEF ItemFits
  <2>4. Free(y)
    BY <2>1, <2>2, <2>3 DEF Free
  <2> QED
    BY <2>4 DEF y
<1>3. ASSUME x.do = "set_mode_recursive", NEW c, Outside(c) PROVE Free([x EXCEPT !.at = c])
  <2> DEFINE y == [x EXCEPT !.at = c]
  <2>0. x.do \in OnePath /\ x.do \notin TwoPaths /\ x.do \in Plain /\ x.do \notin {"parents", "backup", "put"}
    BY <1>3 DEF OnePath, TwoPaths, Plain
  <2>1. y.do = x.do /\ y.at = c /\ DOMAIN y = DOMAIN x
    BY <1>1, <2>0
  <2> HIDE DEF y
  <2>2. ItemFits(y)
    BY <1>1, <1>3, <2>0, <2>1 DEF ItemFits
  <2>3. Free(y)
    BY <2>0, <2>1, <2>2 DEF Free
  <2> QED
    BY <2>3 DEF y
<1> QED
  BY <1>2, <1>3

LEMMA FreeFew ==
    ASSUME StepsInv, phase = "execute", todo # << >>, Item.do \in Plain, NEW x, NEW y, NEW z
    PROVE  /\ StandsFor(<< >>) => StepsInv'
           /\ StandsFor(<< x >>) /\ Free(x) => StepsInv'
           /\ StandsFor(<< x, y >>) /\ Free(x) /\ Free(y) => StepsInv'
           /\ StandsFor(<< x, y, z >>) /\ Free(x) /\ Free(y) /\ Free(z) => StepsInv'
<1>1. StandsFor(<< >>) => StepsInv'
  <2> DEFINE w == << >>
  <2>1. IsList(w) /\ Len(w) = 0
    BY ListFew
  <2> HIDE DEF w
  <2>2. \A i \in 1 .. Len(w) : Free(w[i])
    BY <2>1
  <2>3. StandsFor(w) => StepsInv'
    BY <2>1, <2>2, FreeKeeps
  <2> QED
    BY <2>3 DEF w
<1>2. ASSUME StandsFor(<< x >>), Free(x) PROVE StepsInv'
  <2> DEFINE w == << x >>
  <2>1. IsList(w) /\ Len(w) = 1
    BY ListFew
  <2>2. StandsFor(w) /\ w[1] = x
    BY <1>2
  <2> HIDE DEF w
  <2>3. \A i \in 1 .. Len(w) : Free(w[i])
    BY <1>2, <2>1, <2>2
  <2> QED
    BY <2>1, <2>2, <2>3, FreeKeeps
<1>3. ASSUME StandsFor(<< x, y >>), Free(x), Free(y) PROVE StepsInv'
  <2> DEFINE w == << x, y >>
  <2>1. IsList(w) /\ Len(w) = 2
    BY ListFew
  <2>2. StandsFor(w) /\ w[1] = x /\ w[2] = y
    BY <1>3
  <2> HIDE DEF w
  <2>3. \A i \in 1 .. Len(w) : Free(w[i])
    BY <1>3, <2>1, <2>2
  <2> QED
    BY <2>1, <2>2, <2>3, FreeKeeps
<1>4. ASSUME StandsFor(<< x, y, z >>), Free(x), Free(y), Free(z) PROVE StepsInv'
  <2> DEFINE w == << x, y, z >>
  <2>1. IsList(w) /\ Len(w) = 3
    BY ListFew
  <2>2. StandsFor(w) /\ w[1] = x /\ w[2] = y /\ w[3] = z
    BY <1>4
  <2> HIDE DEF w
  <2>3. \A i \in 1 .. Len(w) : Free(w[i])
    BY <1>4, <2>1, <2>2
  <2> QED
    BY <2>1, <2>2, <2>3, FreeKeeps
<1> QED
  BY <1>1, <1>2, <1>3, <1>4

LEMMA EachKeeps ==
    ASSUME StepsInv, phase = "execute", todo # << >>, Item.do \in Plain, NEW S, IsFiniteSet(S),
           NEW new, StandsFor(new), new = [i \in DOMAIN SetToSeq(S) |-> new[i]],
           \A i \in DOMAIN SetToSeq(S) : SetToSeq(S)[i] \in S => Free(new[i])
    PROVE  StepsInv'
<1>1. /\ DOMAIN SetToSeq(S) = 1 .. Len(SetToSeq(S)) /\ Len(SetToSeq(S)) \in Nat
      /\ \A i \in 1 .. Len(SetToSeq(S)) : SetToSeq(S)[i] \in S
  BY Sequenced
<1>2. IsList(new) /\ Len(new) = Len(SetToSeq(S))
  BY <1>1, ListMade
<1> QED
  BY <1>1, <1>2, FreeKeeps

LEMMA MoveEachKeeps == StepsInv /\ MoveEach => StepsInv'
<1> SUFFICES ASSUME StepsInv, MoveEach PROVE StepsInv'
  OBVIOUS
<1>1. phase = "execute" /\ todo # << >> /\ Item.do = "move_each"
  BY DEF MoveEach, Doing
<1>2. TreeFits(fs) /\ Outside(Item.at) /\ Outside(Item.from) /\ Item.do \in Plain
  BY <1>1, FirstItem DEF Busy, ItemFits, TwoPaths, Plain
<1> DEFINE S == Children(fs, Item.from) \ {Item.at}
           o == SetToSeq(S)
           new == [i \in DOMAIN o |-> [do |-> "move_child", from |-> o[i], at |-> Under(Item.at, o[i])]]
<1>3. Fails \/ StandsFor(new)
  BY DEF MoveEach, EachOf
<1>4. IsFiniteSet(S) /\ \A c \in S : Outside(c)
  BY <1>2, ChildrenFacts, FS_Subset
<1>5. \A i \in DOMAIN o : o[i] \in S => Free(new[i])
  <2> SUFFICES ASSUME NEW i \in DOMAIN o, o[i] \in S PROVE Free(new[i])
    OBVIOUS
  <2>1. Outside(o[i]) /\ Outside(Under(Item.at, o[i]))
    BY <1>2, <1>4, UnderFacts
  <2>2. new[i] = [do |-> "move_child", from |-> o[i], at |-> Under(Item.at, o[i])]
    OBVIOUS
  <2> HIDE DEF o, new
  <2> QED
    BY <2>1, <2>2 DEF Free, ItemFits, OnePath, TwoPaths, Plain
<1>6. new = [i \in DOMAIN o |-> new[i]]
  OBVIOUS
<1> HIDE DEF S, new
<1>7. StandsFor(new) => StepsInv'
  BY <1>1, <1>2, <1>4, <1>5, <1>6, EachKeeps
<1> QED
  BY <1>1, <1>3, <1>7, FailsKeeps

LEMMA JoinedAs ==
    ASSUME NEW a, NEW b, IsList(a), IsList(b), NEW c, c = a \o b
    PROVE  /\ IsList(c) /\ Len(c) = Len(a) + Len(b)
           /\ \A i \in 1 .. Len(a) : c[i] = a[i]
           /\ \A i \in 1 .. Len(b) : c[Len(a) + i] = b[i]
<1>1. IsList(c) /\ Len(c) = Len(a) + Len(b)
  BY ListJoined
<1>2. \A i \in 1 .. Len(a) : c[i] = a[i]
  BY ListJoined
<1>3. \A i \in 1 .. Len(b) : c[Len(a) + i] = b[i]
  BY ListJoined
<1> QED
  BY <1>1, <1>2, <1>3

LEMMA JoinedOne ==
    ASSUME NEW x, NEW m, IsList(m)
    PROVE  /\ IsList(<< x >> \o m) /\ Len(<< x >> \o m) = 1 + Len(m) /\ Len(m) \in Nat
           /\ (<< x >> \o m)[1] = x /\ \A i \in 1 .. Len(m) : (<< x >> \o m)[1 + i] = m[i]
<1>1. PICK a : a = << x >>
  OBVIOUS
<1>2. PICK c : c = a \o m
  OBVIOUS
<1>3. IsList(a) /\ Len(a) = 1 /\ Len(m) \in Nat /\ a[1] = x
  <2>1. IsList(a) /\ Len(a) = 1
    BY <1>1, ListFew
  <2> QED
    BY <1>1, <2>1, ListIs
<1>4. /\ IsList(c) /\ Len(c) = Len(a) + Len(m) /\ (\A i \in 1 .. Len(a) : c[i] = a[i])
      /\ \A i \in 1 .. Len(m) : c[Len(a) + i] = m[i]
  <2>1. IsList(a)
    BY <1>3
  <2>2. IsList(c) /\ Len(c) = Len(a) + Len(m)
    BY <1>2, <2>1, JoinedAs
  <2>3. (\A i \in 1 .. Len(a) : c[i] = a[i]) /\ \A i \in 1 .. Len(m) : c[Len(a) + i] = m[i]
    BY <1>2, <2>1, JoinedAs
  <2> QED
    BY <2>2, <2>3
<1>5. IsList(c) /\ Len(c) = 1 + Len(m) /\ c[1] = x /\ \A i \in 1 .. Len(m) : c[1 + i] = m[i]
  BY <1>3, <1>4
<1>6. c = << x >> \o m
  BY <1>1, <1>2
<1> QED
  BY <1>3, <1>5, <1>6

\* The work after parents and what may have to give way.
LEMMA JoinedWork ==
    ASSUME NEW x, NEW m, IsList(m), NEW y, NEW z
    PROVE  LET c == << x >> \o m \o << y, z >>
               l == Len(m) IN
           /\ IsList(c) /\ Len(c) = l + 3 /\ l \in Nat
           /\ c[1] = x /\ (\A i \in 1 .. l : c[1 + i] = m[i]) /\ c[l + 2] = y /\ c[l + 3] = z
<1>1. PICK a : a = << x >> \o m
  OBVIOUS
<1>2. PICK b : b = << y, z >>
  OBVIOUS
<1>3. PICK c : c = a \o b
  OBVIOUS
<1>4. /\ IsList(a) /\ Len(a) = 1 + Len(m) /\ Len(m) \in Nat
      /\ a[1] = x /\ \A i \in 1 .. Len(m) : a[1 + i] = m[i]
  BY <1>1, JoinedOne
<1>5. IsList(b) /\ Len(b) = 2 /\ b[1] = y /\ b[2] = z
  <2>1. IsList(b) /\ Len(b) = 2
    BY <1>2, ListFew
  <2> QED
    BY <1>2, <2>1
<1>6. /\ IsList(c) /\ Len(c) = Len(a) + Len(b) /\ (\A i \in 1 .. Len(a) : c[i] = a[i])
      /\ \A i \in 1 .. Len(b) : c[Len(a) + i] = b[i]
  <2>1. IsList(a) /\ IsList(b)
    BY <1>4, <1>5
  <2>2. IsList(c) /\ Len(c) = Len(a) + Len(b)
    BY <1>3, <2>1, JoinedAs
  <2>3. (\A i \in 1 .. Len(a) : c[i] = a[i]) /\ \A i \in 1 .. Len(b) : c[Len(a) + i] = b[i]
    BY <1>3, <2>1, JoinedAs
  <2> QED
    BY <2>2, <2>3
<1>7. c[Len(a) + 1] = y /\ c[Len(a) + 2] = z
  BY <1>5, <1>6
<1>8. Len(a) + 1 = Len(m) + 2 /\ Len(a) + 2 = Len(m) + 3 /\ Len(c) = Len(m) + 3 /\ 1 \in 1 .. Len(a)
      /\ \A i \in 1 .. Len(m) : 1 + i \in 1 .. Len(a)
  BY <1>4, <1>5, <1>6
<1>9. c[1] = x /\ \A i \in 1 .. Len(m) : c[1 + i] = m[i]
  BY <1>4, <1>6, <1>8
<1>10. c[Len(m) + 2] = y /\ c[Len(m) + 3] = z
  BY <1>7, <1>8
<1>11. c = << x >> \o m \o << y, z >>
  BY <1>1, <1>2, <1>3
<1> QED
  BY <1>4, <1>6, <1>8, <1>9, <1>10, <1>11

LEMMA Joint ==
    ASSUME NEW x
    PROVE  << x >> \o << >> = << x >>
OBVIOUS

LEMMA SpecialFits ==
    ASSUME NEW f, NEW J, NEW n, NEW w, NEW i, NEW p, NEW q, NEW e
    PROVE  /\ w[i] = Notes(e) /\ NoteFits(f, J, w, i, e) => FitAt(f, J, n, w, i)
           /\ w[i] = Puts(p, e) /\ Outside(p) /\ IsEntry(e) /\ Will("covered", f, J, w, i, p)
              => FitAt(f, J, n, w, i)
           /\ w[i] = Renames(p, q, e) /\ RenameFits(f, J, n, w, i, Renames(p, q, e)) => FitAt(f, J, n, w, i)
           /\ w[i] = [do |-> "set_mode", at |-> p, mode |-> e] /\ Outside(p) /\ ModeFits(f, J, w, i, p)
              => FitAt(f, J, n, w, i)
<1>1. ASSUME w[i] = Notes(e), NoteFits(f, J, w, i, e) PROVE FitAt(f, J, n, w, i)
  <2>1. w[i].do = "note" /\ w[i].inverse = e /\ "do" \in DOMAIN w[i]
    BY <1>1 DEF Notes
  <2> QED
    BY <1>1, <2>1 DEF FitAt, ItemFits, OnePath, TwoPaths
<1>2. ASSUME w[i] = Puts(p, e), Outside(p), IsEntry(e), Will("covered", f, J, w, i, p)
      PROVE  FitAt(f, J, n, w, i)
  <2>1. w[i].do = "put" /\ w[i].at = p /\ w[i].entry = e /\ "do" \in DOMAIN w[i] /\ "at" \in DOMAIN w[i]
    BY <1>2 DEF Puts
  <2> QED
    BY <1>2, <2>1 DEF FitAt, ItemFits, OnePath, TwoPaths
<1>3. ASSUME w[i] = Renames(p, q, e), RenameFits(f, J, n, w, i, Renames(p, q, e)) PROVE FitAt(f, J, n, w, i)
  <2>1. w[i].do = "rename" /\ "do" \in DOMAIN w[i]
    BY <1>3 DEF Renames
  <2> QED
    BY <1>3, <2>1 DEF FitAt, ItemFits, OnePath, TwoPaths
<1>4. ASSUME w[i] = [do |-> "set_mode", at |-> p, mode |-> e], Outside(p), ModeFits(f, J, w, i, p)
      PROVE  FitAt(f, J, n, w, i)
  <2>1. w[i].do = "set_mode" /\ w[i].at = p /\ "do" \in DOMAIN w[i] /\ "at" \in DOMAIN w[i]
    BY <1>4
  <2> QED
    BY <1>4, <2>1 DEF FitAt, ItemFits, OnePath, TwoPaths
<1> QED
  BY <1>1, <1>2, <1>3, <1>4

LEMMA TouchKeeps == StepsInv /\ Touch => StepsInv'
<1> SUFFICES ASSUME StepsInv, Touch PROVE StepsInv'
  OBVIOUS
<1> DEFINE p == Item.at
<1>1. phase = "execute" /\ todo # << >> /\ Item.do = "touch"
  BY DEF Touch, Doing
<1>2. Outside(p) /\ Item.do \in Plain
  BY <1>1, FirstItem DEF ItemFits, OnePath, Plain
<1>3. Free(ParentsOf(p))
  BY <1>2, FreeMade
<1>4. CASE p \in DOMAIN fs
  <2>1. StandsFor(<< ParentsOf(p) >> \o << >>)
    BY <1>4 DEF Touch
  <2>2. StandsFor(<< ParentsOf(p) >>)
    BY <2>1, Joint
  <2> QED
    BY <1>1, <1>2, <1>3, <2>2, FreeFew
<1>5. CASE p \notin DOMAIN fs
  <2> DEFINE m == << Notes(RemovalOf(p)), Puts(p, File("empty")) >>
             c == << ParentsOf(p) >> \o m
  <2>1. StandsFor(c)
    BY <1>5 DEF Touch
  <2>2. IsList(m) /\ Len(m) = 2
    BY ListFew
  <2>3. m[1] = Notes(RemovalOf(p)) /\ m[2] = Puts(p, File("empty"))
    OBVIOUS
  <2> HIDE DEF m
  <2>4. /\ IsList(c) /\ Len(c) = 1 + Len(m) /\ c[1] = ParentsOf(p)
        /\ \A i \in 1 .. Len(m) : c[1 + i] = m[i]
    BY <2>2, JoinedOne
  <2> HIDE DEF c
  <2>5. Len(c) = 3 /\ c[2] = Notes(RemovalOf(p)) /\ c[3] = Puts(p, File("empty"))
    <3>1. 1 + 1 = 2 /\ 1 + 2 = 3 /\ 1 \in 1 .. Len(m) /\ 2 \in 1 .. Len(m)
      BY <2>2
    <3>2. c[1 + 1] = m[1] /\ c[1 + 2] = m[2]
      BY <2>4, <3>1
    <3> QED
      BY <2>2, <2>3, <2>4, <3>2
  <2>6. Leaves("away", c[1], p)
    <3>1. ~IsPrefix(p, Parent(p))
      BY <1>2, ParentFacts, PrefixOrder DEF Outside
    <3> QED
      BY <2>4, <3>1 DEF Leaves, ParentsOf
  <2>7. Will("away", fs, inverses, c, 2, p)
    BY <1>5, <2>6 DEF Will, Has
  <2>8. Will("covered", fs, inverses, c, 3, p)
    <3>1. IsPrefix(p, p)
      BY <1>2, PrefixOrder DEF Outside
    <3>2. Brings("covered", c[2], p)
      BY <2>5, <3>1 DEF Brings, Notes, RemovalOf
    <3> QED
      BY <3>2 DEF Will
  <2>9. FitAt(fs, inverses, backups, c, 1)
    BY <1>3, <2>4, FreeFits
  <2>10. FitAt(fs, inverses, backups, c, 2)
    <3>1. NoteFits(fs, inverses, c, 2, RemovalOf(p))
      BY <1>2, <2>7 DEF NoteFits, RemovalOf
    <3> QED
      BY <2>5, <3>1, SpecialFits
  <2>11. FitAt(fs, inverses, backups, c, 3)
    BY <1>2, <2>5, <2>8, SpecialFits DEF IsEntry, File
  <2>12. \A i \in 1 .. Len(c) : FitAt(fs, inverses, backups, c, i)
    BY <2>5, <2>9, <2>10, <2>11
  <2> QED
    BY <1>1, <1>2, <2>1, <2>4, <2>12, PlainKeeps
<1> QED
  BY <1>4, <1>5

LEMMA MoveKeeps == StepsInv /\ Move => StepsInv'
<1> SUFFICES ASSUME StepsInv, Move PROVE StepsInv'
  OBVIOUS
<1> DEFINE p == Item.from
           q == DestinationFor(p, Item.at)
           m == IF q \in DOMAIN fs THEN << BacksUp(q, "replace") >> ELSE << >>
           c == << ParentsOf(Item.at) >> \o m \o << Notes(MoveBack(p, q)), Renames(p, q, << >>) >>
           l == Len(m)
<1>1. phase = "execute" /\ todo # << >> /\ Item.do = "move"
  BY DEF Move, Doing
<1>2. Outside(p) /\ Outside(Item.at) /\ Item.do \in Plain
  BY <1>1, FirstItem DEF ItemFits, TwoPaths, Plain
<1>3. Outside(q) /\ IsPrefix(Item.at, q)
  BY <1>2, DestinationFacts
<1>4. Free(ParentsOf(Item.at)) /\ Free(BacksUp(q, "replace"))
  BY <1>2, <1>3, FreeMade
<1>5. Fails \/ StandsFor(c)
  BY DEF Move
<1>6. CASE StandsFor(c)
  <2>1. IsList(m) /\ (q \in DOMAIN fs => l = 1 /\ m[1] = BacksUp(q, "replace")) /\ (q \notin DOMAIN fs => l = 0)
    <3>1. IsList(<< >>) /\ IsList(<< BacksUp(q, "replace") >>)
          /\ Len(<< >>) = 0 /\ Len(<< BacksUp(q, "replace") >>) = 1
      BY ListFew
    <3> QED
      BY <3>1
  <2> HIDE DEF m
  <2>2. /\ IsList(c) /\ Len(c) = l + 3 /\ l \in Nat /\ c[1] = ParentsOf(Item.at)
        /\ (\A i \in 1 .. l : c[1 + i] = m[i])
        /\ c[l + 2] = Notes(MoveBack(p, q)) /\ c[l + 3] = Renames(p, q, << >>)
    <3>1. IsList(c) /\ Len(c) = l + 3 /\ l \in Nat
      BY <2>1, JoinedWork
    <3>2. c[1] = ParentsOf(Item.at)
      BY <2>1, JoinedWork
    <3>3. \A i \in 1 .. l : c[1 + i] = m[i]
      BY <2>1, JoinedWork
    <3>4. c[l + 2] = Notes(MoveBack(p, q)) /\ c[l + 3] = Renames(p, q, << >>)
      BY <2>1, JoinedWork
    <3> HIDE DEF c, l
    <3> QED
      BY <3>1, <3>2, <3>3, <3>4
  <2> HIDE DEF c, l, q
  <2>3. FitAt(fs, inverses, backups, c, 1)
    BY <1>4, <2>2, FreeFits
  <2>4. ASSUME q \in DOMAIN fs PROVE c[2] = BacksUp(q, "replace") /\ FitAt(fs, inverses, backups, c, 2)
    <3>1. l = 1 /\ 1 \in 1 .. l /\ 1 + 1 = 2
      BY <2>1, <2>4 DEF l
    <3>2. c[1 + 1] = m[1]
      BY <2>2, <3>1
    <3>3. c[2] = BacksUp(q, "replace")
      BY <2>1, <2>4, <3>1, <3>2
    <3> QED
      BY <1>4, <3>3, FreeFits
  <2>5. Will("away", fs, inverses, c, l + 2, q)
    <3>1. CASE q \in DOMAIN fs
      <4>1. Brings("away", c[2], q)
        BY <2>4, <3>1 DEF Brings, BacksUp
      <4>2. l + 2 = 3
        BY <2>1, <3>1
      <4> QED
        BY <4>1, <4>2 DEF Will
    <3>2. CASE q \notin DOMAIN fs
      <4>1. ~IsPrefix(q, Parent(Item.at))
        BY <1>2, <1>3, ParentFacts, PrefixOrder DEF Outside
      <4>2. Leaves("away", c[1], q)
        BY <2>2, <4>1 DEF Leaves, ParentsOf
      <4>3. l + 2 = 2
        BY <2>1, <3>2 DEF l
      <4> QED
        BY <3>2, <4>2, <4>3 DEF Will, Has
    <3> QED
      BY <3>1, <3>2
  <2>6. FitAt(fs, inverses, backups, c, l + 2)
    <3>1. NoteFits(fs, inverses, c, l + 2, MoveBack(p, q))
      BY <1>2, <1>3, <2>5 DEF NoteFits, MoveBack, q
    <3> QED
      BY <2>2, <3>1, SpecialFits
  <2>7. FitAt(fs, inverses, backups, c, l + 3)
    <3>1. l + 3 > 1 /\ (l + 3) - 1 = l + 2
      BY <2>2
    <3>2. RenameFits(fs, inverses, backups, c, l + 3, Renames(p, q, << >>))
      BY <1>2, <1>3, <2>2, <3>1 DEF RenameFits, Renames, q
    <3> QED
      BY <2>2, <3>2, SpecialFits
  <2>8. ASSUME NEW i \in 1 .. Len(c) PROVE FitAt(fs, inverses, backups, c, i)
    <3>1. i = 1 \/ i = l + 2 \/ i = l + 3 \/ (i = 2 /\ q \in DOMAIN fs)
      BY <2>1, <2>2 DEF l
    <3> QED
      BY <2>3, <2>4, <2>6, <2>7, <3>1
  <2> QED
    BY <1>1, <1>2, <1>6, <2>2, <2>8, PlainKeeps
<1> QED
  BY <1>1, <1>5, <1>6, FailsKeeps

LEMMA MoveChildKeeps == StepsInv /\ MoveChild => StepsInv'
<1> SUFFICES ASSUME StepsInv, MoveChild PROVE StepsInv'
  OBVIOUS
<1> DEFINE p == Item.from
           q == Item.at
           c == << Notes(MoveBack(p, q)), Renames(p, q, << >>) >>
<1>1. phase = "execute" /\ todo # << >> /\ Item.do = "move_child"
  BY DEF MoveChild, Doing
<1>2. Outside(p) /\ Outside(q) /\ Item.do \in Plain
  BY <1>1, FirstItem DEF ItemFits, TwoPaths, Plain
<1>3. CASE q \in DOMAIN fs
  BY <1>1, <1>3, FailsKeeps DEF MoveChild
<1>4. CASE q \notin DOMAIN fs
  <2>1. StandsFor(c)
    BY <1>4 DEF MoveChild
  <2>2. IsList(c) /\ Len(c) = 2
    BY ListFew
  <2>3. c[1] = Notes(MoveBack(p, q)) /\ c[2] = Renames(p, q, << >>)
    OBVIOUS
  <2> HIDE DEF c
  <2>4. FitAt(fs, inverses, backups, c, 1)
    <3>1. Will("away", fs, inverses, c, 1, q)
      BY <1>4 DEF Will, Has
    <3>2. NoteFits(fs, inverses, c, 1, MoveBack(p, q))
      BY <1>2, <3>1 DEF NoteFits, MoveBack
    <3> QED
      BY <2>3, <3>2, SpecialFits
  <2>5. FitAt(fs, inverses, backups, c, 2)
    <3>1. RenameFits(fs, inverses, backups, c, 2, Renames(p, q, << >>))
      BY <1>2, <2>3 DEF RenameFits, Renames
    <3> QED
      BY <2>3, <3>1, SpecialFits
  <2>6. \A i \in 1 .. Len(c) : FitAt(fs, inverses, backups, c, i)
    BY <2>2, <2>4, <2>5
  <2> QED
    BY <1>1, <1>2, <2>1, <2>2, <2>6, PlainKeeps
<1> QED
  BY <1>3, <1>4

LEMMA GlobFacts ==
    ASSUME NEW x, TreeFits(fs), Outside(x.at)
    PROVE  IsFiniteSet(Glob(x)) /\ \A p \in Glob(x) : Outside(p)
<1>1. IsFiniteSet(Children(fs, x.at)) /\ \A p \in Children(fs, x.at) : Outside(p)
  BY ChildrenFacts
<1>2. IsFiniteSet({x.at} \cap DOMAIN fs)
  BY FS_Subset DEF TreeFits
<1> QED
  BY <1>1, <1>2 DEF Glob

LEMMA FreeJoined ==
    ASSUME StepsInv, phase = "execute", todo # << >>, Item.do \in Plain,
           NEW a, NEW b, IsList(a), IsList(b), \A i \in 1 .. Len(a) : Free(a[i]),
           \A i \in 1 .. Len(b) : Free(b[i]), StandsFor(a \o b)
    PROVE  StepsInv'
<1>1. PICK c : c = a \o b
  OBVIOUS
<1>2. IsList(c) /\ Len(c) = Len(a) + Len(b)
  BY <1>1, JoinedAs
<1>3. (\A i \in 1 .. Len(a) : c[i] = a[i]) /\ \A i \in 1 .. Len(b) : c[Len(a) + i] = b[i]
  BY <1>1, JoinedAs
<1>4. Len(a) \in Nat /\ Len(b) \in Nat
  BY ListIs
<1>5. ASSUME NEW i \in 1 .. Len(c) PROVE Free(c[i])
  <2>1. CASE i <= Len(a)
    BY <1>3, <1>4, <2>1
  <2>2. CASE i > Len(a)
    <3> DEFINE k == i - Len(a)
    <3>1. k \in 1 .. Len(b) /\ Len(a) + k = i
      BY <1>2, <1>4, <2>2
    <3> HIDE DEF k
    <3>2. c[Len(a) + k] = b[k]
      BY <1>3, <3>1
    <3> QED
      BY <3>1, <3>2
  <2> QED
    BY <1>2, <1>4, <2>1, <2>2
<1>6. StandsFor(c)
  BY <1>1
<1> QED
  BY <1>2, <1>5, <1>6, FreeKeeps

\* Content that takes the place of what is there.
LEMMA ReplacedAndPut ==
    ASSUME StepsInv, phase = "execute", todo # << >>, Item.do \in Plain, NEW p, Outside(p), NEW e, IsEntry(e),
           StandsFor(<< Replaces(p), ParentsOf(p), Puts(p, e) >>)
    PROVE  StepsInv'
<1>1. PICK c : c = << Replaces(p), ParentsOf(p), Puts(p, e) >>
  OBVIOUS
<1>2. IsList(c) /\ Len(c) = 3
  BY <1>1, ListFew
<1>3. c[1] = Replaces(p) /\ c[2] = ParentsOf(p) /\ c[3] = Puts(p, e) /\ StandsFor(c)
  BY <1>1
<1>4. FitAt(fs, inverses, backups, c, 1) /\ FitAt(fs, inverses, backups, c, 2)
  BY <1>3, FreeMade, FreeFits
<1>5. FitAt(fs, inverses, backups, c, 3)
  <2>1. IsPrefix(p, p) /\ IsPrefix(Parent(p), p)
    BY PrefixOrder, ParentFacts DEF Outside
  <2>2. Brings("covered", c[1], p) /\ Leaves("covered", c[2], p)
    BY <1>3, <2>1 DEF Brings, Leaves, Replaces, ParentsOf
  <2>3. Will("covered", fs, inverses, c, 3, p)
    <3>1. 1 \in 0 .. 3 - 1 /\ \A k \in 1 + 1 .. 3 - 1 : k = 2
      OBVIOUS
    <3> QED
      BY <2>2, <3>1 DEF Will
  <2> QED
    BY <1>3, <2>3, SpecialFits
<1>6. \A i \in 1 .. Len(c) : FitAt(fs, inverses, backups, c, i)
  BY <1>2, <1>4, <1>5
<1> QED
  BY <1>2, <1>3, <1>6, PlainKeeps

LEMMA MoveChildrenKeeps == StepsInv /\ MoveChildren => StepsInv'
<1> SUFFICES ASSUME StepsInv, MoveChildren PROVE StepsInv'
  OBVIOUS
<1>1. phase = "execute" /\ todo # << >> /\ Item.do = "move_children"
  BY DEF MoveChildren, Doing
<1>2. Outside(Item.at) /\ Item.do \in Plain /\ Item.do \in TwoPaths /\ ItemFits(Item)
  BY <1>1, FirstItem DEF ItemFits, TwoPaths, Plain
<1>3. Free(DirectoryAt(Item.at)) /\ Free([Item EXCEPT !.do = "move_each"])
  BY <1>2, FreeMade, FreeChanged
<1>4. StandsFor(<< DirectoryAt(Item.at), [Item EXCEPT !.do = "move_each"] >>)
  BY DEF MoveChildren
<1> QED
  BY <1>1, <1>2, <1>3, <1>4, FreeFew

LEMMA LinkTreeKeeps == StepsInv /\ LinkTree => StepsInv'
<1> SUFFICES ASSUME StepsInv, LinkTree PROVE StepsInv'
  OBVIOUS
<1>1. phase = "execute" /\ todo # << >> /\ Item.do = "link_dir"
  BY DEF LinkTree, Doing
<1>2. Outside(Item.at) /\ Item.do \in Plain /\ Item.do \in TwoPaths /\ ItemFits(Item)
  BY <1>1, FirstItem DEF ItemFits, TwoPaths, Plain
<1>3. Free(DirectoryAt(Item.at)) /\ Free([Item EXCEPT !.do = "link_each"])
  BY <1>2, FreeMade, FreeChanged
<1>4. StandsFor(<< DirectoryAt(Item.at), [Item EXCEPT !.do = "link_each"] >>)
  BY DEF LinkTree
<1> QED
  BY <1>1, <1>2, <1>3, <1>4, FreeFew

LEMMA LinkChildrenKeeps == StepsInv /\ LinkChildren => StepsInv'
<1> SUFFICES ASSUME StepsInv, LinkChildren PROVE StepsInv'
  OBVIOUS
<1>1. phase = "execute" /\ todo # << >> /\ Item.do = "link_children"
  BY DEF LinkChildren, Doing
<1>2. Outside(Item.at) /\ Item.do \in Plain /\ Item.do \in TwoPaths /\ ItemFits(Item)
  BY <1>1, FirstItem DEF ItemFits, TwoPaths, Plain
<1>3. Free(DirectoryAt(Item.at)) /\ Free([Item EXCEPT !.do = "link_list"])
  BY <1>2, FreeMade, FreeChanged
<1>4. StandsFor(<< DirectoryAt(Item.at), [Item EXCEPT !.do = "link_list"] >>)
  BY DEF LinkChildren
<1> QED
  BY <1>1, <1>2, <1>3, <1>4, FreeFew

LEMMA RemovePathsKeeps == StepsInv /\ RemovePaths => StepsInv'
<1> SUFFICES ASSUME StepsInv, RemovePaths PROVE StepsInv'
  OBVIOUS
<1>1. phase = "execute" /\ todo # << >> /\ Item.do = "remove"
  BY DEF RemovePaths, Doing
<1>2. TreeFits(fs) /\ Outside(Item.at) /\ Item.do \in Plain
  BY <1>1, FirstItem DEF Busy, ItemFits, OnePath, TwoPaths, Plain
<1> DEFINE S == Glob(Item)
           o == SetToSeq(S)
           new == [i \in DOMAIN o |-> [do |-> "remove_path", at |-> o[i], recursive |-> Item.recursive, only |-> Item.only]]
<1>3. Fails \/ StandsFor(new)
  BY DEF RemovePaths, EachOf
<1>4. IsFiniteSet(S) /\ \A c \in S : Outside(c)
  BY <1>2, GlobFacts
<1>5. \A i \in DOMAIN o : o[i] \in S => Free(new[i])
  <2> SUFFICES ASSUME NEW i \in DOMAIN o, o[i] \in S PROVE Free(new[i])
    OBVIOUS
  <2>1. Outside(o[i]) /\ Outside(Under(Item.at, o[i]))
    BY <1>2, <1>4, UnderFacts
  <2>2. new[i] = [do |-> "remove_path", at |-> o[i], recursive |-> Item.recursive, only |-> Item.only]
    OBVIOUS
  <2> HIDE DEF o, new
  <2> QED
    BY <2>1, <2>2 DEF Free, ItemFits, OnePath, TwoPaths, Plain
<1>6. new = [i \in DOMAIN o |-> new[i]]
  OBVIOUS
<1> HIDE DEF S, new
<1>7. StandsFor(new) => StepsInv'
  BY <1>1, <1>2, <1>4, <1>5, <1>6, EachKeeps
<1> QED
  BY <1>1, <1>3, <1>7, FailsKeeps

LEMMA LinkEachKeeps == StepsInv /\ LinkEach => StepsInv'
<1> SUFFICES ASSUME StepsInv, LinkEach PROVE StepsInv'
  OBVIOUS
<1>1. phase = "execute" /\ todo # << >> /\ Item.do = "link_each"
  BY DEF LinkEach, Doing
<1>2. TreeFits(fs) /\ Outside(Item.at) /\ Item.do \in Plain /\ Outside(Item.from)
  BY <1>1, FirstItem DEF Busy, ItemFits, OnePath, TwoPaths, Plain
<1> DEFINE S == Children(fs, Item.from)
           o == SetToSeq(S)
           new == [i \in DOMAIN o |-> [do |-> "link_entry", from |-> o[i], at |-> Under(Item.at, o[i])]]
<1>3. Fails \/ StandsFor(new)
  BY DEF LinkEach, EachOf
<1>4. IsFiniteSet(S) /\ \A c \in S : Outside(c)
  BY <1>2, ChildrenFacts
<1>5. \A i \in DOMAIN o : o[i] \in S => Free(new[i])
  <2> SUFFICES ASSUME NEW i \in DOMAIN o, o[i] \in S PROVE Free(new[i])
    OBVIOUS
  <2>1. Outside(o[i]) /\ Outside(Under(Item.at, o[i]))
    BY <1>2, <1>4, UnderFacts
  <2>2. new[i] = [do |-> "link_entry", from |-> o[i], at |-> Under(Item.at, o[i])]
    OBVIOUS
  <2> HIDE DEF o, new
  <2> QED
    BY <2>1, <2>2 DEF Free, ItemFits, OnePath, TwoPaths, Plain
<1>6. new = [i \in DOMAIN o |-> new[i]]
  OBVIOUS
<1> HIDE DEF S, new
<1>7. StandsFor(new) => StepsInv'
  BY <1>1, <1>2, <1>4, <1>5, <1>6, EachKeeps
<1> QED
  BY <1>1, <1>3, <1>7, FailsKeeps

LEMMA LinkListKeeps == StepsInv /\ LinkList => StepsInv'
<1> SUFFICES ASSUME StepsInv, LinkList PROVE StepsInv'
  OBVIOUS
<1>1. phase = "execute" /\ todo # << >> /\ Item.do = "link_list"
  BY DEF LinkList, Doing
<1>2. TreeFits(fs) /\ Outside(Item.at) /\ Item.do \in Plain /\ Outside(Item.from)
  BY <1>1, FirstItem DEF Busy, ItemFits, OnePath, TwoPaths, Plain
<1> DEFINE S == Children(fs, Item.from)
           o == SetToSeq(S)
           new == [i \in DOMAIN o |-> Links(o[i], Under(Item.at, o[i]), FALSE)]
<1>3. Fails \/ StandsFor(new)
  BY DEF LinkList, EachOf
<1>4. IsFiniteSet(S) /\ \A c \in S : Outside(c)
  BY <1>2, ChildrenFacts
<1>5. \A i \in DOMAIN o : o[i] \in S => Free(new[i])
  <2> SUFFICES ASSUME NEW i \in DOMAIN o, o[i] \in S PROVE Free(new[i])
    OBVIOUS
  <2>1. Outside(o[i]) /\ Outside(Under(Item.at, o[i]))
    BY <1>2, <1>4, UnderFacts
  <2>2. new[i] = Links(o[i], Under(Item.at, o[i]), FALSE)
    OBVIOUS
  <2> HIDE DEF o, new
  <2> QED
    BY <2>1, <2>2, FreeMade
<1>6. new = [i \in DOMAIN o |-> new[i]]
  OBVIOUS
<1> HIDE DEF S, new
<1>7. StandsFor(new) => StepsInv'
  BY <1>1, <1>2, <1>4, <1>5, <1>6, EachKeeps
<1> QED
  BY <1>1, <1>3, <1>7, FailsKeeps

LEMMA SetPermissionsKeeps == StepsInv /\ SetPermissions => StepsInv'
<1> SUFFICES ASSUME StepsInv, SetPermissions PROVE StepsInv'
  OBVIOUS
<1>1. phase = "execute" /\ todo # << >> /\ Item.do = "set_permissions"
  BY DEF SetPermissions, Doing
<1>2. TreeFits(fs) /\ Outside(Item.at) /\ Item.do \in Plain
  BY <1>1, FirstItem DEF Busy, ItemFits, OnePath, TwoPaths, Plain
<1> DEFINE S == Glob(Item)
           o == SetToSeq(S)
           new == [i \in DOMAIN o |-> [do |-> "set_mode_recursive", at |-> o[i], mode |-> Item.mode, recursive |-> Item.recursive]]
<1>3. Fails \/ StandsFor(new)
  BY DEF SetPermissions, EachOf
<1>4. IsFiniteSet(S) /\ \A c \in S : Outside(c)
  BY <1>2, GlobFacts
<1>5. \A i \in DOMAIN o : o[i] \in S => Free(new[i])
  <2> SUFFICES ASSUME NEW i \in DOMAIN o, o[i] \in S PROVE Free(new[i])
    OBVIOUS
  <2>1. Outside(o[i]) /\ Outside(Under(Item.at, o[i]))
    BY <1>2, <1>4, UnderFacts
  <2>2. new[i] = [do |-> "set_mode_recursive", at |-> o[i], mode |-> Item.mode, recursive |-> Item.recursive]
    OBVIOUS
  <2> HIDE DEF o, new
  <2> QED
    BY <2>1, <2>2 DEF Free, ItemFits, OnePath, TwoPaths, Plain
<1>6. new = [i \in DOMAIN o |-> new[i]]
  OBVIOUS
<1> HIDE DEF S, new
<1>7. StandsFor(new) => StepsInv'
  BY <1>1, <1>2, <1>4, <1>5, <1>6, EachKeeps
<1> QED
  BY <1>1, <1>3, <1>7, FailsKeeps

LEMMA RemovePathKeeps == StepsInv /\ RemovePath => StepsInv'
<1> SUFFICES ASSUME StepsInv, RemovePath PROVE StepsInv'
  OBVIOUS
<1>1. phase = "execute" /\ todo # << >> /\ Item.do = "remove_path"
  BY DEF RemovePath, Doing
<1>2. Outside(Item.at) /\ Item.do \in Plain
  BY <1>1, FirstItem DEF ItemFits, OnePath, Plain
<1>3. Fails \/ StandsFor(<< >>) \/ StandsFor(<< BacksUp(Item.at, "restore") >>)
  BY DEF RemovePath
<1>4. Free(BacksUp(Item.at, "restore"))
  BY <1>2, FreeMade
<1> QED
  BY <1>1, <1>2, <1>3, <1>4, FreeFew, FailsKeeps

LEMMA InreplaceKeeps == StepsInv /\ Inreplace => StepsInv'
<1> SUFFICES ASSUME StepsInv, Inreplace PROVE StepsInv'
  OBVIOUS
<1> DEFINE p == Item.at
<1>1. phase = "execute" /\ todo # << >> /\ Item.do = "inreplace"
  BY DEF Inreplace, Doing
<1>2. Outside(p) /\ Item.do \in Plain
  BY <1>1, FirstItem DEF ItemFits, OnePath, Plain
<1>3. Fails \/ StandsFor(<< Replaces(p), ParentsOf(p), Puts(p, File(Item.after)) >>)
  BY DEF Inreplace
<1>4. IsEntry(File(Item.after))
  BY DEF IsEntry, File
<1> QED
  BY <1>1, <1>2, <1>3, <1>4, ReplacedAndPut, FailsKeeps

LEMMA WriteFileKeeps == StepsInv /\ WriteFile => StepsInv'
<1> SUFFICES ASSUME StepsInv, WriteFile PROVE StepsInv'
  OBVIOUS
<1> DEFINE p == Item.at
<1>1. phase = "execute" /\ todo # << >> /\ Item.do = "write"
  BY DEF WriteFile, Doing
<1>2. Outside(p) /\ Item.do \in Plain
  BY <1>1, FirstItem DEF ItemFits, OnePath, Plain
<1>3. StandsFor(<< >>) \/ StandsFor(<< Replaces(p), ParentsOf(p), Puts(p, File(Item.content)) >>)
  BY DEF WriteFile
<1>4. IsEntry(File(Item.content))
  BY DEF IsEntry, File
<1> QED
  BY <1>1, <1>2, <1>3, <1>4, ReplacedAndPut, FreeFew

LEMMA CreateLinkKeeps == StepsInv /\ CreateLink => StepsInv'
<1> SUFFICES ASSUME StepsInv, CreateLink PROVE StepsInv'
  OBVIOUS
<1> DEFINE q == Item.at
<1>1. phase = "execute" /\ todo # << >> /\ Item.do = "link"
  BY DEF CreateLink, Doing
<1>2. Outside(q) /\ Item.do \in Plain
  BY <1>1, FirstItem DEF ItemFits, TwoPaths, Plain
<1>3. Fails \/ StandsFor(<< ParentsOf(q), Replaces(q), Puts(q, Link(Item.from)) >>)
  BY DEF CreateLink
<1>4. IsEntry(Link(Item.from))
  BY DEF IsEntry, Link
<1>5. CASE StandsFor(<< ParentsOf(q), Replaces(q), Puts(q, Link(Item.from)) >>)
  <2>1. PICK c : c = << ParentsOf(q), Replaces(q), Puts(q, Link(Item.from)) >>
    OBVIOUS
  <2>2. IsList(c) /\ Len(c) = 3
    BY <2>1, ListFew
  <2>3. c[1] = ParentsOf(q) /\ c[2] = Replaces(q) /\ c[3] = Puts(q, Link(Item.from)) /\ StandsFor(c)
    BY <1>5, <2>1
  <2>4. FitAt(fs, inverses, backups, c, 1) /\ FitAt(fs, inverses, backups, c, 2)
    BY <1>2, <2>3, FreeMade, FreeFits
  <2>5. FitAt(fs, inverses, backups, c, 3)
    <3>1. IsPrefix(q, q)
      BY <1>2, PrefixOrder DEF Outside
    <3>2. Brings("covered", c[2], q)
      BY <2>3, <3>1 DEF Brings, Replaces
    <3>3. Will("covered", fs, inverses, c, 3, q)
      BY <3>2 DEF Will
    <3> QED
      BY <1>2, <1>4, <2>3, <3>3, SpecialFits
  <2>6. \A i \in 1 .. Len(c) : FitAt(fs, inverses, backups, c, i)
    BY <2>2, <2>4, <2>5
  <2> QED
    BY <1>1, <1>2, <2>2, <2>3, <2>6, PlainKeeps
<1> QED
  BY <1>1, <1>3, <1>5, FailsKeeps

LEMMA CopyKeeps == StepsInv /\ Copy => StepsInv'
<1> SUFFICES ASSUME StepsInv, Copy PROVE StepsInv'
  OBVIOUS
<1> DEFINE p == Item.from
           q == DestinationFor(p, Item.at)
           x == [do |-> "copy_entry", from |-> p, at |-> q, recursive |-> Item.recursive]
<1>1. phase = "execute" /\ todo # << >> /\ Item.do = "copy"
  BY DEF Copy, Doing
<1>2. Outside(p) /\ Outside(Item.at) /\ Item.do \in Plain
  BY <1>1, FirstItem DEF ItemFits, TwoPaths, Plain
<1>3. Outside(q)
  BY <1>2, DestinationFacts
<1>4. Fails \/ StandsFor(<< ParentsOf(Item.at), Replaces(q), x >>)
  BY DEF Copy
<1>5. CASE StandsFor(<< ParentsOf(Item.at), Replaces(q), x >>)
  <2>1. PICK c : c = << ParentsOf(Item.at), Replaces(q), x >>
    OBVIOUS
  <2>2. IsList(c) /\ Len(c) = 3
    BY <2>1, ListFew
  <2>3. c[1] = ParentsOf(Item.at) /\ c[2] = Replaces(q) /\ c[3] = x /\ StandsFor(c)
    BY <1>5, <2>1
  <2> HIDE DEF q
  <2>4. FitAt(fs, inverses, backups, c, 1) /\ FitAt(fs, inverses, backups, c, 2)
    BY <1>2, <1>3, <2>3, FreeMade, FreeFits
  <2>5. FitAt(fs, inverses, backups, c, 3)
    <3>1. IsPrefix(q, q)
      BY <1>3, PrefixOrder DEF Outside
    <3>2. Brings("covered", c[2], q)
      BY <2>3, <3>1 DEF Brings, Replaces
    <3>3. Will("covered", fs, inverses, c, 3, q)
      BY <3>2 DEF Will
    <3>4. ItemFits(c[3]) /\ c[3].do = "copy_entry" /\ c[3].at = q
      BY <1>2, <1>3, <2>3 DEF ItemFits, OnePath, TwoPaths
    <3> QED
      BY <3>3, <3>4 DEF FitAt
  <2>6. \A i \in 1 .. Len(c) : FitAt(fs, inverses, backups, c, i)
    BY <2>2, <2>4, <2>5
  <2> QED
    BY <1>1, <1>2, <2>2, <2>3, <2>6, PlainKeeps
<1> QED
  BY <1>1, <1>4, <1>5, FailsKeeps

LEMMA RunStepKeeps == StepsInv /\ RunStep => StepsInv'
<1> SUFFICES ASSUME StepsInv, RunStep PROVE StepsInv'
  OBVIOUS
<1>1. phase = "execute" /\ todo # << >> /\ Item.do = "run" /\ (StandsFor(<< >>) \/ Fails)
  BY DEF RunStep, Doing
<1>2. Item.do \in Plain
  BY <1>1 DEF Plain
<1> QED
  BY <1>1, <1>2, FreeFew, FailsKeeps

LEMMA LinkEntryKeeps == StepsInv /\ LinkEntry => StepsInv'
<1> SUFFICES ASSUME StepsInv, LinkEntry PROVE StepsInv'
  OBVIOUS
<1> DEFINE q == Item.at
           x == [Item EXCEPT !.do = "link_dir"]
<1>1. phase = "execute" /\ todo # << >> /\ Item.do = "link_entry"
  BY DEF LinkEntry, Doing
<1>2. Outside(q) /\ Outside(Item.from) /\ Item.do \in Plain /\ Item.do \in TwoPaths /\ ItemFits(Item)
  BY <1>1, FirstItem DEF ItemFits, TwoPaths, Plain
<1>3. Free(DirectoryAt(q)) /\ Free(Replaces(q)) /\ Free(x) /\ Free(Links(Item.from, q, TRUE))
  BY <1>2, FreeMade, FreeChanged
<1>4. \/ StandsFor(<< Links(Item.from, q, TRUE) >>)
      \/ StandsFor(<< >> \o << DirectoryAt(q), x >>)
      \/ StandsFor(<< Replaces(q) >> \o << DirectoryAt(q), x >>)
  BY DEF LinkEntry
<1>5. PICK b : b = << DirectoryAt(q), x >>
  OBVIOUS
<1>6. IsList(b) /\ Len(b) = 2
  BY <1>5, ListFew
<1>7. b[1] = DirectoryAt(q) /\ b[2] = x
  BY <1>5
<1>8. \A i \in 1 .. Len(b) : Free(b[i])
  BY <1>3, <1>6, <1>7
<1>9. ASSUME StandsFor(<< >> \o b) PROVE StepsInv'
  <2>1. StandsFor(b)
    BY <1>6, <1>9, EmptyBefore
  <2> QED
    BY <1>1, <1>2, <1>6, <1>8, <2>1, FreeKeeps
<1>10. ASSUME StandsFor(<< Replaces(q) >> \o b) PROVE StepsInv'
  <2>1. PICK a : a = << Replaces(q) >>
    OBVIOUS
  <2>2. IsList(a) /\ Len(a) = 1
    BY <2>1, ListFew
  <2>3. a[1] = Replaces(q)
    BY <2>1
  <2>4. StandsFor(a \o b) /\ \A i \in 1 .. Len(a) : Free(a[i])
    BY <1>3, <1>10, <2>1, <2>2, <2>3
  <2> QED
    BY <1>1, <1>2, <1>6, <1>8, <2>2, <2>4, FreeJoined
<1> QED
  BY <1>1, <1>2, <1>3, <1>4, <1>5, <1>9, <1>10, FreeFew

LEMMA SymlinkKeeps == StepsInv /\ Symlink => StepsInv'
<1> SUFFICES ASSUME StepsInv, Symlink PROVE StepsInv'
  OBVIOUS
<1>1. phase = "execute" /\ todo # << >> /\ Item.do = "symlink"
  BY DEF Symlink, Doing
<1>2. TreeFits(fs) /\ Outside(Item.at) /\ Outside(Item.from) /\ Item.do \in Plain
  BY <1>1, FirstItem DEF Busy, ItemFits, TwoPaths, Plain
<1> DEFINE S == IF Item.glob THEN Children(fs, Item.from) ELSE {Item.from}
           into == Item.glob /\ (Cardinality(S) > 1 \/ IsDir(fs, Item.at))
           o == SetToSeq(S)
           a == IF into /\ S # {} THEN << DirectoryAt(Item.at) >> ELSE << >>
           b == [i \in DOMAIN o |-> Links(o[i], IF into THEN Under(Item.at, o[i]) ELSE Item.at, Item.force)]
<1>3. StandsFor(a \o b)
  BY DEF Symlink, EachOf
<1>4. IsFiniteSet(S) /\ \A c \in S : Outside(c)
  <2>1. IsFiniteSet({Item.from})
    BY FS_Singleton
  <2> QED
    BY <1>2, <2>1, ChildrenFacts
<1> HIDE DEF S
<1>5. /\ DOMAIN o = 1 .. Len(o) /\ Len(o) \in Nat /\ \A i \in 1 .. Len(o) : o[i] \in S
  BY <1>4, Sequenced
<1> HIDE DEF o, into
<1>6. b = [i \in 1 .. Len(o) |-> b[i]]
  BY <1>5
<1>7. ASSUME NEW i \in 1 .. Len(o) PROVE Free(b[i])
  <2>1. Outside(o[i])
    BY <1>4, <1>5
  <2>2. Outside(IF into THEN Under(Item.at, o[i]) ELSE Item.at)
    BY <1>2, <2>1, UnderFacts
  <2>3. b[i] = Links(o[i], IF into THEN Under(Item.at, o[i]) ELSE Item.at, Item.force)
    BY <1>5
  <2> QED
    BY <2>1, <2>2, <2>3, FreeMade
<1> HIDE DEF b
<1>8. IsList(b) /\ Len(b) = Len(o)
  BY <1>5, <1>6, ListMade
<1>9. IsList(a) /\ \A i \in 1 .. Len(a) : Free(a[i])
  <2>1. PICK c : c = << DirectoryAt(Item.at) >>
    OBVIOUS
  <2>2. IsList(c) /\ Len(c) = 1 /\ IsList(<< >>) /\ Len(<< >>) = 0
    BY <2>1, ListFew
  <2>3. c[1] = DirectoryAt(Item.at) /\ Free(DirectoryAt(Item.at))
    BY <1>2, <2>1, FreeMade
  <2>4. a = c \/ a = << >>
    BY <2>1
  <2> HIDE DEF a
  <2> QED
    BY <2>2, <2>3, <2>4
<1> HIDE DEF a
<1> QED
  BY <1>1, <1>2, <1>3, <1>7, <1>8, <1>9, FreeJoined

LEMMA SetModeRecursiveKeeps == StepsInv /\ SetModeRecursive => StepsInv'
<1> SUFFICES ASSUME StepsInv, SetModeRecursive PROVE StepsInv'
  OBVIOUS
<1> DEFINE p == Item.at
           S == Children(fs, p)
           o == SetToSeq(S)
           b == [i \in DOMAIN o |-> [Item EXCEPT !.at = o[i]]]
           y == [do |-> "set_mode", at |-> p, mode |-> Item.mode]
           x == Notes(ModeOf(p, fs[p].mode))
<1>1. phase = "execute" /\ todo # << >> /\ Item.do = "set_mode_recursive"
  BY DEF SetModeRecursive, Doing
<1>2. TreeFits(fs) /\ Outside(p) /\ Item.do \in Plain /\ ItemFits(Item)
  BY <1>1, FirstItem DEF Busy, ItemFits, OnePath, Plain
<1>3. \/ Fails \/ StandsFor(<< >>)
      \/ p \in DOMAIN fs /\ StandsFor(<< x, y >> \o << >>)
      \/ p \in DOMAIN fs /\ StandsFor(<< x, y >> \o b)
  BY DEF SetModeRecursive, EachOf
<1>4. ASSUME p \in DOMAIN fs, NEW m, IsList(m), \A i \in 1 .. Len(m) : Free(m[i]), StandsFor(<< x, y >> \o m)
      PROVE  StepsInv'
  <2>1. PICK a : a = << x, y >>
    OBVIOUS
  <2>2. PICK c : c = a \o m
    OBVIOUS
  <2>3. IsList(a) /\ Len(a) = 2
    BY <2>1, ListFew
  <2>4. a[1] = x /\ a[2] = y
    BY <2>1
  <2>0. IsList(a) /\ IsList(m)
    BY <1>4, <2>3
  <2>5. IsList(c) /\ Len(c) = Len(a) + Len(m)
    BY <2>0, <2>2, JoinedAs
  <2>6. (\A i \in 1 .. Len(a) : c[i] = a[i]) /\ \A i \in 1 .. Len(m) : c[Len(a) + i] = m[i]
    BY <2>0, <2>2, JoinedAs
  <2>7. StandsFor(c) /\ c[1] = x /\ c[2] = y /\ Len(m) \in Nat
    BY <1>4, <2>1, <2>2, <2>3, <2>4, <2>6, ListIs
  <2>8. FitAt(fs, inverses, backups, c, 1)
    <3>1. NoteFits(fs, inverses, c, 1, ModeOf(p, fs[p].mode))
      BY <1>2, <1>4 DEF NoteFits, ModeOf
    <3> QED
      BY <2>7, <3>1, SpecialFits
  <2>9. FitAt(fs, inverses, backups, c, 2)
    <3>1. ModeFits(fs, inverses, c, 2, p)
      BY <2>7 DEF ModeFits, Notes, ModeOf
    <3> QED
      BY <1>2, <2>7, <3>1, SpecialFits
  <2>10. ASSUME NEW i \in 1 .. Len(c) PROVE FitAt(fs, inverses, backups, c, i)
    <3>1. CASE i \in 1 .. 2
      BY <2>8, <2>9, <3>1
    <3>2. CASE i > 2
      <4> DEFINE k == i - 2
      <4>1. k \in 1 .. Len(m) /\ Len(a) + k = i
        BY <2>3, <2>5, <2>7, <3>2
      <4> HIDE DEF k
      <4>2. Free(c[i])
        BY <1>4, <2>6, <4>1
      <4> QED
        BY <4>2, FreeFits
    <3> QED
      BY <2>5, <3>1, <3>2
  <2> QED
    BY <1>1, <1>2, <2>5, <2>7, <2>10, PlainKeeps
<1>5. IsFiniteSet(S) /\ \A c \in S : Outside(c)
  BY <1>2, ChildrenFacts
<1> HIDE DEF S
<1>6. /\ DOMAIN o = 1 .. Len(o) /\ Len(o) \in Nat /\ \A i \in 1 .. Len(o) : o[i] \in S
  BY <1>5, Sequenced
<1> HIDE DEF o
<1>7. b = [i \in 1 .. Len(o) |-> b[i]]
  BY <1>6
<1>8. ASSUME NEW i \in 1 .. Len(o) PROVE Free(b[i])
  <2>1. Outside(o[i]) /\ b[i] = [Item EXCEPT !.at = o[i]]
    BY <1>5, <1>6
  <2>2. \A c : Outside(c) => Free([Item EXCEPT !.at = c])
    BY <1>1, <1>2, FreeChanged
  <2> HIDE DEF b
  <2> QED
    BY <2>1, <2>2
<1> HIDE DEF b
<1>9. IsList(b) /\ Len(b) = Len(o) /\ IsList(<< >>) /\ Len(<< >>) = 0
  BY <1>6, <1>7, ListMade, ListFew
<1> HIDE DEF x, y
<1>10. p \in DOMAIN fs /\ StandsFor(<< x, y >> \o b) => StepsInv'
  BY <1>4, <1>8, <1>9
<1>11. p \in DOMAIN fs /\ StandsFor(<< x, y >> \o << >>) => StepsInv'
  <2> DEFINE e == << >>
  <2>1. IsList(e) /\ Len(e) = 0
    BY <1>9
  <2> HIDE DEF e
  <2>2. \A i \in 1 .. Len(e) : Free(e[i])
    BY <2>1
  <2>3. p \in DOMAIN fs /\ StandsFor(<< x, y >> \o e) => StepsInv'
    BY <1>4, <2>1, <2>2
  <2> QED
    BY <2>3 DEF e
<1> QED
  BY <1>1, <1>2, <1>3, <1>10, <1>11, FreeFew, FailsKeeps

-----------------------------------------------------------------------------
(* The next step, and the maintenance                                      *)

LEMMA StepIsFree ==
    ASSUME NEW s, StepFits(s)
    PROVE  Free(s)
<1>1. \A p : Place(p) => Outside(p)
  <2> SUFFICES ASSUME NEW p, Place(p) PROVE Outside(p)
    OBVIOUS
  <2>1. p \in Seq(STRING) /\ p # << >> /\ p[1] # "journal"
    BY DEF Place, Journal
  <2>2. Len(p) \in Nat /\ p \in [1 .. Len(p) -> STRING]
    BY <2>1
  <2>3. p \in [1 .. Len(p) -> Name]
    BY <2>2 DEF Name
  <2>4. p \in Seq(Name)
    BY <2>2, <2>3
  <2> QED
    BY <2>1, <2>4 DEF Outside, Path
<1>2. "do" \in DOMAIN s /\ s.do \in OfTwoPaths \cup OfOnePath \cup {"run", "maintenance"}
  BY DEF StepFits
<1>3. CASE s.do \in OfTwoPaths
  <2>1. "at" \in DOMAIN s /\ Outside(s.at) /\ "from" \in DOMAIN s /\ Outside(s.from)
    BY <1>1, <1>3 DEF StepFits
  <2> QED
    BY <1>2, <1>3, <2>1 DEF Free, ItemFits, OnePath, TwoPaths, Plain, OfTwoPaths, OfOnePath
<1>4. CASE s.do \in OfOnePath
  <2>1. "at" \in DOMAIN s /\ Outside(s.at)
    BY <1>1, <1>4 DEF StepFits
  <2> QED
    BY <1>2, <1>4, <2>1 DEF Free, ItemFits, OnePath, TwoPaths, Plain, OfTwoPaths, OfOnePath, Inner
<1>5. CASE s.do \in {"run", "maintenance"}
  BY <1>2, <1>5 DEF Free, ItemFits, OnePath, TwoPaths, Plain
<1> QED
  BY <1>2, <1>3, <1>4, <1>5

LEMMA NextStepKeeps == StepsInv /\ NextStep => StepsInv'
<1> SUFFICES ASSUME StepsInv, NextStep PROVE StepsInv'
  OBVIOUS
<1>1. /\ phase = "execute" /\ todo = << >> /\ pc <= Len(program) /\ pc' = pc + 1
      /\ UNCHANGED << program, start, fs, deferred, inverses, backups, phase, leftovers, faults >>
      /\ todo' = IF GuardsMatch(program[pc].guards) THEN << program[pc].step >> ELSE << >>
  BY DEF NextStep
<1>2. program \in Programs /\ pc \in Nat \ {0} /\ Journaled /\ Busy
  BY <1>1 DEF StepsInv
<1>3. pc \in 1 .. Len(program)
  BY <1>1, <1>2
<1>4. Free(program[pc].step)
  BY <1>2, <1>3, StepIsFree, StepsAssumption
<1>5. WorkFits(fs, inverses, backups, todo')
  <2> DEFINE w == << program[pc].step >>
  <2>1. IsList(w) /\ Len(w) = 1 /\ w[1] = program[pc].step /\ IsList(<< >>) /\ Len(<< >>) = 0
    BY ListFew
  <2> HIDE DEF w
  <2>2. FitAt(fs, inverses, backups, w, 1)
    BY <1>4, <2>1, FreeFits
  <2>3. WorkFits(fs, inverses, backups, w) /\ WorkFits(fs, inverses, backups, << >>)
    BY <2>1, <2>2 DEF WorkFits
  <2> QED
    BY <1>1, <2>3 DEF w
<1> QED
  BY <1>1, <1>2, <1>5 DEF StepsInv, Journaled, Busy

LEMMA DeferMaintenanceKeeps == StepsInv /\ DeferMaintenance => StepsInv'
<1> SUFFICES ASSUME StepsInv, DeferMaintenance PROVE StepsInv'
  OBVIOUS
<1>1. /\ phase = "execute" /\ todo # << >> /\ Item.do = "maintenance" /\ todo' = Tail(todo)
      /\ UNCHANGED << fs, inverses, backups, phase, faults, unchangedByWork >>
  BY DEF DeferMaintenance, Doing
<1>2. Journaled /\ Busy /\ Item = todo[1] /\ IsList(Tail(todo))
  BY <1>1, FirstItem
<1>3. \A state \in {"covered", "away"} : \A p : ~Promises(state, fs, inverses, todo[1], p)
  BY <1>1, <1>2, PlainPromises DEF Plain
<1>4. PICK e : e = << >>
  OBVIOUS
<1>5. IsList(e) /\ Len(e) = 0 /\ \A i \in 1 .. Len(e) : FitAt(fs, inverses, backups, e, i)
  <2>1. IsList(e) /\ Len(e) = 0
    BY <1>4, ListFew
  <2> QED
    BY <2>1
<1>6. WorkFits(fs, inverses, backups, todo) /\ todo[1].do \notin {"note", "put"}
  BY <1>1, <1>2 DEF Busy
<1>7. WorkFits(fs, inverses, backups, e \o Tail(todo))
  BY <1>1, <1>3, <1>5, <1>6, TailFits
<1>8. WorkFits(fs, inverses, backups, Tail(todo))
  BY <1>2, <1>4, <1>7, EmptyBefore
<1> QED
  BY <1>1, <1>2, <1>8 DEF StepsInv, Journaled, Busy, unchangedByWork

LEMMA RunMaintenanceKeeps == StepsInv /\ RunMaintenance => StepsInv'
<1> SUFFICES ASSUME StepsInv, RunMaintenance PROVE StepsInv'
  OBVIOUS
<1>1. /\ phase = "execute" /\ phase' \in {"execute", "rollback"}
      /\ UNCHANGED << fs, todo, inverses, backups, faults, unchangedByWork >>
  BY DEF RunMaintenance, AllTaken
<1>2. CASE phase' = "execute"
  BY <1>1, <1>2 DEF StepsInv, Journaled, Busy, unchangedByWork
<1>3. CASE phase' = "rollback"
  BY <1>1, <1>3, EndsKeeps
<1> QED
  BY <1>1, <1>2, <1>3

-----------------------------------------------------------------------------
(* The helpers whose items keep a promise                                  *)

LEMMA CoveredBelow ==
    ASSUME Journaled, Busy, NEW p \in Path, NEW q \in Path, IsPrefix(p, q), Covered(inverses, p)
    PROVE  Covered(inverses, q)
<1>1. inverses # << >> /\ Covers(Last(inverses), p)
  BY DEF Covered
<1>2. Len(inverses) \in 1 .. Len(inverses) /\ Last(inverses) = inverses[Len(inverses)]
  BY <1>1, ListLess DEF Journaled
<1>3. Last(inverses).at \in Path
  BY <1>2 DEF Busy, InverseFits, Outside
<1>4. IsPrefix(Last(inverses).at, q)
  BY <1>1, <1>3, PrefixOrder DEF Covers
<1> QED
  BY <1>1, <1>4 DEF Covered, Covers

\* What is there when only items that keep it come before.
LEMMA WillKept ==
    ASSUME NEW state, NEW f, NEW J, NEW w, NEW i \in Nat, NEW p, Has(state, f, J, p),
           i > 0, \A k \in 1 .. i - 1 : Leaves(state, w[k], p)
    PROVE  Will(state, f, J, w, i, p)
<1>1. 0 \in 0 .. i - 1 /\ 0 + 1 = 1
  OBVIOUS
<1> QED
  BY <1>1 DEF Will

LEMMA CoveredNow ==
    ASSUME NEW f, NEW J, NEW n, NEW w, FitAt(f, J, n, w, 1), w[1].do \in {"put", "copy_entry", "copy_children"}
    PROVE  Covered(J, w[1].at)
<1>1. Will("covered", f, J, w, 1, w[1].at)
  BY DEF FitAt
<1>2. 1 - 1 = 0
  OBVIOUS
<1> QED
  BY <1>1, <1>2 DEF Will, Has

LEMMA CopyPromises ==
    ASSUME NEW x, x.do \in {"copy_entry", "copy_children"}, NEW state, NEW f, NEW J, NEW p,
           Promises(state, f, J, x, p), state \in {"covered", "away"}
    PROVE  state = "covered" /\ Has(state, f, J, p)
BY DEF Promises, Leaves, Brings

LEMMA CopyEntryKeeps == StepsInv /\ CopyEntry => StepsInv'
<1> SUFFICES ASSUME StepsInv, CopyEntry PROVE StepsInv'
  OBVIOUS
<1> DEFINE p == Item.from
           q == Item.at
<1>1. phase = "execute" /\ todo # << >> /\ Item.do = "copy_entry"
  BY DEF CopyEntry, Doing
<1>2. /\ TreeFits(fs) /\ Outside(q) /\ Outside(p) /\ ItemFits(Item) /\ Covered(inverses, q)
      /\ Item.do \notin {"note", "put"}
  BY <1>1, FirstItem, CoveredNow DEF Busy, ItemFits, TwoPaths
<1>3. ASSUME NEW new, IsList(new), Len(new) \in Nat, StandsFor(new),
             \A i \in 1 .. Len(new) : FitAt(fs, inverses, backups, new, i),
             \A i \in 1 .. Len(new) : new[i].do \in {"put", "set_mode", "copy_children"}
      PROVE  StepsInv'
  <2>1. ASSUME NEW state \in {"covered", "away"}, NEW r, Outside(r), Promises(state, fs, inverses, Item, r)
        PROVE  Will(state, fs, inverses, new, Len(new) + 1, r)
    <3>1. state = "covered" /\ Has(state, fs, inverses, r)
      BY <1>1, <2>1, CopyPromises
    <3>2. \A k \in 1 .. Len(new) + 1 - 1 : Leaves(state, new[k], r)
      BY <1>3, <3>1 DEF Leaves
    <3>3. Len(new) + 1 \in Nat /\ Len(new) + 1 > 0
      BY <1>3
    <3> QED
      BY <3>1, <3>2, <3>3, WillKept
  <2> QED
    BY <1>1, <1>2, <1>3, <2>1, StandsKeeps
<1>4. CASE p \notin DOMAIN fs \/ (IsDir(fs, p) /\ ~ Item.recursive)
  BY <1>1, <1>4, FailsKeeps DEF CopyEntry
<1>5. CASE p \in DOMAIN fs /\ ~IsDir(fs, p)
  <2> DEFINE new == << Puts(q, fs[p]) >>
  <2>1. StandsFor(new)
    BY <1>5 DEF CopyEntry
  <2>2. IsList(new) /\ Len(new) = 1 /\ new[1] = Puts(q, fs[p])
    BY ListFew
  <2> HIDE DEF new
  <2>3. Will("covered", fs, inverses, new, 1, q)
    BY <1>2, WillKept DEF Has
  <2>4. FitAt(fs, inverses, backups, new, 1)
    BY <1>2, <1>5, <2>2, <2>3, SpecialFits DEF TreeFits
  <2>5. new[1].do = "put"
    BY <2>2 DEF Puts
  <2>6. Len(new) \in Nat /\ \A i \in 1 .. Len(new) : i = 1
    BY <2>2
  <2> QED
    BY <1>3, <2>1, <2>2, <2>4, <2>5, <2>6
<1>6. CASE p \in DOMAIN fs /\ IsDir(fs, p) /\ Item.recursive
  <2> DEFINE y == [do |-> "set_mode", at |-> q, mode |-> fs[p].mode]
             z == [Item EXCEPT !.do = "copy_children"]
             new == << Puts(q, Directory), y, z >>
  <2>1. StandsFor(new)
    BY <1>6 DEF CopyEntry
  <2>2. IsList(new) /\ Len(new) = 3
    BY ListFew
  <2>3. new[1] = Puts(q, Directory) /\ new[2] = y /\ new[3] = z
    OBVIOUS
  <2>4. z.do = "copy_children" /\ z.at = q /\ ItemFits(z) /\ y.do = "set_mode"
    <3>1. "do" \in DOMAIN Item /\ "at" \in DOMAIN Item /\ "from" \in DOMAIN Item
      BY <1>1, <1>2 DEF ItemFits, TwoPaths
    <3>2. /\ z.do = "copy_children" /\ z.at = q /\ z.from = p
          /\ "do" \in DOMAIN z /\ "at" \in DOMAIN z /\ "from" \in DOMAIN z
      BY <3>1
    <3> HIDE DEF z
    <3> QED
      BY <1>2, <3>2 DEF ItemFits, OnePath, TwoPaths
  <2>5. Puts(q, Directory).do = "put" /\ Puts(q, Directory).at = q
    BY DEF Puts
  <2> HIDE DEF new, z
  <2>6. \A k \in {1, 2, 3} : Leaves("covered", new[k], q)
    BY <2>3, <2>4, <2>5 DEF Leaves
  <2>7. FitAt(fs, inverses, backups, new, 1)
    <3>1. Will("covered", fs, inverses, new, 1, q)
      BY <1>2, WillKept DEF Has
    <3> QED
      BY <1>2, <2>3, <3>1, SpecialFits DEF IsEntry, Directory
  <2>8. FitAt(fs, inverses, backups, new, 2)
    <3>1. ModeFits(fs, inverses, new, 2, q)
      BY <2>3, <2>5 DEF ModeFits
    <3> QED
      BY <1>2, <2>3, <3>1, SpecialFits
  <2>9. FitAt(fs, inverses, backups, new, 3)
    <3>1. \A k \in 1 .. 3 - 1 : Leaves("covered", new[k], q)
      BY <2>6
    <3>2. Will("covered", fs, inverses, new, 3, q)
      BY <1>2, <3>1, WillKept DEF Has
    <3> QED
      BY <2>3, <2>4, <3>2 DEF FitAt
  <2>10. \A i \in 1 .. Len(new) : FitAt(fs, inverses, backups, new, i)
    BY <2>2, <2>7, <2>8, <2>9
  <2>11. \A i \in 1 .. Len(new) : new[i].do \in {"put", "set_mode", "copy_children"}
    BY <2>2, <2>3, <2>4, <2>5
  <2>12. Len(new) \in Nat
    BY <2>2
  <2> QED
    BY <1>3, <2>1, <2>2, <2>10, <2>11, <2>12
<1> QED
  BY <1>4, <1>5, <1>6

LEMMA CopyChildrenKeeps == StepsInv /\ CopyChildren => StepsInv'
<1> SUFFICES ASSUME StepsInv, CopyChildren PROVE StepsInv'
  OBVIOUS
<1> DEFINE p == Item.from
           q == Item.at
           S == Children(fs, p)
           o == SetToSeq(S)
           new == [i \in DOMAIN o |-> [do |-> "copy_entry", from |-> o[i], at |-> Under(q, o[i]),
                                       recursive |-> TRUE]]
<1>1. phase = "execute" /\ todo # << >> /\ Item.do = "copy_children"
  BY DEF CopyChildren, Doing
<1>2. /\ TreeFits(fs) /\ Outside(q) /\ Outside(p) /\ Covered(inverses, q) /\ Journaled /\ Busy
      /\ Item.do \notin {"note", "put"}
  BY <1>1, FirstItem, CoveredNow DEF Busy, ItemFits, TwoPaths
<1>3. Fails \/ StandsFor(new)
  BY DEF CopyChildren, EachOf
<1>4. IsFiniteSet(S) /\ \A c \in S : Outside(c)
  BY <1>2, ChildrenFacts
<1> HIDE DEF S
<1>5. DOMAIN o = 1 .. Len(o) /\ Len(o) \in Nat /\ \A i \in 1 .. Len(o) : o[i] \in S
  BY <1>4, Sequenced
<1> HIDE DEF o
<1>6. \A i \in 1 .. Len(o) : new[i] = [do |-> "copy_entry", from |-> o[i], at |-> Under(q, o[i]), recursive |-> TRUE]
  BY <1>5
<1>7. new = [i \in 1 .. Len(o) |-> new[i]]
  BY <1>5
<1> HIDE DEF new
<1>8. IsList(new) /\ Len(new) = Len(o)
  BY <1>5, <1>7, ListMade
<1>9. \A k \in 1 .. Len(o) : \A r : Leaves("covered", new[k], r)
  <2>1. ASSUME NEW k \in 1 .. Len(o) PROVE new[k].do = "copy_entry"
    <3>1. new[k] = [do |-> "copy_entry", from |-> o[k], at |-> Under(q, o[k]), recursive |-> TRUE]
      BY <1>6
    <3> QED
      BY <3>1
  <2> QED
    BY <2>1 DEF Leaves
<1>10. ASSUME NEW i \in 1 .. Len(new) PROVE FitAt(fs, inverses, backups, new, i)
  <2>1. Outside(o[i]) /\ i \in Nat /\ i > 0 /\ i \in 1 .. Len(o)
    BY <1>4, <1>5, <1>8
  <2>2. Outside(Under(q, o[i])) /\ IsPrefix(q, Under(q, o[i]))
    BY <1>2, <2>1, UnderFacts
  <2>3. Covered(inverses, Under(q, o[i]))
    BY <1>2, <2>2, CoveredBelow DEF Outside
  <2>4. \A k \in 1 .. i - 1 : Leaves("covered", new[k], Under(q, o[i]))
    BY <1>5, <1>9, <2>1
  <2>5. Will("covered", fs, inverses, new, i, Under(q, o[i]))
    BY <2>1, <2>3, <2>4, WillKept DEF Has
  <2>6. new[i] = [do |-> "copy_entry", from |-> o[i], at |-> Under(q, o[i]), recursive |-> TRUE]
    BY <1>6, <2>1
  <2>7. ItemFits(new[i])
    BY <2>1, <2>2, <2>6 DEF ItemFits, OnePath, TwoPaths
  <2> QED
    BY <2>5, <2>6, <2>7 DEF FitAt
<1>11. ASSUME NEW state \in {"covered", "away"}, NEW r, Outside(r), Promises(state, fs, inverses, Item, r)
       PROVE  Will(state, fs, inverses, new, Len(new) + 1, r)
  <2>1. state = "covered" /\ Has(state, fs, inverses, r)
    BY <1>1, <1>11, CopyPromises
  <2>2. \A k \in 1 .. Len(new) + 1 - 1 : Leaves(state, new[k], r)
    BY <1>5, <1>8, <1>9, <2>1
  <2>3. Len(new) + 1 \in Nat /\ Len(new) + 1 > 0
    BY <1>5, <1>8
  <2> QED
    BY <2>1, <2>2, <2>3, WillKept
<1>12. StandsFor(new) => StepsInv'
  BY <1>1, <1>2, <1>8, <1>10, <1>11, StandsKeeps
<1> QED
  BY <1>1, <1>3, <1>12, FailsKeeps

LEMMA CreateParentsKeeps == StepsInv /\ CreateParents => StepsInv'
<1> SUFFICES ASSUME StepsInv, CreateParents PROVE StepsInv'
  OBVIOUS
<1> DEFINE p == Item.at
           Fit(n) == /\ SubSeq(p, 1, n) \in DOMAIN fs
                     /\ \A m \in n + 1 .. Len(p) : SubSeq(p, 1, m) \notin DOMAIN fs
           there == CHOOSE n \in 0 .. Len(p) : Fit(n)
           new == [i \in 1 .. Len(p) - there |-> [do |-> "mkdir", at |-> SubSeq(p, 1, there + i)]]
<1>1. phase = "execute" /\ todo # << >> /\ Item.do = "parents"
  BY DEF CreateParents, Doing
<1>2. TreeFits(fs) /\ Inner(p) /\ Item.do \notin {"note", "put"}
  BY <1>1, FirstItem DEF Busy, ItemFits
<1>3. p \in Path /\ Len(p) \in Nat /\ (Len(p) > 0 => Outside(p))
  <2>1. CASE p = << >>
    BY <2>1 DEF Path
  <2>2. CASE Outside(p)
    BY <2>2 DEF Outside, Path
  <2> QED
    BY <1>2, <2>1, <2>2 DEF Inner
<1>4. Fails \/ StandsFor(new)
  BY DEF CreateParents
<1>5. \E n \in 0 .. Len(p) : Fit(n)
  <2> DEFINE M == {k \in 0 .. Len(p) : SubSeq(p, 1, Len(p) - k) \in DOMAIN fs}
  <2>1. SubSeq(p, 1, Len(p) - Len(p)) = << >>
    BY <1>3 DEF Path
  <2>2. Len(p) \in M
    <3>1. << >> \in DOMAIN fs /\ Len(p) \in 0 .. Len(p)
      BY <1>2, <1>3 DEF TreeFits, IsDir
    <3> QED
      BY <2>1, <3>1
  <2>3. PICK i \in M : \A j \in M : i <= j
    <3>1. M \in SUBSET Nat /\ M # {}
      BY <1>3, <2>2
    <3> HIDE DEF M
    <3> QED
      BY <3>1, FirstPlace
  <2>4. i \in 0 .. Len(p) /\ Len(p) - i \in 0 .. Len(p) /\ SubSeq(p, 1, Len(p) - i) \in DOMAIN fs
    BY <1>3, <2>3
  <2>5. ASSUME NEW m \in Len(p) - i + 1 .. Len(p) PROVE SubSeq(p, 1, m) \notin DOMAIN fs
    <3>1. Len(p) - m \in 0 .. Len(p) /\ Len(p) - (Len(p) - m) = m /\ Len(p) - m < i
      BY <1>3, <2>4
    <3> QED
      BY <2>3, <3>1
  <2> QED
    BY <2>4, <2>5
<1>6. there \in 0 .. Len(p)
  BY <1>5
<1> HIDE DEF there
<1>7. Len(p) - there \in Nat
  BY <1>3, <1>6
<1>8. /\ \A i \in 1 .. Len(p) - there : new[i] = [do |-> "mkdir", at |-> SubSeq(p, 1, there + i)]
      /\ new = [i \in 1 .. Len(p) - there |-> new[i]]
  OBVIOUS
<1> HIDE DEF new
<1>9. IsList(new) /\ Len(new) = Len(p) - there
  BY <1>7, <1>8, ListMade
<1>10. ASSUME NEW i \in 1 .. Len(new)
       PROVE  /\ Outside(new[i].at) /\ IsPrefix(new[i].at, p)
              /\ new[i] = [do |-> "mkdir", at |-> new[i].at]
  <2> DEFINE d == SubSeq(p, 1, there + i)
  <2>1. there + i \in 1 .. Len(p) /\ i \in 1 .. Len(p) - there
    BY <1>3, <1>6, <1>9
  <2>2. d \in Path /\ Len(d) = there + i /\ \A k \in 1 .. there + i : d[k] = p[k]
    BY <1>3, <2>1 DEF Path
  <2>3. new[i] = [do |-> "mkdir", at |-> d]
    BY <1>8, <2>1
  <2>4. Outside(p) /\ p[1] # "journal"
    BY <1>3, <2>1 DEF Outside
  <2> HIDE DEF d
  <2>5. IsPrefix(d, p)
    BY <1>3, <2>1, <2>2, PrefixIs
  <2>6. d # << >> /\ d[1] = p[1]
    BY <2>1, <2>2
  <2> QED
    BY <2>2, <2>3, <2>4, <2>5, <2>6 DEF Outside
<1>11. ASSUME NEW i \in 1 .. Len(new) PROVE FitAt(fs, inverses, backups, new, i)
  <2>1. Free(new[i])
    <3> DEFINE d == new[i].at
    <3>1. Outside(d) /\ new[i] = [do |-> "mkdir", at |-> d]
      BY <1>10
    <3> HIDE DEF d
    <3> QED
      BY <3>1 DEF Free, ItemFits, OnePath, TwoPaths
  <2> QED
    BY <2>1, FreeFits
<1>12. ASSUME NEW state \in {"covered", "away"}, NEW r, Outside(r), Promises(state, fs, inverses, Item, r)
       PROVE  Will(state, fs, inverses, new, Len(new) + 1, r)
  <2>1. r \in Path
    BY <1>12 DEF Outside
  <2>2. Has(state, fs, inverses, r) /\ Leaves(state, Item, r)
    BY <1>1, <1>12 DEF Promises, Brings
  <2>3. ASSUME NEW k \in 1 .. Len(new) PROVE Leaves(state, new[k], r)
    <3> DEFINE d == new[k].at
    <3>1. Outside(d) /\ IsPrefix(d, p) /\ new[k] = [do |-> "mkdir", at |-> d]
      BY <1>10
    <3>2. d \in Path
      BY <3>1 DEF Outside
    <3> HIDE DEF d
    <3>3. CASE state = "covered"
      <4>1. IsPrefix(p, r)
        BY <1>1, <2>2, <3>3 DEF Leaves
      <4>2. IsPrefix(d, r)
        BY <1>3, <2>1, <3>1, <3>2, <4>1, PrefixOrder
      <4> QED
        BY <3>1, <3>3, <4>2 DEF Leaves
    <3>4. CASE state = "away"
      <4>1. ~IsPrefix(r, p)
        BY <1>1, <2>2, <3>4 DEF Leaves
      <4>2. ~IsPrefix(r, d)
        BY <1>3, <2>1, <3>1, <3>2, <4>1, PrefixOrder
      <4> QED
        BY <3>1, <3>4, <4>2 DEF Leaves
    <3> QED
      BY <3>3, <3>4
  <2>4. Len(new) + 1 \in Nat /\ Len(new) + 1 > 0 /\ Len(new) + 1 - 1 = Len(new)
    BY <1>7, <1>9
  <2> QED
    BY <2>2, <2>3, <2>4, WillKept
<1>13. StandsFor(new) => StepsInv'
  BY <1>1, <1>2, <1>9, <1>11, <1>12, StandsKeeps
<1> QED
  BY <1>1, <1>4, <1>13, FailsKeeps

LEMMA ReplaceBeforeMutationKeeps == StepsInv /\ ReplaceBeforeMutation => StepsInv'
<1> SUFFICES ASSUME StepsInv, ReplaceBeforeMutation PROVE StepsInv'
  OBVIOUS
<1> DEFINE p == Item.at
<1>1. phase = "execute" /\ todo # << >> /\ Item.do = "replace" /\ Item.do \notin {"note", "put"}
  BY DEF ReplaceBeforeMutation, Doing
<1>2. Outside(p)
  BY <1>1, FirstItem DEF ItemFits, OnePath
<1>3. ASSUME NEW x, StandsFor(<< x >>), x = BacksUp(p, "replace") \/ x = Notes(RemovalOf(p)),
             \A w : w[1] = x => FitAt(fs, inverses, backups, w, 1)
      PROVE  StepsInv'
  <2>1. PICK w : w = << x >>
    OBVIOUS
  <2>2. IsList(w) /\ Len(w) = 1
    BY <2>1, ListFew
  <2>3. w[1] = x
    BY <2>1
  <2>4. \A i \in 1 .. Len(w) : FitAt(fs, inverses, backups, w, i)
    BY <1>3, <2>2, <2>3
  <2>5. ASSUME NEW state \in {"covered", "away"}, NEW r, Outside(r), Promises(state, fs, inverses, Item, r)
        PROVE  Will(state, fs, inverses, w, Len(w) + 1, r)
    <3>1. state = "covered" /\ IsPrefix(p, r)
      BY <1>1, <2>5 DEF Promises, Leaves, Brings
    <3>2. Brings(state, w[1], r)
      <4>1. CASE x = BacksUp(p, "replace")
        BY <2>3, <3>1, <4>1 DEF Brings, BacksUp
      <4>2. CASE x = Notes(RemovalOf(p))
        BY <2>3, <3>1, <4>2 DEF Brings, Notes, RemovalOf
      <4> QED
        BY <1>3, <4>1, <4>2
    <3>3. Len(w) + 1 = 2
      BY <2>2
    <3> QED
      BY <3>2, <3>3 DEF Will
  <2>6. StandsFor(w)
    BY <1>3, <2>1
  <2> QED
    BY <1>1, <2>2, <2>4, <2>5, <2>6, StandsKeeps
<1>4. CASE p \in DOMAIN fs
  <2>1. StandsFor(<< BacksUp(p, "replace") >>)
    BY <1>4 DEF ReplaceBeforeMutation
  <2>2. Free(BacksUp(p, "replace"))
    BY <1>2, FreeMade
  <2>3. \A w : w[1] = BacksUp(p, "replace") => FitAt(fs, inverses, backups, w, 1)
    BY <2>2, FreeFits
  <2> QED
    BY <1>3, <2>1, <2>3
<1>5. CASE p \notin DOMAIN fs
  <2>1. StandsFor(<< Notes(RemovalOf(p)) >>)
    BY <1>5 DEF ReplaceBeforeMutation
  <2>2. ASSUME NEW w, w[1] = Notes(RemovalOf(p)) PROVE FitAt(fs, inverses, backups, w, 1)
    <3>1. Will("away", fs, inverses, w, 1, p)
      BY <1>5, WillKept DEF Has
    <3>2. NoteFits(fs, inverses, w, 1, RemovalOf(p))
      BY <1>2, <3>1 DEF NoteFits, RemovalOf
    <3> QED
      BY <2>2, <3>2, SpecialFits
  <2> QED
    BY <1>3, <2>1, <2>2
<1> QED
  BY <1>4, <1>5

\* The name of a backup, and where it is.
LEMMA BackupPlace ==
    ASSUME NEW n \in Nat
    PROVE  /\ Append(Journal, n) \in Path /\ Parent(Append(Journal, n)) = Journal
           /\ Numbered(Append(Journal, n), n) /\ \A p : Inner(p) => ~IsPrefix(Append(Journal, n), p)
           /\ Append(Journal, n) # Journal /\ ~Inner(Append(Journal, n))
<1> DEFINE b == Append(Journal, n)
<1>1. b \in Path /\ Len(b) = 2 /\ b[1] = "journal" /\ b[2] = n
  BY DEF Journal, Path, Name
<1>2. Parent(b) = Journal
  <2>1. Parent(b) \in Seq(Name) /\ Len(Parent(b)) = 1 /\ Parent(b)[1] = b[1]
    BY <1>1 DEF Parent, Path
  <2>2. Journal \in Seq(Name) /\ Len(Journal) = 1 /\ Journal[1] = "journal"
    BY DEF Journal, Name
  <2> HIDE DEF b
  <2>3. IsList(Parent(b)) /\ IsList(Journal)
    BY <2>1, <2>2 DEF IsList
  <2> QED
    BY <1>1, <2>1, <2>2, <2>3, ListSame
<1>3. Len(Journal) = 1
  BY DEF Journal
<1> HIDE DEF b
<1>4. b # << >> /\ b # Journal /\ ~Inner(b)
  BY <1>1, <1>3 DEF Inner, Outside
<1>5. ASSUME NEW p, Inner(p), IsPrefix(b, p) PROVE FALSE
  <2>1. p \in Path
    <3>1. << >> \in Path
      BY DEF Path
    <3> QED
      BY <1>5, <3>1 DEF Inner, Outside
  <2>2. Len(p) >= 2 /\ p[1] = "journal"
    BY <1>1, <1>5, <2>1, PrefixIs
  <2>3. p # << >>
    BY <2>2
  <2> QED
    BY <1>5, <2>2, <2>3 DEF Inner, Outside
<1>6. Numbered(b, n)
  BY <1>1 DEF Numbered
<1> QED
  BY <1>1, <1>2, <1>4, <1>5, <1>6 DEF b

LEMMA BackupKeeps == StepsInv /\ Backup => StepsInv'
<1> SUFFICES ASSUME StepsInv, Backup PROVE StepsInv'
  OBVIOUS
<1> DEFINE p == Item.at
           b == Append(Journal, backups)
           undo == IF Item.undo = "replace" THEN ReplaceBy(p, b) ELSE RestoreFrom(p, b)
<1>1. phase = "execute" /\ todo # << >> /\ Item.do = "backup" /\ Item.do \notin {"note", "put"}
  BY DEF Backup, Doing
<1>2. /\ Outside(p) /\ Item.undo \in {"replace", "restore"} /\ ItemFits(Item)
      /\ Journaled /\ Busy /\ Item = todo[1]
  BY <1>1, FirstItem DEF ItemFits, OnePath
<1>3. \A state, r : state \in {"covered", "away"} /\ Promises(state, fs, inverses, Item, r)
          => Brings(state, Item, r)
  BY <1>1 DEF Promises, Leaves
<1>4. CASE Journal \notin DOMAIN fs
  <2>1. PICK x : x = [do |-> "root"]
    OBVIOUS
  <2>2. PICK w : w = << x, Item >>
    OBVIOUS
  <2>3. StandsFor(w)
    BY <1>4, <2>1, <2>2 DEF Backup
  <2>4. IsList(w) /\ Len(w) = 2
    BY <2>2, ListFew
  <2>5. w[1] = x /\ w[2] = Item
    BY <2>2
  <2>6. FitAt(fs, inverses, backups, w, 1)
    <3>1. w[1].do = "root" /\ "do" \in DOMAIN w[1]
      BY <2>1, <2>5
    <3> QED
      BY <1>4, <3>1 DEF FitAt, ItemFits, OnePath, TwoPaths
  <2>7. FitAt(fs, inverses, backups, w, 2)
    <3>1. Free(w[2])
      BY <1>1, <1>2, <2>5 DEF Free
    <3> QED
      BY <3>1, FreeFits
  <2>8. \A i \in 1 .. Len(w) : FitAt(fs, inverses, backups, w, i)
    BY <2>4, <2>6, <2>7
  <2>9. ASSUME NEW state \in {"covered", "away"}, NEW r, Outside(r), Promises(state, fs, inverses, Item, r)
        PROVE  Will(state, fs, inverses, w, Len(w) + 1, r)
    <3>1. Brings(state, w[2], r)
      BY <1>3, <2>5, <2>9
    <3>2. Len(w) + 1 = 3
      BY <2>4
    <3> QED
      BY <3>1, <3>2 DEF Will
  <2> QED
    BY <1>1, <2>3, <2>4, <2>8, <2>9, StandsKeeps
<1>5. CASE Journal \in DOMAIN fs
  <2>1. PICK x : x = Renames(p, b, << undo >>)
    OBVIOUS
  <2>2. PICK w : w = << x >>
    OBVIOUS
  <2>3. /\ backups' = backups + 1 /\ todo' = w \o Tail(todo)
        /\ UNCHANGED << fs, deferred, inverses, phase, faults, unchangedByWork >>
    BY <1>5, <2>1, <2>2 DEF Backup
  <2>4. IsList(w) /\ Len(w) = 1
    BY <2>2, ListFew
  <2>5. w[1] = x
    BY <2>2
  <2>6. backups \in Nat /\ InPlaces(fs, backups)
    BY <1>2 DEF Busy
  <2>7. b \notin DOMAIN fs
    <3>1. b # Journal /\ ~Inner(b) /\ Numbered(b, backups)
      BY <2>6, BackupPlace
    <3> HIDE DEF b
    <3>2. ASSUME NEW m \in Nat, m < backups, Numbered(b, m) PROVE FALSE
      BY <2>6, <3>1, <3>2 DEF Numbered
    <3> QED
      BY <2>6, <3>1, <3>2 DEF InPlaces
  <2>8. undo \in {ReplaceBy(p, b), RestoreFrom(p, b)} /\ (Item.undo = "replace" => undo = ReplaceBy(p, b))
    OBVIOUS
  <2>9. x.do = "rename" /\ x.from = p /\ x.at = b /\ x.noted = << undo >>
    BY <2>1 DEF Renames
  <2>10. RenameFits(fs, inverses, backups + 1, w, 1, x)
    <3>1. backups + 1 > 0 /\ (backups + 1) - 1 = backups
      BY <2>6
    <3>2. x.noted \in {<< ReplaceBy(p, b) >>, << RestoreFrom(p, b) >>}
      BY <2>8, <2>9
    <3> QED
      BY <1>2, <1>5, <2>7, <2>9, <3>1, <3>2 DEF RenameFits
  <2> HIDE DEF undo
  <2>11. FitAt(fs, inverses, backups + 1, w, 1)
    <3>1. w[1] = Renames(p, b, << undo >>) /\ RenameFits(fs, inverses, backups + 1, w, 1, Renames(p, b, << undo >>))
      BY <2>1, <2>5, <2>10
    <3> QED
      BY <3>1, SpecialFits
  <2>12. \A i \in 1 .. Len(w) : FitAt(fs, inverses, backups + 1, w, i)
    BY <2>4, <2>11
  <2>13. ASSUME NEW state \in {"covered", "away"}, NEW r, Outside(r), Promises(state, fs, inverses, Item, r)
         PROVE  Will(state, fs, inverses, w, Len(w) + 1, r)
    <3>1. Brings(state, Item, r)
      BY <1>3, <2>13
    <3>2. Brings(state, x, r)
      <4>1. CASE state = "covered"
        <5>1. Item.undo = "replace" /\ IsPrefix(p, r)
          BY <1>1, <3>1, <4>1 DEF Brings
        <5>2. x.noted = << ReplaceBy(x.from, x.at) >> /\ IsPrefix(x.from, r)
          BY <2>8, <2>9, <5>1
        <5> QED
          BY <2>9, <4>1, <5>2 DEF Brings
      <4>2. CASE state = "away"
        <5>1. p = r
          BY <1>1, <3>1, <4>2 DEF Brings
        <5>2. x.noted # << >>
          <6>1. Len(<< undo >>) = 1 /\ Len(<< >>) = 0
            OBVIOUS
          <6> QED
            BY <2>9, <6>1
        <5> QED
          BY <2>9, <4>2, <5>1, <5>2 DEF Brings
      <4> QED
        BY <4>1, <4>2
    <3>3. Len(w) + 1 = 2
      BY <2>4
    <3> QED
      BY <2>5, <3>2, <3>3 DEF Will
  <2>14. WorkFits(fs, inverses, backups, todo) /\ todo[1].do \notin {"note", "put"}
    BY <1>1, <1>2 DEF Busy
  <2>15. WorkFits(fs, inverses, backups + 1, w \o Tail(todo))
    BY <1>1, <1>2, <2>4, <2>12, <2>13, <2>14, TailFits
  <2>16. InPlaces(fs, backups + 1)
    BY <2>6 DEF InPlaces
  <2> QED
    BY <1>1, <1>2, <2>3, <2>6, <2>15, <2>16 DEF StepsInv, Journaled, Busy, unchangedByWork
<1> QED
  BY <1>4, <1>5

-----------------------------------------------------------------------------
(* The calls                                                               *)

LEMMA AfterEmpty ==
    ASSUME NEW w, IsList(w)
    PROVE  w \o << >> = w
<1>1. PICK e : e = << >>
  OBVIOUS
<1>2. PICK c : c = w \o e
  OBVIOUS
<1>3. IsList(e) /\ Len(e) = 0
  BY <1>1, ListFew
<1>4. Len(w) \in Nat
  BY ListIs
<1>5. IsList(c) /\ Len(c) = Len(w) + Len(e)
  BY <1>2, <1>3, JoinedAs
<1>6. \A i \in 1 .. Len(w) : c[i] = w[i]
  BY <1>2, <1>3, JoinedAs
<1>7. Len(c) = Len(w) /\ \A i \in 1 .. Len(c) : c[i] = w[i]
  BY <1>3, <1>4, <1>5, <1>6
<1>8. c = w
  BY <1>5, <1>7, ListSame
<1> QED
  BY <1>1, <1>2, <1>8

LEMMA CallFits ==
    ASSUME Busy, todo # << >>, NEW f, NEW K,
           \A state \in {"covered", "away"} : \A p : Outside(p) /\ Promises(state, fs, inverses, todo[1], p)
               => Has(state, f, K, p),
           todo[1].do \in {"note", "put"} =>
               /\ Len(todo) > 1 /\ todo[2].do = "set_mode" => ModeFits(f, K, Tail(todo), 1, todo[2].at)
               /\ Len(todo) > 1 /\ todo[2].do = "rename" => RenameFits(f, K, backups, Tail(todo), 1, todo[2])
    PROVE  WorkFits(f, K, backups, Tail(todo))
<1>1. PICK e : e = << >>
  OBVIOUS
<1>2. IsList(e) /\ Len(e) = 0
  BY <1>1, ListFew
<1>3. \A i \in 1 .. Len(e) : FitAt(f, K, backups, e, i)
  BY <1>2
<1>4. ASSUME NEW state \in {"covered", "away"}, NEW p, Outside(p), Promises(state, fs, inverses, todo[1], p)
      PROVE  Will(state, f, K, e, Len(e) + 1, p)
  <2>1. Has(state, f, K, p)
    BY <1>4
  <2>2. Len(e) + 1 = 1
    BY <1>2
  <2>3. Will(state, f, K, e, 1, p)
    BY <2>1, WillKept
  <2> QED
    BY <2>2, <2>3
<1>5. WorkFits(fs, inverses, backups, todo)
  BY DEF Busy
<1>6. WorkFits(f, K, backups, e \o Tail(todo))
  BY <1>1, <1>2, <1>3, <1>4, <1>5, TailFits
<1>7. IsList(Tail(todo))
  BY <1>5, ListLess DEF WorkFits
<1> QED
  BY <1>1, <1>6, <1>7, EmptyBefore

\* A call that keeps the invariant when it succeeds.
LEMMA CallKeeps ==
    ASSUME StepsInv, phase = "execute", NEW possible, NEW f, NEW noted, NEW K, K = inverses \o noted,
           Calls(possible, f, noted),
           possible => /\ IsList(K) /\ Restorable(start, f, K)
                       /\ TreeFits(f) /\ InPlaces(f, backups)
                       /\ \A i \in 1 .. Len(K) : InverseFits(f, K[i])
                       /\ WorkFits(f, K, backups, Tail(todo))
    PROVE  StepsInv'
<1>1. CASE Fails
  BY <1>1, FailsKeeps
<1>2. CASE /\ phase' = "rollback" /\ UNCHANGED << fs, deferred, inverses, backups, unchangedByWork >>
  BY <1>2, EndsKeeps
<1>3. CASE /\ possible /\ fs' = f /\ inverses' = K /\ todo' = Tail(todo)
           /\ UNCHANGED << deferred, backups, phase, faults, unchangedByWork >>
  <2>1. Journaled' /\ Busy'
    <3>1. backups \in Nat /\ leftovers = {}
      BY DEF StepsInv, Busy
    <3> QED
      BY <1>3, <3>1 DEF Journaled, Busy, unchangedByWork
  <2> QED
    BY <1>3, <2>1 DEF StepsInv, unchangedByWork
<1> QED
  BY <1>1, <1>2, <1>3 DEF Calls

\* What the inverses noted so far ask of the journal is asked no more of a tree with one.
LEMMA InversesStay ==
    ASSUME Busy, NEW f, Journal \in DOMAIN fs => Journal \in DOMAIN f
    PROVE  \A i \in 1 .. Len(inverses) : InverseFits(f, inverses[i])
BY DEF Busy, InverseFits

LEMMA InversesMore ==
    ASSUME Busy, Journaled, NEW f, Journal \in DOMAIN fs => Journal \in DOMAIN f, NEW inv, InverseFits(f, inv)
    PROVE  \A i \in 1 .. Len(Append(inverses, inv)) : InverseFits(f, Append(inverses, inv)[i])
<1>1. PICK K : K = Append(inverses, inv)
  OBVIOUS
<1>2. /\ Len(K) = Len(inverses) + 1 /\ (\A i \in 1 .. Len(inverses) : K[i] = inverses[i])
      /\ K[Len(inverses) + 1] = inv /\ Len(inverses) \in Nat
  <2>1. IsList(inverses)
    BY DEF Journaled
  <2>2. Len(inverses) \in Nat
    BY <2>1, ListIs
  <2>3. Len(K) = Len(inverses) + 1 /\ (\A i \in 1 .. Len(inverses) : K[i] = inverses[i])
        /\ K[Len(inverses) + 1] = inv
    BY <1>1, <2>1, ListMore
  <2> QED
    BY <2>2, <2>3
<1>3. ASSUME NEW i \in 1 .. Len(K) PROVE InverseFits(f, K[i])
  <2>1. CASE i \in 1 .. Len(inverses)
    BY <1>2, <2>1, InversesStay
  <2>2. CASE i = Len(inverses) + 1
    BY <1>2, <2>2
  <2> QED
    BY <1>2, <2>1, <2>2
<1> QED
  BY <1>1, <1>3

LEMMA CreateRootKeeps == StepsInv /\ CreateRoot => StepsInv'
<1> SUFFICES ASSUME StepsInv, CreateRoot PROVE StepsInv'
  OBVIOUS
<1>1. phase = "execute" /\ todo # << >> /\ Item.do = "root" /\ Calls(TRUE, With(fs, Journal, Directory), << >>)
  BY DEF CreateRoot, Doing
<1>2. Journaled /\ Busy /\ Item = todo[1] /\ FitAt(fs, inverses, backups, todo, 1)
  BY <1>1, FirstItem
<1>3. Journal \notin DOMAIN fs /\ TreeFits(fs) /\ leftovers = {} /\ InPlaces(fs, backups)
  BY <1>1, <1>2 DEF FitAt, Busy
<1>4. IsList(inverses) /\ Restorable(start, fs, inverses)
  BY <1>2, <1>3 DEF Journaled
<1>5. PICK g : g = With(fs, Journal, Directory)
  OBVIOUS
<1>6. TreeFits(g) /\ DOMAIN g = DOMAIN fs \cup {Journal}
  <2>1. TreeFits(WithRoot(fs))
    BY <1>3, RootFacts
  <2>2. DOMAIN With(fs, Journal, Directory) = DOMAIN fs \cup {Journal}
    BY DEF With
  <2> QED
    BY <1>5, <2>1, <2>2 DEF WithRoot
<1>7. Restorable(start, g, inverses)
  <2>1. \A i \in 1 .. Len(inverses) : EarlyInverse(inverses[i])
    BY <1>2, <1>3 DEF Busy, InverseFits
  <2> QED
    BY <1>3, <1>4, <1>5, <2>1, TraceRoot DEF WithRoot
<1>8. InPlaces(g, backups)
  BY <1>3, <1>6 DEF InPlaces
<1>9. \A i \in 1 .. Len(inverses) : InverseFits(g, inverses[i])
  BY <1>2, <1>6, InversesStay
<1>10. ASSUME NEW state \in {"covered", "away"}, NEW p, Outside(p), Promises(state, fs, inverses, todo[1], p)
       PROVE  Has(state, g, inverses, p)
  <2>1. Has(state, fs, inverses, p)
    BY <1>1, <1>2, <1>10 DEF Promises, Brings
  <2>2. p # Journal
    BY <1>10, OutsideFacts
  <2> QED
    BY <1>6, <2>1, <2>2 DEF Has
<1>11. WorkFits(g, inverses, backups, Tail(todo))
  BY <1>1, <1>2, <1>10, CallFits
<1>12. inverses = inverses \o << >>
  BY <1>4, AfterEmpty
<1> QED
  BY <1>1, <1>4, <1>5, <1>6, <1>7, <1>8, <1>9, <1>11, <1>12, CallKeeps

LEMMA MkdirKeeps == StepsInv /\ Mkdir => StepsInv'
<1> SUFFICES ASSUME StepsInv, Mkdir PROVE StepsInv'
  OBVIOUS
<1> DEFINE p == Item.at
           inv == RemovalOf(p)
<1>1. /\ phase = "execute" /\ todo # << >> /\ Item.do = "mkdir"
      /\ Calls(CanCreate(fs, p), With(fs, p, Directory), << inv >>)
  BY DEF Mkdir, Doing
<1>2. Journaled /\ Busy /\ Item = todo[1] /\ Outside(p) /\ p \in Path
  BY <1>1, FirstItem DEF ItemFits, OnePath, Outside
<1>3. TreeFits(fs) /\ leftovers = {} /\ InPlaces(fs, backups)
  BY <1>2 DEF Busy
<1>4. IsList(inverses) /\ Restorable(start, fs, inverses)
  BY <1>2, <1>3 DEF Journaled
<1>5. PICK g : g = With(fs, p, Directory)
  OBVIOUS
<1>6. PICK K : K = Append(inverses, inv)
  OBVIOUS
<1>7. IsList(K) /\ K = inverses \o << inv >> /\ K # << >> /\ Last(K) = inv
  <2>1. IsList(K) /\ K # << >> /\ Last(K) = inv
    BY <1>4, <1>6, ListMore
  <2>2. K = inverses \o << inv >>
    BY <1>4, <1>6, ListMore
  <2> QED
    BY <2>1, <2>2
<1>8. DOMAIN g = DOMAIN fs \cup {p}
  BY <1>5 DEF With
<1>9. p # Journal /\ ~IsPrefix(p, Journal)
  BY <1>2, OutsideFacts
<1>10. ASSUME CanCreate(fs, p) PROVE TreeFits(g) /\ Restorable(start, g, K)
  <2>1. TreeFits(g) /\ CanApply(g, inv) /\ ApplyInverse(g, inv) = fs
    BY <1>2, <1>3, <1>5, <1>10, MkdirBack
  <2> HIDE DEF inv
  <2> QED
    BY <1>4, <1>6, <1>8, <2>1, TraceMore
<1>11. InPlaces(g, backups)
  BY <1>2, <1>3, <1>8 DEF InPlaces, Inner
<1>12. \A i \in 1 .. Len(K) : InverseFits(g, K[i])
  <2>1. InverseFits(g, inv)
    BY <1>2 DEF InverseFits, EarlyInverse, RemovalOf
  <2> QED
    BY <1>2, <1>6, <1>8, <2>1, InversesMore
<1>13. ASSUME NEW state \in {"covered", "away"}, NEW r, Outside(r), Promises(state, fs, inverses, todo[1], r)
       PROVE  Has(state, g, K, r)
  <2>1. Has(state, fs, inverses, r) /\ Leaves(state, Item, r)
    BY <1>1, <1>2, <1>13 DEF Promises, Brings
  <2>2. CASE state = "covered"
    <3>1. IsPrefix(p, r)
      BY <1>1, <2>1, <2>2 DEF Leaves
    <3> QED
      BY <1>7, <2>2, <3>1 DEF Has, Covered, Covers, RemovalOf
  <2>3. CASE state = "away"
    <3>1. ~IsPrefix(r, p)
      BY <1>1, <2>1, <2>3 DEF Leaves
    <3>2. r # p
      BY <1>2, <3>1, PrefixOrder
    <3> QED
      BY <1>8, <2>1, <2>3, <3>2 DEF Has
  <2> QED
    BY <2>2, <2>3
<1>14. WorkFits(g, K, backups, Tail(todo))
  BY <1>1, <1>2, <1>13, CallFits
<1> QED
  BY <1>1, <1>5, <1>7, <1>10, <1>11, <1>12, <1>14, CallKeeps

\* The last inverse of a covered path.
LEMMA CoveredLast ==
    ASSUME Busy, Journaled, NEW p, Covered(inverses, p)
    PROVE  /\ inverses # << >> /\ Covers(Last(inverses), p)
           /\ Last(inverses).at \in Path /\ Last(inverses).at # << >>
<1>1. inverses # << >> /\ Covers(Last(inverses), p)
  BY DEF Covered
<1>2. Len(inverses) \in 1 .. Len(inverses) /\ Last(inverses) = inverses[Len(inverses)]
  BY <1>1, ListLess DEF Journaled
<1> QED
  BY <1>1, <1>2 DEF Busy, InverseFits, Outside

LEMMA PutKeeps == StepsInv /\ Put => StepsInv'
<1> SUFFICES ASSUME StepsInv, Put PROVE StepsInv'
  OBVIOUS
<1> DEFINE p == Item.at
           inv == Last(inverses)
<1>1. /\ phase = "execute" /\ todo # << >> /\ Item.do = "put"
      /\ Calls(CanCreate(fs, p), With(fs, p, Item.entry), << >>)
  BY DEF Put, Doing
<1>2. /\ Journaled /\ Busy /\ Item = todo[1] /\ Outside(p) /\ p \in Path /\ IsEntry(Item.entry)
      /\ FitAt(fs, inverses, backups, todo, 1)
  BY <1>1, FirstItem DEF ItemFits, OnePath, Outside
<1>3. TreeFits(fs) /\ leftovers = {} /\ InPlaces(fs, backups)
  BY <1>2 DEF Busy
<1>4. IsList(inverses) /\ Restorable(start, fs, inverses)
  BY <1>2, <1>3 DEF Journaled
<1>5. PICK g : g = With(fs, p, Item.entry)
  OBVIOUS
<1>6. DOMAIN g = DOMAIN fs \cup {p}
  BY <1>5 DEF With
<1>7. Covered(inverses, p)
  BY <1>1, <1>2, CoveredNow
<1>8. inverses # << >> /\ Covers(inv, p) /\ inv.at \in Path /\ inv.at # << >>
  BY <1>2, <1>7, CoveredLast
<1> HIDE DEF inv
<1>9. ASSUME CanCreate(fs, p) PROVE TreeFits(g) /\ Restorable(start, g, inverses) /\ Children(g, p) = {}
  <2>1. TreeFits(g) /\ Children(g, p) = {}
    BY <1>2, <1>3, <1>5, <1>9, WithFacts DEF CanCreate, Writable
  <2>2. CanApply(fs, inv) => CanApply(g, inv) /\ ApplyInverse(g, inv) = ApplyInverse(fs, inv)
    BY <1>2, <1>3, <1>5, <1>8, <1>9, PutCovered
  <2>3. Restorable(start, g, inverses)
    BY <1>4, <1>6, <1>8, <2>1, <2>2, TraceTop DEF inv
  <2> QED
    BY <2>1, <2>3
<1>10. InPlaces(g, backups)
  BY <1>2, <1>3, <1>6 DEF InPlaces, Inner
<1>11. \A i \in 1 .. Len(inverses) : InverseFits(g, inverses[i])
  BY <1>2, <1>6, InversesStay
<1>12. ASSUME NEW state \in {"covered", "away"}, NEW r, Outside(r), Promises(state, fs, inverses, todo[1], r)
       PROVE  Has(state, g, inverses, r)
  <2>1. state = "covered" /\ Has(state, fs, inverses, r)
    BY <1>1, <1>2, <1>12 DEF Promises, Brings, Leaves
  <2> QED
    BY <2>1 DEF Has
<1>13. ASSUME CanCreate(fs, p), Len(todo) > 1 PROVE
         /\ todo[2].do = "set_mode" => ModeFits(g, inverses, Tail(todo), 1, todo[2].at)
         /\ todo[2].do = "rename" => RenameFits(g, inverses, backups, Tail(todo), 1, todo[2])
  <2>1. FitAt(fs, inverses, backups, todo, 2)
    <3>1. 2 \in 1 .. Len(todo)
      BY <1>13, <1>2, ListIs DEF Busy, WorkFits
    <3> QED
      BY <1>2, <3>1 DEF Busy, WorkFits
  <2>2. ASSUME todo[2].do = "set_mode" PROVE ModeFits(g, inverses, Tail(todo), 1, todo[2].at)
    <3>1. ModeFits(fs, inverses, todo, 2, todo[2].at)
      BY <2>1, <2>2 DEF FitAt
    <3>2. todo[2].at = p
      BY <1>1, <1>2, <3>1 DEF ModeFits
    <3> QED
      BY <1>6, <1>7, <1>9, <1>13, <3>2 DEF ModeFits
  <2>3. ASSUME todo[2].do = "rename" PROVE FALSE
    <3>1. RenameFits(fs, inverses, backups, todo, 2, todo[2])
      BY <2>1, <2>3 DEF FitAt
    <3>2. todo[1] = Notes(MoveBack(todo[2].from, todo[2].at))
      BY <3>1 DEF RenameFits
    <3>3. todo[1].do = "note"
      BY <3>2 DEF Notes
    <3> QED
      BY <1>1, <1>2, <3>3
  <2> QED
    BY <2>2, <2>3
<1>14. CanCreate(fs, p) => WorkFits(g, inverses, backups, Tail(todo))
  BY <1>1, <1>2, <1>12, <1>13, CallFits
<1>15. inverses = inverses \o << >>
  BY <1>4, AfterEmpty
<1> QED
  BY <1>1, <1>4, <1>5, <1>9, <1>10, <1>11, <1>14, <1>15, CallKeeps

LEMMA SetModeKeeps == StepsInv /\ SetMode => StepsInv'
<1> SUFFICES ASSUME StepsInv, SetMode PROVE StepsInv'
  OBVIOUS
<1> DEFINE p == Item.at
           inv == Last(inverses)
<1>1. /\ phase = "execute" /\ todo # << >> /\ Item.do = "set_mode"
      /\ Calls(p \in DOMAIN fs, [fs EXCEPT ![p].mode = Item.mode], << >>)
  BY DEF SetMode, Doing
<1>2. /\ Journaled /\ Busy /\ Item = todo[1] /\ Outside(p) /\ p \in Path
      /\ FitAt(fs, inverses, backups, todo, 1)
  BY <1>1, FirstItem DEF ItemFits, OnePath, Outside
<1>3. TreeFits(fs) /\ leftovers = {} /\ InPlaces(fs, backups)
  BY <1>2 DEF Busy
<1>4. IsList(inverses) /\ Restorable(start, fs, inverses)
  BY <1>2, <1>3 DEF Journaled
<1>5. PICK g : g = [fs EXCEPT ![p].mode = Item.mode]
  OBVIOUS
<1>6. DOMAIN g = DOMAIN fs
  BY <1>5
<1>7. \/ inverses # << >> /\ inv = ModeOf(p, fs[p].mode)
      \/ Children(fs, p) = {} /\ Covered(inverses, p)
  BY <1>1, <1>2 DEF FitAt, ModeFits
<1>8. ASSUME p \in DOMAIN fs PROVE TreeFits(g) /\ Restorable(start, g, inverses)
  <2>1. TreeFits(g)
    BY <1>3, <1>5, <1>8, ModeFacts
  <2>2. /\ inverses # << >>
        /\ CanApply(fs, inv) => CanApply(g, inv) /\ ApplyInverse(g, inv) = ApplyInverse(fs, inv)
    <3>1. CASE inverses # << >> /\ inv = ModeOf(p, fs[p].mode)
      <4>1. CanApply(g, ModeOf(p, fs[p].mode))
            /\ ApplyInverse(g, ModeOf(p, fs[p].mode)) = ApplyInverse(fs, ModeOf(p, fs[p].mode))
        BY <1>3, <1>5, <1>8, ModeBack
      <4> QED
        BY <3>1, <4>1
    <3>2. CASE Children(fs, p) = {} /\ Covered(inverses, p)
      <4>1. inverses # << >> /\ Covers(inv, p) /\ inv.at \in Path /\ inv.at # << >> /\ p # << >>
        BY <1>2, <3>2, CoveredLast DEF Outside
      <4> HIDE DEF inv
      <4>2. ASSUME CanApply(fs, inv)
            PROVE  CanApply([fs EXCEPT ![p].mode = Item.mode], inv)
                   /\ ApplyInverse([fs EXCEPT ![p].mode = Item.mode], inv) = ApplyInverse(fs, inv)
        BY <1>3, <1>8, <3>2, <4>1, <4>2, ModeCovered
      <4> QED
        BY <1>5, <4>1, <4>2
    <3> QED
      BY <1>7, <3>1, <3>2
  <2>3. Restorable(start, g, inverses)
    BY <1>4, <1>6, <2>1, <2>2, TraceTop
  <2> QED
    BY <2>1, <2>3
<1>9. InPlaces(g, backups)
  BY <1>3, <1>6 DEF InPlaces
<1>10. \A i \in 1 .. Len(inverses) : InverseFits(g, inverses[i])
  BY <1>2, <1>6, InversesStay
<1>11. ASSUME NEW state \in {"covered", "away"}, NEW r, Outside(r), Promises(state, fs, inverses, todo[1], r)
       PROVE  Has(state, g, inverses, r)
  <2>1. state = "covered" /\ Has(state, fs, inverses, r)
    BY <1>1, <1>2, <1>11 DEF Promises, Brings, Leaves
  <2> QED
    BY <2>1 DEF Has
<1>12. WorkFits(g, inverses, backups, Tail(todo))
  BY <1>1, <1>2, <1>11, CallFits
<1>13. inverses = inverses \o << >>
  BY <1>4, AfterEmpty
<1> QED
  BY <1>1, <1>4, <1>5, <1>8, <1>9, <1>10, <1>12, <1>13, CallKeeps

LEMMA NoteKeeps == StepsInv /\ Note => StepsInv'
<1> SUFFICES ASSUME StepsInv, Note PROVE StepsInv'
  OBVIOUS
<1> DEFINE v == Item.inverse
<1>1. /\ phase = "execute" /\ todo # << >> /\ Item.do = "note"
      /\ inverses' = Append(inverses, v) /\ todo' = Tail(todo)
      /\ UNCHANGED << fs, deferred, backups, phase, faults, unchangedByWork >>
  BY DEF Note, Doing
<1>2. /\ Journaled /\ Busy /\ Item = todo[1] /\ FitAt(fs, inverses, backups, todo, 1)
      /\ WorkFits(fs, inverses, backups, todo)
  BY <1>1, FirstItem DEF Busy
<1>3. TreeFits(fs) /\ leftovers = {} /\ IsList(inverses) /\ Restorable(start, fs, inverses)
  BY <1>2 DEF Busy, Journaled
<1>4. NoteFits(fs, inverses, todo, 1, v)
  BY <1>1, <1>2 DEF FitAt
<1>5. \A p : Will("away", fs, inverses, todo, 1, p) => p \notin DOMAIN fs
  <2>1. 1 - 1 = 0
    OBVIOUS
  <2> QED
    BY <2>1 DEF Will, Has
<1>6. /\ Outside(v.at)
      /\ \/ v = RemovalOf(v.at) /\ v.at \notin DOMAIN fs
         \/ v = MoveBack(v.at, v.from) /\ Outside(v.from) /\ v.from \notin DOMAIN fs
         \/ v.at \in DOMAIN fs /\ v = ModeOf(v.at, fs[v.at].mode)
  BY <1>4, <1>5 DEF NoteFits
<1>7. PICK K : K = Append(inverses, v)
  OBVIOUS
<1>8. IsList(K) /\ K # << >> /\ Last(K) = v
  BY <1>3, <1>7, ListMore
<1>9. CanApply(fs, v) /\ ApplyInverse(fs, v) = fs
  <2>1. CASE v = RemovalOf(v.at) /\ v.at \notin DOMAIN fs
    BY <1>3, <2>1, NothingToUndo
  <2>2. CASE v = MoveBack(v.at, v.from) /\ v.from \notin DOMAIN fs
    BY <1>3, <2>2, NothingToUndo
  <2>3. CASE v.at \in DOMAIN fs /\ v = ModeOf(v.at, fs[v.at].mode)
    BY <1>3, <2>3, NothingToUndo
  <2> QED
    BY <1>6, <2>1, <2>2, <2>3
<1>10. Restorable(start, fs, K)
  BY <1>3, <1>7, <1>9, TraceMore
<1>11. \A i \in 1 .. Len(K) : InverseFits(fs, K[i])
  <2>1. EarlyInverse(v)
    BY <1>6 DEF EarlyInverse, RemovalOf, MoveBack, ModeOf
  <2>2. InverseFits(fs, v)
    BY <1>6, <2>1 DEF InverseFits
  <2> QED
    BY <1>2, <1>7, <2>2, InversesMore
<1>12. ASSUME NEW state \in {"covered", "away"}, NEW r, Outside(r), Promises(state, fs, inverses, todo[1], r)
       PROVE  Has(state, fs, K, r)
  <2>1. CASE state = "covered"
    <3>1. v = RemovalOf(v.at) /\ IsPrefix(v.at, r)
      BY <1>1, <1>2, <1>12, <2>1 DEF Promises, Brings, Leaves
    <3>2. Covers(v, r)
      BY <3>1 DEF Covers, RemovalOf
    <3> QED
      BY <1>8, <2>1, <3>2 DEF Has, Covered
  <2>2. CASE state = "away"
    BY <1>1, <1>2, <1>12, <2>2 DEF Promises, Brings, Leaves, Has
  <2> QED
    BY <2>1, <2>2
<1>13. ASSUME Len(todo) > 1 PROVE
         /\ todo[2].do = "set_mode" => ModeFits(fs, K, Tail(todo), 1, todo[2].at)
         /\ todo[2].do = "rename" => RenameFits(fs, K, backups, Tail(todo), 1, todo[2])
  <2>1. FitAt(fs, inverses, backups, todo, 2)
    <3>1. 2 \in 1 .. Len(todo)
      BY <1>2, <1>13, ListIs DEF WorkFits
    <3> QED
      BY <1>2, <3>1 DEF WorkFits
  <2>2. ASSUME todo[2].do = "set_mode" PROVE ModeFits(fs, K, Tail(todo), 1, todo[2].at)
    <3>1. ModeFits(fs, inverses, todo, 2, todo[2].at)
      BY <2>1, <2>2 DEF FitAt
    <3>2. v.undo = "mode" /\ v.at = todo[2].at
      BY <1>1, <1>2, <3>1 DEF ModeFits
    <3>3. v.at \in DOMAIN fs /\ v = ModeOf(v.at, fs[v.at].mode)
      BY <1>6, <3>2 DEF RemovalOf, MoveBack
    <3> QED
      BY <1>8, <3>2, <3>3 DEF ModeFits
  <2>3. ASSUME todo[2].do = "rename" PROVE RenameFits(fs, K, backups, Tail(todo), 1, todo[2])
    <3> DEFINE x == todo[2]
    <3>1. RenameFits(fs, inverses, backups, todo, 2, x)
      BY <2>1, <2>3 DEF FitAt
    <3>2. /\ Outside(x.from) /\ x.noted = << >> /\ Outside(x.at)
          /\ todo[1] = Notes(MoveBack(x.from, x.at))
      <4>1. 2 - 1 = 1
        OBVIOUS
      <4> QED
        BY <3>1, <4>1 DEF RenameFits
    <3> HIDE DEF x
    <3>3. v = MoveBack(x.from, x.at) /\ v.from = x.at /\ v.undo = "move_back"
      BY <1>2, <3>2 DEF Notes, MoveBack
    <3>4. x.at \notin DOMAIN fs
      BY <1>6, <3>3 DEF RemovalOf, ModeOf
    <3>5. RenameFits(fs, K, backups, Tail(todo), 1, x)
      BY <1>8, <3>2, <3>3, <3>4 DEF RenameFits
    <3> QED
      BY <3>5 DEF x
  <2> QED
    BY <2>2, <2>3
<1>14. WorkFits(fs, K, backups, Tail(todo))
  BY <1>1, <1>2, <1>12, <1>13, CallFits
<1> QED
  BY <1>1, <1>2, <1>7, <1>8, <1>10, <1>11, <1>14 DEF StepsInv, Journaled, Busy, unchangedByWork

\* Where things are after a rename.
LEMMA MovedPlaces ==
    ASSUME Busy, NEW p, Outside(p), NEW q \in Path, CanRename(fs, p, q), q \notin DOMAIN fs,
           Outside(q) \/ \E m \in Nat : m < backups /\ Numbered(q, m)
    PROVE  /\ InPlaces(Moved(fs, p, q), backups)
           /\ Journal \in DOMAIN fs => Journal \in DOMAIN Moved(fs, p, q)
           /\ p \notin DOMAIN Moved(fs, p, q)
           /\ \A r : Outside(r) => (r \in DOMAIN Moved(fs, p, q) => r \in DOMAIN fs \/ IsPrefix(q, r))
<1>1. TreeFits(fs) /\ InPlaces(fs, backups) /\ p \in Path /\ DOMAIN fs \subseteq Path
  BY DEF Busy, Outside, TreeFits
<1>2. PICK g : g = Moved(fs, p, q)
  OBVIOUS
<1>3. DOMAIN g = {r \in DOMAIN fs : ~IsPrefix(p, r)} \cup {Graft(p, q, r) : r \in Subtree(fs, p)}
  BY <1>1, <1>2, MovedFacts
<1>4. ASSUME NEW r \in Subtree(fs, p)
      PROVE  Graft(p, q, r) \in Path /\ IsPrefix(q, Graft(p, q, r))
  <2>1. r \in Path /\ IsPrefix(p, r)
    BY <1>1 DEF Subtree
  <2> QED
    BY <1>1, <2>1, GraftFacts
<1>5. ASSUME NEW r \in Path, IsPrefix(q, r)
      PROVE  Inner(r) \/ \E m \in Nat : m < backups /\ Numbered(r, m)
  <2>1. CASE Outside(q)
    BY <1>5, <2>1, OutsideFacts DEF Inner
  <2>2. CASE \E m \in Nat : m < backups /\ Numbered(q, m)
    <3>1. PICK m \in Nat : m < backups /\ Numbered(q, m)
      BY <2>2
    <3>2. Len(q) > 1 /\ q[1] = "journal" /\ q[2] = m
      BY <3>1 DEF Numbered
    <3>3. Len(q) <= Len(r) /\ \A i \in 1 .. Len(q) : r[i] = q[i]
      BY <1>5, PrefixIs
    <3>4. Len(r) > 1 /\ r[1] = "journal" /\ r[2] = m
      BY <1>5, <3>2, <3>3 DEF Path
    <3> QED
      BY <1>5, <3>1, <3>4 DEF Numbered
  <2> QED
    BY <2>1, <2>2
<1>6. InPlaces(g, backups)
  BY <1>1, <1>3, <1>4, <1>5 DEF InPlaces
<1>7. Journal \in DOMAIN fs => Journal \in DOMAIN g
  BY <1>3, OutsideFacts
<1>8. p \notin DOMAIN g
  BY <1>1, <1>2, MovedBack
<1>9. \A r : r \in DOMAIN g => r \in DOMAIN fs \/ IsPrefix(q, r)
  BY <1>3, <1>4
<1> QED
  BY <1>2, <1>6, <1>7, <1>8, <1>9

LEMMA RenameKeeps == StepsInv /\ Rename => StepsInv'
<1> SUFFICES ASSUME StepsInv, Rename PROVE StepsInv'
  OBVIOUS
<1> DEFINE p == Item.from
           q == Item.at
           possible == CanRename(fs, p, q)
<1>1. /\ phase = "execute" /\ todo # << >> /\ Item.do = "rename"
      /\ Calls(possible, Moved(fs, p, q), Item.noted)
  BY DEF Rename, Doing
<1>2. Journaled /\ Busy /\ Item = todo[1] /\ FitAt(fs, inverses, backups, todo, 1)
  BY <1>1, FirstItem
<1>3. /\ TreeFits(fs) /\ leftovers = {} /\ InPlaces(fs, backups) /\ backups \in Nat
      /\ IsList(inverses) /\ Restorable(start, fs, inverses)
  BY <1>2 DEF Busy, Journaled
<1>4. /\ Outside(p) /\ p \in Path
      /\ \/ /\ Item.noted = << >> /\ Outside(q) /\ inverses # << >>
            /\ Last(inverses) = MoveBack(p, q) /\ q \notin DOMAIN fs
         \/ /\ backups > 0 /\ q = Append(Journal, backups - 1) /\ q \notin DOMAIN fs
            /\ Journal \in DOMAIN fs
            /\ Item.noted \in {<< ReplaceBy(p, q) >>, << RestoreFrom(p, q) >>}
  BY <1>1, <1>2 DEF FitAt, RenameFits, Outside
<1>5. PICK g : g = Moved(fs, p, q)
  OBVIOUS
<1>6. ASSUME NEW K, K = inverses \o Item.noted, IsList(K), q \in Path,
             Outside(q) \/ \E m \in Nat : m < backups /\ Numbered(q, m),
             possible => Restorable(start, g, K),
             possible => \A i \in 1 .. Len(K) : InverseFits(g, K[i]),
             \A state \in {"covered", "away"} : \A r : Outside(r) /\ Promises(state, fs, inverses, todo[1], r) /\ possible
                 => Has(state, g, K, r)
      PROVE  StepsInv'
  <2>1. q \notin DOMAIN fs
    BY <1>4
  <2>2. possible => TreeFits(g) /\ InPlaces(g, backups)
    BY <1>2, <1>3, <1>4, <1>5, <1>6, <2>1, MovedFacts, MovedPlaces
  <2>3. possible => WorkFits(g, K, backups, Tail(todo))
    BY <1>1, <1>2, <1>6, CallFits
  <2>4. possible => /\ IsList(K) /\ Restorable(start, g, K)
                    /\ TreeFits(g) /\ InPlaces(g, backups)
                    /\ \A i \in 1 .. Len(K) : InverseFits(g, K[i])
                    /\ WorkFits(g, K, backups, Tail(todo))
    BY <1>6, <2>2, <2>3
  <2>5. Calls(possible, g, Item.noted) /\ K = inverses \o Item.noted
    BY <1>1, <1>5, <1>6
  <2> HIDE DEF possible
  <2> QED
    BY <1>1, <2>4, <2>5, CallKeeps
<1>7. CASE /\ Item.noted = << >> /\ Outside(q) /\ inverses # << >>
           /\ Last(inverses) = MoveBack(p, q) /\ q \notin DOMAIN fs
  <2> DEFINE inv == MoveBack(p, q)
  <2>1. q \in Path
    BY <1>7 DEF Outside
  <2>2. inverses = inverses \o Item.noted
    BY <1>3, <1>7, AfterEmpty
  <2>3. ASSUME possible PROVE Restorable(start, g, inverses)
    <3>1. TreeFits(g) /\ CanApply(g, inv) /\ ApplyInverse(g, inv) = fs
      BY <1>3, <1>4, <1>5, <1>7, <2>1, <2>3, RenameBack
    <3>2. ApplyInverse(fs, inv) = fs
      BY <1>3, <1>7, NothingToUndo
    <3>3. Journal \in DOMAIN fs => Journal \in DOMAIN g
      BY <1>2, <1>4, <1>5, <1>7, <2>1, <2>3, MovedPlaces
    <3> HIDE DEF inv
    <3>4. Last(inverses) = inv
      BY <1>7 DEF inv
    <3> QED
      BY <1>3, <1>7, <3>1, <3>2, <3>3, <3>4, TraceTop
  <2>4. ASSUME possible PROVE \A i \in 1 .. Len(inverses) : InverseFits(g, inverses[i])
    <3>1. Journal \in DOMAIN fs => Journal \in DOMAIN g
      BY <1>2, <1>4, <1>5, <1>7, <2>1, <2>4, MovedPlaces
    <3> QED
      BY <1>2, <3>1, InversesStay
  <2>5. \A state \in {"covered", "away"} : \A r : ~Promises(state, fs, inverses, todo[1], r)
    <3>1. Item.noted # << ReplaceBy(p, q) >>
      <4>1. Len(<< >>) = 0 /\ Len(<< ReplaceBy(p, q) >>) = 1
        OBVIOUS
      <4> QED
        BY <1>7, <4>1
    <3> QED
      BY <1>1, <1>2, <1>7, <3>1 DEF Promises, Brings, Leaves
  <2> QED
    BY <1>3, <1>6, <1>7, <2>1, <2>2, <2>3, <2>4, <2>5
<1>8. CASE /\ backups > 0 /\ q = Append(Journal, backups - 1) /\ q \notin DOMAIN fs
           /\ Journal \in DOMAIN fs
           /\ Item.noted \in {<< ReplaceBy(p, q) >>, << RestoreFrom(p, q) >>}
  <2>1. /\ backups - 1 \in Nat /\ backups - 1 < backups /\ q \in Path /\ Numbered(q, backups - 1)
    BY <1>3, <1>8, BackupPlace
  <2>2. PICK inv \in {ReplaceBy(p, q), RestoreFrom(p, q)} : Item.noted = << inv >>
    BY <1>8
  <2>3. inv.at = p /\ (inv.undo = "replace" \/ inv = RestoreFrom(p, q))
    BY <2>2 DEF ReplaceBy, RestoreFrom
  <2>4. PICK K : K = Append(inverses, inv)
    OBVIOUS
  <2>5. IsList(K) /\ K # << >> /\ Last(K) = inv
    BY <1>3, <2>4, ListMore
  <2>6. K = inverses \o Item.noted
    BY <1>3, <2>2, <2>4, ListMore
  <2>7. ASSUME possible PROVE Journal \in DOMAIN g /\ p \notin DOMAIN g
    BY <1>2, <1>4, <1>5, <1>8, <2>1, <2>7, MovedPlaces
  <2>8. ASSUME possible PROVE Restorable(start, g, K)
    <3>1. TreeFits(g) /\ CanApply(g, inv) /\ ApplyInverse(g, inv) = fs
      BY <1>3, <1>4, <1>5, <1>8, <2>1, <2>2, <2>8, RenameBack
    <3> QED
      BY <1>3, <2>4, <2>7, <2>8, <3>1, TraceMore
  <2>9. ASSUME possible PROVE \A i \in 1 .. Len(K) : InverseFits(g, K[i])
    <3>1. Journal \in DOMAIN g /\ InverseFits(g, inv)
      BY <1>4, <2>3, <2>7, <2>9 DEF InverseFits
    <3> QED
      BY <1>2, <2>4, <3>1, InversesMore
  <2>10. ASSUME NEW state \in {"covered", "away"}, NEW r, Outside(r), possible,
                Promises(state, fs, inverses, todo[1], r)
         PROVE  Has(state, g, K, r)
    <3>1. CASE state = "covered"
      <4>1. Item.noted = << ReplaceBy(p, q) >> /\ IsPrefix(p, r)
        BY <1>1, <1>2, <2>10, <3>1 DEF Promises, Brings, Leaves
      <4>2. inv = ReplaceBy(p, q)
        <5>1. << inv >>[1] = inv /\ << ReplaceBy(p, q) >>[1] = ReplaceBy(p, q)
          OBVIOUS
        <5> QED
          BY <2>2, <4>1, <5>1
      <4>3. Covers(inv, r)
        BY <4>1, <4>2 DEF Covers, ReplaceBy
      <4> QED
        BY <2>5, <3>1, <4>3 DEF Has, Covered
    <3>2. CASE state = "away"
      <4>1. r = p
        BY <1>1, <1>2, <2>10, <3>2 DEF Promises, Brings, Leaves
      <4> QED
        BY <2>7, <2>10, <3>2, <4>1 DEF Has
    <3> QED
      BY <3>1, <3>2
  <2> QED
    BY <1>6, <2>1, <2>5, <2>6, <2>8, <2>9, <2>10
<1> QED
  BY <1>4, <1>7, <1>8

-----------------------------------------------------------------------------
(* The end                                                                 *)

LEMMA RootCut ==
    ASSUME NEW f
    PROVE  Journal \notin DOMAIN Cut(f, Journal)
<1>1. IsPrefix(Journal, Journal)
  BY PrefixOrder, WithRootPath
<1> QED
  BY <1>1 DEF Cut, Subtree

LEMMA CommitKeeps == StepsInv /\ Commit => StepsInv'
<1> SUFFICES ASSUME StepsInv, Commit PROVE StepsInv'
  OBVIOUS
<1>1. phase = "execute" /\ phase' = "committed" /\ program' = program /\ pc' = pc
  BY DEF Commit, AllTaken, DropRoot
<1>2. TreeFits(fs) /\ leftovers = {}
  BY <1>1 DEF StepsInv, Busy
<1>3. \/ fs' = Cut(fs, Journal)
      \/ leftovers' = leftovers \cup {Journal}
  BY DEF Commit, DropRoot
<1>4. Journal \notin DOMAIN Cut(fs, Journal)
  BY RootCut
<1>5. leftovers' = {} => Journal \notin DOMAIN fs'
  BY <1>3, <1>4
<1> QED
  BY <1>1, <1>5 DEF StepsInv

\* The last inverse takes the tree one back.
LEMMA RetraceLess ==
    ASSUME NEW s, NEW f, NEW J, IsList(J), J # << >>, Retraced(s, f, J)
    PROVE  CanApply(f, Last(J)) /\ Retraced(s, ApplyInverse(f, Last(J)), Front(J))
<1>1. PICK T : Retraces(s, f, J, T)
  BY DEF Retraced
<1> DEFINE N == Len(J)
           K == Front(J)
<1>2. /\ N \in Nat /\ N > 0 /\ Last(J) = J[N] /\ IsList(K) /\ Len(K) = N - 1
      /\ \A i \in 1 .. N - 1 : K[i] = J[i]
  BY ListLess
<1>3. /\ T[N] = f /\ (\A i \in 0 .. N : TreeFits(T[i]))
      /\ \A i \in 1 .. N : CanApply(T[i], J[i]) /\ T[i - 1] = ApplyInverse(T[i], J[i])
      /\ Cut(T[0], Journal) = s
  BY <1>1 DEF Retraces
<1> HIDE DEF K
<1>4. N \in 1 .. N /\ \A i \in 0 .. N - 1 : i \in 0 .. N
  BY <1>2
<1>5. CanApply(f, Last(J)) /\ T[N - 1] = ApplyInverse(f, Last(J))
  BY <1>2, <1>3, <1>4
<1>6. \A i \in 1 .. N - 1 : CanApply(T[i], K[i]) /\ T[i - 1] = ApplyInverse(T[i], K[i])
  <2>1. \A i \in 1 .. N - 1 : i \in 1 .. N
    BY <1>2
  <2> QED
    BY <1>2, <1>3, <2>1
<1>7. Retraces(s, T[N - 1], K, T)
  BY <1>2, <1>3, <1>4, <1>6 DEF Retraces
<1>8. Retraced(s, T[N - 1], K)
  BY <1>7 DEF Retraced
<1> QED
  BY <1>5, <1>8 DEF K

\* An inverse that failed and left nothing had nothing left to do.
LEMMA NothingLeft ==
    ASSUME NEW f, NEW inv, NEW g \in HalfApplied(f, inv), LeftBy(g, inv) = {}
    PROVE  ApplyInverse(f, inv) = g
<1>1. inv.at \notin DOMAIN g /\ (inv.undo \in {"replace", "restore", "move_back"} => inv.from \notin DOMAIN g)
  BY DEF LeftBy
<1> DEFINE e == [q \in DOMAIN f \ (Subtree(f, inv.at) \ {inv.at}) |-> f[q]]
<1>2. Clears(f, inv) => inv.at \in DOMAIN e
  BY DEF Clears
<1>3. g # e \/ ~Clears(f, inv)
  BY <1>1, <1>2
<1>4. g = f \/ (g = Cleared(f, inv) /\ Fetches(Cleared(f, inv), inv))
  BY <1>3 DEF HalfApplied
<1>5. ~(g = Cleared(f, inv) /\ Fetches(Cleared(f, inv), inv))
  BY <1>1 DEF Fetches
<1>6. g = f
  BY <1>4, <1>5
<1>7. ~Clears(f, inv) /\ ~Fetches(f, inv)
  BY <1>1, <1>6 DEF Clears, Fetches
<1> QED
  BY <1>1, <1>6, <1>7 DEF ApplyInverse, Cleared

LEMMA UndoLastKeeps == StepsInv /\ UndoLast => StepsInv'
<1> SUFFICES ASSUME StepsInv, UndoLast PROVE StepsInv'
  OBVIOUS
<1> DEFINE inv == Last(inverses)
<1>1. /\ phase = "rollback" /\ inverses # << >> /\ inverses' = Front(inverses)
      /\ UNCHANGED << program, start, pc, todo, answered, taken, deferred, backups, phase >>
  BY DEF UndoLast
<1>2. \/ fs' = ApplyInverse(fs, inv) /\ leftovers' = leftovers
      \/ fs' \in HalfApplied(fs, inv) /\ leftovers' = leftovers \cup LeftBy(fs', inv)
  BY DEF UndoLast
<1>3. Returning /\ IsList(inverses)
  BY <1>1 DEF StepsInv, Returning
<1>4. IsList(Front(inverses))
  BY <1>1, <1>3, ListLess
<1>5. ASSUME leftovers' = {} PROVE Retraced(start, fs', Front(inverses))
  <2>1. leftovers = {} /\ fs' = ApplyInverse(fs, inv)
    BY <1>2, <1>5, NothingLeft
  <2>2. Retraced(start, fs, inverses)
    BY <1>3, <2>1 DEF Returning
  <2> QED
    BY <1>1, <1>3, <2>1, <2>2, RetraceLess
<1>6. Returning'
  BY <1>1, <1>4, <1>5 DEF Returning
<1> QED
  BY <1>1, <1>6 DEF StepsInv

LEMMA RollbackDoneKeeps == StepsInv /\ RollbackDone => StepsInv'
<1> SUFFICES ASSUME StepsInv, RollbackDone PROVE StepsInv'
  OBVIOUS
<1>1. phase = "rollback" /\ inverses = << >> /\ phase' = "rolled_back" /\ UNCHANGED << program, pc, start >>
  BY DEF RollbackDone, DropRoot
<1>2. \/ fs' = Cut(fs, Journal) /\ leftovers' = leftovers
      \/ leftovers' = leftovers \cup {Journal}
  BY DEF RollbackDone, DropRoot
<1>3. ASSUME leftovers' = {} PROVE Journal \notin DOMAIN fs' /\ fs' = start'
  <2>1. fs' = Cut(fs, Journal) /\ leftovers = {}
    BY <1>2, <1>3
  <2>2. Retraced(start, fs, inverses)
    BY <1>1, <2>1 DEF StepsInv, Returning
  <2>3. PICK T : Retraces(start, fs, inverses, T)
    BY <2>2 DEF Retraced
  <2>4. Len(inverses) = 0
    BY <1>1
  <2>5. TreeFits(fs) /\ Cut(fs, Journal) = start
    BY <2>3, <2>4 DEF Retraces
  <2>6. Journal \notin DOMAIN Cut(fs, Journal)
    BY RootCut
  <2> QED
    BY <1>1, <2>1, <2>5, <2>6
<1> QED
  BY <1>1, <1>3 DEF StepsInv

-----------------------------------------------------------------------------
(* The guards                                                              *)

\* Every guard of a list is on record and holds; one of them is and does not.
AllHold(record, guards)   == \A k \in DOMAIN guards : guards[k] \in DOMAIN record /\ record[guards[k]]
SomeFails(record, guards) == \E k \in DOMAIN guards : guards[k] \in DOMAIN record /\ ~record[guards[k]]

\* The answers on record say which steps were executed.
GuardsInv ==
    /\ taken \in Seq(BOOLEAN) /\ Len(taken) = pc - 1
    /\ \A i \in 1 .. Len(taken) : IF taken[i] THEN AllHold(answered, program[i].guards)
                               ELSE SomeFails(answered, program[i].guards)

LEMMA GuardsAsked ==
    ASSUME StepsInv, GuardsInv, NextStep
    PROVE  GuardsInv'
<1> DEFINE guards == program[pc].guards
           match == GuardsMatch(guards)
           asked == AskedGuards(guards)
<1>1. /\ phase = "execute" /\ pc <= Len(program) /\ pc' = pc + 1 /\ program' = program
      /\ answered' = [g \in DOMAIN answered \cup asked |-> Answer(g)] /\ taken' = Append(taken, match)
  BY DEF NextStep
<1>2. program \in Programs /\ pc \in Nat \ {0}
  BY DEF StepsInv
<1>3. pc \in 1 .. Len(program)
  BY <1>1, <1>2
<1>4. IsSequence(guards)
  BY <1>2, <1>3, StepsAssumption
<1>5. Len(guards) \in Nat /\ DOMAIN guards = 1 .. Len(guards)
  BY <1>4 DEF IsSequence
<1> HIDE DEF guards
<1>6. \A g \in DOMAIN answered : g \in DOMAIN answered' /\ answered'[g] = answered[g]
  BY <1>1 DEF Answer
<1>7. match \in BOOLEAN
  BY DEF GuardsMatch
<1>8. ASSUME match PROVE AllHold(answered', guards)
  <2>1. \A k \in DOMAIN guards : Answer(guards[k])
    BY <1>8 DEF GuardsMatch
  <2>2. ASSUME NEW k \in DOMAIN guards PROVE guards[k] \in asked
    <3>1. \A j \in 1 .. k - 1 : j \in DOMAIN guards
      BY <1>5
    <3> QED
      BY <2>1, <3>1 DEF AskedGuards
  <2> QED
    BY <1>1, <2>1, <2>2 DEF AllHold, guards
<1>9. ASSUME ~match PROVE SomeFails(answered', guards)
  <2> DEFINE Bad == {k \in DOMAIN guards : ~Answer(guards[k])}
  <2>1. Bad \in SUBSET Nat /\ Bad # {}
    BY <1>5, <1>9 DEF GuardsMatch
  <2>2. PICK k \in Bad : \A j \in Bad : k <= j
    BY <2>1, FirstPlace
  <2>3. k \in DOMAIN guards /\ ~Answer(guards[k]) /\ k \in 1 .. Len(guards)
    BY <1>5, <2>2
  <2>4. ASSUME NEW j \in 1 .. k - 1 PROVE Answer(guards[j])
    <3>1. j \in DOMAIN guards /\ ~(k <= j)
      BY <1>5, <2>3
    <3> QED
      BY <2>2, <3>1
  <2>5. guards[k] \in asked
    BY <2>3, <2>4 DEF AskedGuards
  <2> QED
    BY <1>1, <2>3, <2>5 DEF SomeFails, guards
<1>10. /\ taken' \in Seq(BOOLEAN) /\ Len(taken') = Len(taken) + 1 /\ Len(taken) \in Nat
       /\ taken'[Len(taken) + 1] = match /\ \A i \in 1 .. Len(taken) : taken'[i] = taken[i]
  BY <1>1, <1>7 DEF GuardsInv
<1>11. ASSUME NEW i \in 1 .. Len(taken')
       PROVE  IF taken'[i] THEN AllHold(answered', program[i].guards) ELSE SomeFails(answered', program[i].guards)
  <2>1. CASE i = Len(taken) + 1
    <3>1. i = pc
      BY <1>2, <2>1 DEF GuardsInv
    <3>2. taken'[i] = match
      BY <1>10, <2>1
    <3> QED
      BY <1>7, <1>8, <1>9, <3>1, <3>2 DEF guards
  <2>2. CASE i \in 1 .. Len(taken)
    <3>1. IF taken[i] THEN AllHold(answered, program[i].guards) ELSE SomeFails(answered, program[i].guards)
      BY <2>2 DEF GuardsInv
    <3> QED
      BY <1>1, <1>6, <1>10, <2>2, <3>1 DEF AllHold, SomeFails
  <2> QED
    BY <1>10, <2>1, <2>2
<1>12. Len(taken') = pc' - 1
  BY <1>1, <1>2, <1>10 DEF GuardsInv
<1> QED
  BY <1>1, <1>10, <1>11, <1>12 DEF GuardsInv

\* Everything else leaves the answers alone.
LEMMA WorkAsksNothing ==
    ASSUME NEW items, NEW possible, NEW f, NEW noted,
           StandsFor(items) \/ Fails \/ Calls(possible, f, noted)
    PROVE  UNCHANGED << program, pc, answered, taken >>
BY DEF StandsFor, Fails, Calls, unchangedByWork

LEMMA StepsAskNothing ==
    ASSUME \/ Touch \/ Move \/ MoveChildren \/ MoveEach \/ MoveChild
           \/ Copy \/ CopyEntry \/ CopyChildren \/ RemovePaths \/ RemovePath \/ Inreplace
           \/ LinkTree \/ LinkEach \/ LinkEntry \/ LinkChildren \/ LinkList \/ Symlink
           \/ WriteFile \/ SetPermissions \/ SetModeRecursive
    PROVE  UNCHANGED << program, pc, answered, taken >>
<1>1. CASE Touch \/ Move \/ MoveChildren \/ MoveEach \/ MoveChild
  BY <1>1, WorkAsksNothing DEF Touch, Move, MoveChildren, MoveEach, MoveChild
<1>2. CASE Copy \/ CopyEntry \/ CopyChildren \/ RemovePaths \/ RemovePath \/ Inreplace
  BY <1>2, WorkAsksNothing DEF Copy, CopyEntry, CopyChildren, RemovePaths, RemovePath, Inreplace
<1>3. CASE LinkTree \/ LinkEach \/ LinkEntry \/ LinkChildren \/ LinkList \/ Symlink
  BY <1>3, WorkAsksNothing DEF LinkTree, LinkEach, LinkEntry, LinkChildren, LinkList, Symlink
<1>4. CASE WriteFile \/ SetPermissions \/ SetModeRecursive
  BY <1>4, WorkAsksNothing DEF WriteFile, SetPermissions, SetModeRecursive
<1> QED
  BY <1>1, <1>2, <1>3, <1>4

LEMMA HelpersAskNothing ==
    ASSUME \/ CreateParents \/ CreateLink \/ ReplaceBeforeMutation \/ Backup
           \/ CreateRoot \/ Mkdir \/ Put \/ Rename \/ SetMode \/ Note
           \/ RunStep \/ DeferMaintenance \/ RunMaintenance \/ Commit \/ UndoLast \/ RollbackDone
    PROVE  UNCHANGED << program, pc, answered, taken >>
<1>1. CASE CreateParents \/ CreateLink \/ ReplaceBeforeMutation \/ RunStep
  BY <1>1, WorkAsksNothing DEF CreateParents, CreateLink, ReplaceBeforeMutation, RunStep
<1>2. CASE CreateRoot \/ Mkdir \/ Put \/ Rename \/ SetMode
  BY <1>2, WorkAsksNothing DEF CreateRoot, Mkdir, Put, Rename, SetMode
<1>3. CASE Backup
  BY <1>3, WorkAsksNothing DEF Backup, unchangedByWork
<1>4. CASE Note \/ DeferMaintenance \/ RunMaintenance
  BY <1>4 DEF Note, DeferMaintenance, RunMaintenance, unchangedByWork
<1>5. CASE Commit \/ UndoLast \/ RollbackDone
  BY <1>5 DEF Commit, UndoLast, RollbackDone, DropRoot
<1> QED
  BY <1>1, <1>2, <1>3, <1>4, <1>5

-----------------------------------------------------------------------------
(* The theorem                                                             *)

LEMMA StepsInit == Init => StepsInv /\ GuardsInv
<1> SUFFICES ASSUME Init PROVE StepsInv /\ GuardsInv
  OBVIOUS
<1>1. /\ program \in Programs /\ start \in Trees /\ fs = start /\ pc = 1 /\ todo = << >> /\ taken = << >>
      /\ inverses = << >> /\ backups = 0 /\ phase = "execute" /\ leftovers = {}
  BY DEF Init
<1>2. \A p : Place(p) => Outside(p)
  <2> SUFFICES ASSUME NEW p, Place(p) PROVE Outside(p)
    OBVIOUS
  <2>1. p \in Seq(STRING) /\ p # << >> /\ p[1] # "journal"
    BY DEF Place, Journal
  <2>2. Len(p) \in Nat /\ p \in [1 .. Len(p) -> STRING]
    BY <2>1
  <2>3. p \in [1 .. Len(p) -> Name]
    BY <2>2 DEF Name
  <2>4. p \in Seq(Name)
    BY <2>2, <2>3
  <2> QED
    BY <2>1, <2>4 DEF Outside, Path
<1>3. /\ start = [p \in DOMAIN start |-> start[p]] /\ IsFiniteSet(DOMAIN start) /\ IsDir(start, << >>)
      /\ \A p \in DOMAIN start : p # << >> => Place(p) /\ IsDir(start, Parent(p))
      /\ \A p \in DOMAIN start : IsEntry(start[p])
  BY <1>1, StepsAssumption
<1>4. \A p \in DOMAIN start : Inner(p)
  BY <1>2, <1>3 DEF Inner
<1>5. DOMAIN start \subseteq Path
  <2>1. << >> \in Path
    BY DEF Path
  <2> QED
    BY <1>4, <2>1 DEF Inner, Outside
<1>6. TreeFits(start) /\ InPlaces(start, 0)
  BY <1>3, <1>4, <1>5 DEF TreeFits, InPlaces
<1>7. Journal \notin DOMAIN start /\ Cut(start, Journal) = start
  <2>1. Journal # << >> /\ Journal[1] = "journal"
    BY DEF Journal
  <2>2. ~Inner(Journal)
    BY <2>1 DEF Inner, Outside
  <2>3. Journal \notin DOMAIN start
    BY <1>4, <2>2
  <2> QED
    BY <1>6, <2>3, CutFacts, WithRootPath
<1>8. PICK e : e = << >>
  OBVIOUS
<1>9. IsList(e) /\ Len(e) = 0
  BY <1>8, ListFew
<1>10. Restorable(start, start, e)
  <2> DEFINE T == [i \in 0 .. 0 |-> start]
  <2>1. T[0] = start
    OBVIOUS
  <2> HIDE DEF T
  <2>2. Retraces(start, start, e, T)
    BY <1>6, <1>7, <1>9, <2>1 DEF Retraces
  <2>3. Traces(start, start, e, T)
    BY <1>9, <2>1, <2>2 DEF Traces
  <2> QED
    BY <2>3 DEF Restorable
<1>11. WorkFits(start, e, 0, e)
  BY <1>9 DEF WorkFits
<1>12. Busy
  <2>1. 0 \in Nat /\ \A i \in 1 .. Len(e) : InverseFits(start, e[i])
    BY <1>9
  <2> QED
    BY <1>1, <1>6, <1>8, <1>11, <2>1 DEF Busy
<1>13. Journaled
  BY <1>1, <1>8, <1>9, <1>10 DEF Journaled
<1>14. StepsInv
  BY <1>1, <1>12, <1>13 DEF StepsInv
<1>15. GuardsInv
  BY <1>1 DEF GuardsInv
<1> QED
  BY <1>14, <1>15

LEMMA StepsNext == StepsInv /\ GuardsInv /\ [Next]_vars => StepsInv' /\ GuardsInv'
<1> SUFFICES ASSUME StepsInv, GuardsInv, [Next]_vars PROVE StepsInv' /\ GuardsInv'
  OBVIOUS
<1>1. CASE NextStep
  BY <1>1, NextStepKeeps, GuardsAsked
<1>2. ASSUME UNCHANGED << program, pc, answered, taken >> PROVE GuardsInv'
  BY <1>2 DEF GuardsInv, AllHold, SomeFails
<1>3. CASE \/ Touch \/ Move \/ MoveChildren \/ MoveEach \/ MoveChild
           \/ Copy \/ CopyEntry \/ CopyChildren \/ RemovePaths \/ RemovePath \/ Inreplace
           \/ LinkTree \/ LinkEach \/ LinkEntry \/ LinkChildren \/ LinkList \/ Symlink
           \/ WriteFile \/ SetPermissions \/ SetModeRecursive
  <2>1. StepsInv'
    BY <1>3, TouchKeeps, MoveKeeps, MoveChildrenKeeps, MoveEachKeeps, MoveChildKeeps,
       CopyKeeps, CopyEntryKeeps, CopyChildrenKeeps, RemovePathsKeeps, RemovePathKeeps, InreplaceKeeps,
       LinkTreeKeeps, LinkEachKeeps, LinkEntryKeeps, LinkChildrenKeeps, LinkListKeeps, SymlinkKeeps,
       WriteFileKeeps, SetPermissionsKeeps, SetModeRecursiveKeeps
  <2> QED
    BY <1>2, <1>3, <2>1, StepsAskNothing
<1>4. CASE \/ CreateParents \/ CreateLink \/ ReplaceBeforeMutation \/ Backup
           \/ CreateRoot \/ Mkdir \/ Put \/ Rename \/ SetMode \/ Note
           \/ RunStep \/ DeferMaintenance \/ RunMaintenance \/ Commit \/ UndoLast \/ RollbackDone
  <2>1. StepsInv'
    BY <1>4, CreateParentsKeeps, CreateLinkKeeps, ReplaceBeforeMutationKeeps, BackupKeeps,
       CreateRootKeeps, MkdirKeeps, PutKeeps, RenameKeeps, SetModeKeeps, NoteKeeps,
       RunStepKeeps, DeferMaintenanceKeeps, RunMaintenanceKeeps, CommitKeeps, UndoLastKeeps, RollbackDoneKeeps
  <2> QED
    BY <1>2, <1>4, <2>1, HelpersAskNothing
<1>5. CASE UNCHANGED vars
  BY <1>5 DEF vars, StepsInv, GuardsInv, Journaled, Busy, Returning, AllHold, SomeFails
<1> QED
  BY <1>1, <1>3, <1>4, <1>5 DEF Next, Execute

LEMMA StepsPromise == StepsInv /\ GuardsInv => StepsUndone
<1> SUFFICES ASSUME StepsInv, GuardsInv PROVE StepsUndone
  OBVIOUS
<1>1. UndoRestores
  <2>1. ASSUME phase = "execute" PROVE Cut(Undone(fs, inverses), Journal) = start
    BY <2>1, TraceUndone DEF StepsInv, Journaled, Busy
  <2> QED
    BY <2>1 DEF UndoRestores
<1>2. SilenceMeansRestored
  BY DEF StepsInv, SilenceMeansRestored
<1>3. SameGuardsSameFate
  <2> SUFFICES ASSUME NEW i \in DOMAIN taken, NEW j \in DOMAIN taken, program[i].guards = program[j].guards
               PROVE  taken[i] = taken[j]
    BY DEF SameGuardsSameFate
  <2>1. i \in 1 .. Len(taken) /\ j \in 1 .. Len(taken) /\ taken[i] \in BOOLEAN /\ taken[j] \in BOOLEAN
    BY DEF GuardsInv
  <2>2. ~(AllHold(answered, program[i].guards) /\ SomeFails(answered, program[i].guards))
    BY DEF AllHold, SomeFails
  <2>3. /\ IF taken[i] THEN AllHold(answered, program[i].guards) ELSE SomeFails(answered, program[i].guards)
        /\ IF taken[j] THEN AllHold(answered, program[j].guards) ELSE SomeFails(answered, program[j].guards)
    BY <2>1 DEF GuardsInv
  <2>4. CASE taken[i]
    BY <2>1, <2>2, <2>3, <2>4
  <2>5. CASE ~taken[i]
    BY <2>1, <2>2, <2>3, <2>5
  <2> QED
    BY <2>4, <2>5
<1> QED
  BY <1>1, <1>2, <1>3 DEF StepsUndone

(* The steps of a formula are taken back in full or reported: while they    *)
(* run the inverses noted so far restore the tree they found; a rollback   *)
(* that reports nothing has restored it, and no journal stays behind; and  *)
(* steps with the same guards are all executed or all skipped              *)
(* (install_steps.rs: the executors of execute, StepJournal::rollback,     *)
(* guards_match).                                                          *)
THEOREM StepsAreUndone == Spec => []StepsUndone
<1>1. Spec => [](StepsInv /\ GuardsInv)
  <2>1. StepsInv /\ GuardsInv /\ [Next]_vars => (StepsInv /\ GuardsInv)'
    BY StepsNext
  <2> QED
    BY StepsInit, <2>1, PTL DEF Spec
<1> QED
  BY <1>1, StepsPromise, PTL
=============================================================================
