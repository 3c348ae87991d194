------------------------------ MODULE Versions ------------------------------
(***************************************************************************)
(* The order of versions in zapbrew-types/src/version.rs, which decides    *)
(* what outdated, upgrade and cleanup take for newer: the canonical tokens *)
(* of a version, their comparison and their hash.                          *)
(*                                                                         *)
(* A version is what the scanner makes of its text.  A token is a class    *)
(* and a value: a run of digits is its number, and a word its place in the *)
(* order of bytes, in which UpperB is the place of "B".                    *)
(***************************************************************************)
EXTENDS Naturals, Sequences, FiniteSets

CONSTANT UpperB

ASSUME VersionsAssumption == UpperB \in Nat

\* canon_rank, END_RANK: End is the class of what comes after the last token.
Rank == [Alpha |-> 0, Beta |-> 1, Pre |-> 2, Rc |-> 3, End |-> 4,
         Post |-> 5, String |-> 6, Patch |-> 7, Numeric |-> 8]
Classes == {"Alpha", "Beta", "Pre", "Rc", "Post", "String", "Patch", "Numeric"}

Tokens == Classes \X Nat
Zero == <<"Numeric", 0>>
End == <<"End", 0>>

\* A version: the empty text, HEAD or HEAD-..., or a text with its tokens.
Version == [kind : {"null", "head", "text"}, tokens : Seq(Tokens)]
PkgVersion == [version : Version, revision : Nat]

-----------------------------------------------------------------------------
(* The canonical tokens                                                    *)

\* normalize_tokens: a "B" after a number is a beta.
Normalized(ts) ==
    [i \in DOMAIN ts |->
        IF ts[i] = <<"String", UpperB>> /\ i > 1 /\ ts[i - 1][1] = "Numeric"
        THEN <<"Beta", 0>> ELSE ts[i]]

\* A zero is kept when the first token after it that is not a zero is a number.
Retained(ts, i) ==
    \/ ts[i] # Zero
    \/ \E j \in i + 1 .. Len(ts) :
          /\ \A k \in i + 1 .. j - 1 : ts[k] = Zero
          /\ ts[j] # Zero
          /\ ts[j][1] = "Numeric"

Places(ts, i) == {j \in 1 .. Len(ts) :
                    /\ Retained(ts, j)
                    /\ Cardinality({k \in 1 .. j : Retained(ts, k)}) = i}

\* canonical_tokens: the i-th token that is retained, End when there are fewer.
Canonical(tokens, i) ==
    LET ts == Normalized(tokens)
    IN  IF Places(ts, i) = {} THEN End ELSE ts[CHOOSE j \in Places(ts, i) : TRUE]

-----------------------------------------------------------------------------
(* Comparison                                                              *)

\* cmp_canon_token
TokenLess(a, b) == \/ Rank[a[1]] < Rank[b[1]]
                   \/ Rank[a[1]] = Rank[b[1]] /\ a[2] < b[2]

\* Mutant: the tokens that both versions have decide.
UptoShorter(v, w) ==
    {i \in 1 .. Len(v.tokens) : Canonical(v.tokens, i) # End /\ Canonical(w.tokens, i) # End}

Upto(v, w) == 1 .. Len(v.tokens) + Len(w.tokens)

\* cmp_canonical: the first place where the tokens differ decides.
Differ(v, w) == {i \in Upto(v, w) : Canonical(v.tokens, i) # Canonical(w.tokens, i)}
CanonicalLess(v, w) ==
    \E i \in Differ(v, w) :
        /\ \A j \in Differ(v, w) : i <= j
        /\ TokenLess(Canonical(v.tokens, i), Canonical(w.tokens, i))

\* Ord::cmp of Version
VersionLess(v, w) ==
    \/ v.kind = "null" /\ w.kind # "null"
    \/ v.kind = "text" /\ w.kind = "head"
    \/ v.kind = "text" /\ w.kind = "text" /\ CanonicalLess(v, w)
VersionSame(v, w) ==
    v.kind = w.kind /\ (v.kind = "text" => Differ(v, w) = {})

\* Ord::cmp of PkgVersion, derived from the order of its fields
PkgLess(p, q) == \/ VersionLess(p.version, q.version)
                 \/ VersionSame(p.version, q.version) /\ p.revision < q.revision
PkgSame(p, q) == VersionSame(p.version, q.version) /\ p.revision = q.revision

\* Hash for Version: what goes into the hasher.
HashOf(v) ==
    IF v.kind = "text"
    THEN LET n == Cardinality({k \in 1 .. Len(v.tokens) : Retained(Normalized(v.tokens), k)})
         IN  <<v.kind, [i \in 1 .. n |-> Canonical(v.tokens, i)]>>
    ELSE <<v.kind>>

-----------------------------------------------------------------------------
(* What the comparison must be for a sort, for the newest keg or bottle to *)
(* exist, and for versions to be keys.                                     *)

\* Of two package versions exactly one of less, same and greater holds.
Trichotomy(p, q) ==
    /\ PkgLess(p, q) \/ PkgSame(p, q) \/ PkgLess(q, p)
    /\ ~(PkgLess(p, q) /\ PkgLess(q, p))
    /\ PkgSame(p, q) => ~PkgLess(p, q) /\ ~PkgLess(q, p) /\ PkgSame(q, p)

\* The order is transitive, also through versions that are the same.
Transitive(p, q, r) ==
    /\ PkgLess(p, q) /\ PkgLess(q, r) => PkgLess(p, r)
    /\ PkgLess(p, q) /\ PkgSame(q, r) => PkgLess(p, r)
    /\ PkgSame(p, q) /\ PkgLess(q, r) => PkgLess(p, r)
    /\ PkgSame(p, q) /\ PkgSame(q, r) => PkgSame(p, r)

\* Versions that are the same hash the same, and the others do not.
HashAgrees(v, w) == VersionSame(v, w) <=> HashOf(v) = HashOf(w)

\* What a version and its successors are to each other: a pre-release comes before
\* its release, a patch and a further number after it, and a trailing zero changes nothing.
Extended(v, t) == [v EXCEPT !.tokens = Append(@, t)]
ReleaseOrder(v, n) ==
    v.kind = "text" =>
        /\ \A class \in {"Alpha", "Beta", "Pre", "Rc"} : VersionLess(Extended(v, <<class, n>>), v)
        /\ \A class \in {"Post", "Patch"} : VersionLess(v, Extended(v, <<class, n>>))
        /\ n > 0 => VersionLess(v, Extended(v, <<"Numeric", n>>))
        /\ VersionSame(v, Extended(v, Zero))
=============================================================================
