---------------------------- MODULE Dependencies ----------------------------
(***************************************************************************)
(* Dependency expansion and the queries on it: `install`, `fetch` and      *)
(* `deps` expand their roots in post-order with an explicit path of the    *)
(* formulae being visited, `deps --tree` draws the same edges without      *)
(* sharing, `uses` asks the inverse question of every formula.             *)
(* (zapbrew-ops/src/dependency.rs, deps.rs, uses.rs)                       *)
(*                                                                         *)
(* A catalog maps each formula to its edges: ordinary dependencies first,  *)
(* then the uses_from_macos ones, which count on Linux and on releases of  *)
(* macOS older than their bound.                                           *)
(***************************************************************************)
EXTENDS Naturals, Sequences, FiniteSets, SequencesExt

CONSTANTS Formulae,      \* the names that can be in a catalog
          Queries        \* the expansions: [catalog, target, roots, filter, pour]

Tags  == {"build", "test", "optional", "recommended"}
Edges == [to : Formulae, tags : SUBSET Tags, macos : BOOLEAN, since : Nat]

ASSUME DepAssumption ==
    \A q \in Queries : /\ q.roots \in Seq(Formulae)
                       /\ \A f \in DOMAIN q.catalog : q.catalog[f] \in Seq(Edges)

VARIABLES query,         \* the arguments of expand
          waiting,       \* roots not visited yet, in order
          path,          \* Traversal::active, each with the edges left to follow
          complete,      \* Traversal::complete
          order,         \* Traversal::order: the finished dependencies
          merged,        \* Traversal::merged: the tags of each dependency met
          expansion      \* how expand ended

depVars == <<query, waiting, path, complete, order, merged, expansion>>

OnLinux == 0               \* a target; the releases of macOS are 1, 2, ...
NoSince == 0             \* uses_from_macos without a bound: every macOS has it
Strange == 99            \* a bound no release of macOS is called

(***************************************************************************)
(* Edges                                                                   *)
(***************************************************************************)
\* EdgeFilter::includes.
Includes(filter, tags, rootEdge) ==
    /\ ~(filter.skipRecommended /\ "recommended" \in tags)
    /\ \/ tags \cap {"recommended", "build", "test", "optional"} = {}
       \/ "recommended" \in tags
       \/ "build" \in tags /\ filter.build
       \/ "test" \in tags /\ filter.test /\ (filter.rootOnlyTest => rootEdge)
       \/ "optional" \in tags /\ filter.optional

\* include_uses_from_macos: macOS has it from release `since` on.
Provided(edge, target) == edge.macos /\ target # OnLinux /\ (edge.since = NoSince \/ target >= edge.since)

\* edges, as far as it fails: a bound that names no release.
BadBound(q, f) == \E i \in DOMAIN q.catalog[f] :
    LET e == q.catalog[f][i] IN e.macos /\ q.target # OnLinux /\ e.since = Strange

\* The edges a query follows, of a root or of another formula.
Follows(q, e, rootEdge) == ~Provided(e, q.target) /\ Includes(q.filter, e.tags, rootEdge)

Roots(q) == {q.roots[i] : i \in DOMAIN q.roots}
OnPath == {path[i].name : i \in DOMAIN path}

(***************************************************************************)
(* Tags                                                                    *)
(***************************************************************************)
\* necessity, by rank: optional < recommended < required.
Necessity(tags) == IF "recommended" \in tags THEN 1 ELSE IF "optional" \in tags THEN 0 ELSE 2
FromTags(tags) == [necessity |-> Necessity(tags), build |-> "build" \in tags, test |-> "test" \in tags]

\* MergedTags::merge: only a dependency every occurrence of which is a build
\* dependency stays one.
MergeTags(a, b) == [necessity |-> IF a.necessity >= b.necessity THEN a.necessity ELSE b.necessity,
                    build |-> a.build /\ b.build, test |-> a.test \/ b.test]

\* `merged` after one more occurrence of `name`.
Noted(name, tags) ==
    [n \in DOMAIN merged \cup {name} |->
        IF n # name THEN merged[n]
        ELSE IF n \in DOMAIN merged THEN MergeTags(merged[n], FromTags(tags)) ELSE FromTags(tags)]

\* The filter of DependencyMode::Pour on the finished order.
KeptByPour(q, tags) == /\ tags.build => q.filter.build
                   /\ tags.test => q.filter.test
Expanded == IF query.pour THEN SelectSeq(order, LAMBDA n : KeptByPour(query, merged[n])) ELSE order

(***************************************************************************)
(* expand: the traversal                                                   *)
(***************************************************************************)
DepInit == /\ query \in Queries
           /\ waiting = query.roots /\ path = <<>> /\ complete = {} /\ order = <<>>
           /\ merged = [n \in {} |-> FromTags({})]
           /\ expansion = IF Roots(query) \subseteq DOMAIN query.catalog THEN "running" ELSE "missing"

\* What visit does with a formula that is neither on the path nor complete.
Enter(f, under) ==
    IF BadBound(query, f) THEN expansion' = "strange" /\ path' = path
    ELSE /\ expansion' = expansion
         /\ path' = Append(under, [name |-> f, left |-> query.catalog[f]])

VisitRoot ==
    /\ expansion = "running" /\ path = <<>> /\ waiting # <<>>
    /\ waiting' = Tail(waiting)
    /\ IF Head(waiting) \in complete THEN UNCHANGED <<path, expansion>> ELSE Enter(Head(waiting), path)
    /\ UNCHANGED <<query, complete, order, merged>>

Top == path[Len(path)]
Popped == [path EXCEPT ![Len(path)].left = Tail(@)]
Following == expansion = "running" /\ path # <<>> /\ Top.left # <<>>
NextEdge == Head(Top.left)

\* The next edge of the formula on top of the path is not one the query wants.
Skip ==
    /\ Following /\ ~Follows(query, NextEdge, Top.name \in Roots(query))
    /\ path' = Popped
    /\ UNCHANGED <<query, waiting, complete, order, merged, expansion>>

\* It is: its tags are merged and the formula it leads to is visited.
Follow ==
    /\ Following /\ Follows(query, NextEdge, Top.name \in Roots(query))
    /\ IF NextEdge.to \notin DOMAIN query.catalog
          THEN expansion' = "missing" /\ UNCHANGED <<path, merged>>
          ELSE /\ merged' = Noted(NextEdge.to, NextEdge.tags)
               /\ IF NextEdge.to \in OnPath THEN expansion' = "cycle" /\ path' = path
                  ELSE IF NextEdge.to \in complete THEN expansion' = expansion /\ path' = Popped
                  ELSE Enter(NextEdge.to, Popped)
    /\ UNCHANGED <<query, waiting, complete, order>>

\* Mutant: the order is built from the front.
LeaveFirst ==
    /\ expansion = "running" /\ path # <<>> /\ Top.left = <<>>
    /\ LET name == Top.name
       IN /\ path' = SubSeq(path, 1, Len(path) - 1)
          /\ complete' = complete \cup {name}
          /\ order' = IF name \in Roots(query) THEN order ELSE <<name>> \o order
    /\ UNCHANGED <<query, waiting, merged, expansion>>

\* Every edge of the top is followed: it is complete, and in the order unless
\* it is a root.
Leave ==
    /\ expansion = "running" /\ path # <<>> /\ Top.left = <<>>
    /\ LET name == Top.name
       IN /\ path' = SubSeq(path, 1, Len(path) - 1)
          /\ complete' = complete \cup {name}
          /\ order' = IF name \in Roots(query) THEN order ELSE Append(order, name)
    /\ UNCHANGED <<query, waiting, merged, expansion>>
FinishExpansion ==
    /\ expansion = "running" /\ path = <<>> /\ waiting = <<>>
    /\ expansion' = "done"
    /\ UNCHANGED <<query, waiting, path, complete, order, merged>>

DepNext == VisitRoot \/ Skip \/ Follow \/ Leave \/ FinishExpansion
DepSpec == DepInit /\ [][DepNext]_depVars

(***************************************************************************)
(* The queries                                                             *)
(***************************************************************************)
Targets(q, f, rootEdge) ==
    {e.to : e \in {q.catalog[f][i] : i \in {i \in DOMAIN q.catalog[f] : Follows(q, q.catalog[f][i], rootEdge)}}}

\* collect_reachable: what the edges reach from f, whose own edges alone are
\* root edges, in at most n steps.
ReachedIn(q, f) ==
    LET reached[n \in Nat] ==
            IF n = 0 THEN Targets(q, f, TRUE)
            ELSE reached[n - 1] \cup UNION {Targets(q, g, FALSE) : g \in reached[n - 1] \ {f}}
    IN reached[Cardinality(Formulae)]

\* formula_reaches_all: `uses --recursive`, or direct edges alone.
ReachesAll(q, f, sought, recursive) ==
    sought \subseteq (IF recursive THEN ReachedIn(q, f) ELSE Targets(q, f, TRUE))

\* One edge that leads nowhere, or has a strange bound, and `uses` of anything
\* fails: it walks the edges of every formula.
UsesFails(q) == \E f \in DOMAIN q.catalog :
    \/ BadBound(q, f)
    \/ Targets(q, f, TRUE) \ DOMAIN q.catalog # {}

\* uses: every other formula that reaches all that is sought.
Uses(q, sought, recursive) ==
    {f \in DOMAIN q.catalog \ sought : ReachesAll(q, f, sought, recursive)}

\* TreeRenderer::visit: its lines are the paths from the root that repeat no
\* formula, and one more line where a path would close a cycle.
TreePaths(q, root) ==
    LET paths[n \in Nat] ==
            IF n = 0 THEN {<<root>>}
            ELSE paths[n - 1] \cup
                 UNION {{Append(p, g) : g \in Targets(q, Last(p), Len(p) = 1)} :
                        p \in {p \in paths[n - 1] : IsInjective(p)}}
    IN paths[Cardinality(Formulae)]
TreeCycle(q, root) == \E p \in TreePaths(q, root) : ~IsInjective(p)

(***************************************************************************)
(* Properties                                                              *)
(***************************************************************************)
\* Every dependency comes after what it depends on itself, so `install` never
\* pours a formula before its dependencies, whatever the shape of the graph,
\* however many roots there are and wherever a cycle stops the expansion.
DependenciesPrecede ==
    \A i \in DOMAIN order : \A g \in Targets(query, order[i], FALSE) \ Roots(query) :
        \E j \in 1..(i - 1) : order[j] = g

\* An edge marked test that is followed for another mark, although tests are not
\* asked for: its mark makes g a test dependency for good.
TestedAlso(g) ==
    \E f \in complete : \E i \in DOMAIN query.catalog[f] :
        LET e == query.catalog[f][i]
        IN e.to = g /\ "test" \in e.tags /\ ~query.filter.test /\ Follows(query, e, FALSE)

\* Dropping the build and test dependencies from the finished order keeps every
\* dependency that a root or a dependency that was kept needs to run, with one
\* exception: a formula that is also somewhere a recommended test dependency is
\* followed because it is recommended and dropped because it is for tests, by
\* whoever needs it.
PourKeepsNeeded ==
    expansion = "done" =>
        \A f \in Roots(query) \cup {Expanded[i] : i \in DOMAIN Expanded} :
            \A i \in DOMAIN query.catalog[f] :
                LET e == query.catalog[f][i]
                IN (Follows(query, e, FALSE) /\ e.tags \cap {"build", "test"} = {}) =>
                       \/ e.to \in Roots(query) \cup {Expanded[j] : j \in DOMAIN Expanded}
                       \/ TestedAlso(e.to)

\* The three questions have one answer: `deps` of one formula, the names in its
\* tree, and the formulae of whose `uses` it is one; and the expansion reports a
\* cycle exactly when the tree has one.
QueriesAgree ==
    (expansion \in {"done", "cycle"} /\ Len(query.roots) = 1 /\ ~UsesFails(query)) =>
        LET root == query.roots[1]
            deps == {order[i] : i \in DOMAIN order}
        IN /\ (expansion = "cycle") = TreeCycle(query, root)
           /\ expansion = "done" =>
                /\ deps = {g \in Formulae : \E p \in TreePaths(query, root) : g = Last(p)} \ {root}
                /\ deps = {g \in DOMAIN query.catalog : root \in Uses(query, {g}, TRUE)}
=============================================================================
