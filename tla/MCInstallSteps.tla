---------------------------- MODULE MCInstallSteps ----------------------------
(* Lists of two steps, one or more of every kind, a third that moves, removes
   or links, and a command, over three trees of the names a and b: an empty
   one, one with files and a link, one with a read-only directory. *)
EXTENDS InstallSteps

A == <<"a">>
B == <<"b">>
AA == <<"a", "a">>
AB == <<"a", "b">>
BA == <<"b", "a">>

Plain == {
    [do |-> "mkdir", at |-> AB],
    [do |-> "parents", at |-> BA],
    [do |-> "touch", at |-> BA],
    [do |-> "move", from |-> A, at |-> B, overwrite |-> TRUE],
    [do |-> "move", from |-> AB, at |-> B, overwrite |-> FALSE],
    [do |-> "move_children", from |-> A, at |-> B],
    [do |-> "move_children", from |-> A, at |-> AB],
    [do |-> "copy", from |-> A, at |-> B, overwrite |-> TRUE, recursive |-> TRUE],
    [do |-> "copy", from |-> AB, at |-> AB, overwrite |-> TRUE, recursive |-> FALSE],
    [do |-> "remove", at |-> A, glob |-> FALSE, recursive |-> TRUE, only |-> {}],
    [do |-> "remove", at |-> A, glob |-> TRUE, recursive |-> FALSE, only |-> {"old"}],
    [do |-> "inreplace", at |-> AB, before |-> "old", after |-> "new"],
    [do |-> "inreplace", at |-> AA, before |-> "old", after |-> "new"],
    [do |-> "link_dir", from |-> A, at |-> B],
    [do |-> "link_dir", from |-> A, at |-> A],
    [do |-> "link_children", from |-> A, at |-> B],
    [do |-> "symlink", from |-> A, at |-> B, force |-> TRUE, glob |-> TRUE],
    [do |-> "symlink", from |-> A, at |-> BA, force |-> FALSE, glob |-> FALSE],
    [do |-> "write", at |-> BA, content |-> "new", overwrite |-> TRUE],
    [do |-> "set_permissions", at |-> A, glob |-> FALSE, mode |-> "ro", recursive |-> TRUE],
    [do |-> "set_permissions", at |-> A, glob |-> FALSE, mode |-> "rw", recursive |-> FALSE] }

Commands == {[do |-> "run"], [do |-> "maintenance"]}

Unguarded == {[guards |-> << >>, step |-> s] : s \in Plain}

Displacing == {u \in Unguarded : u.step.do \in {"move", "remove", "symlink"}}

Guarded == {[guards |-> << [if |-> c, at |-> BA] >>, step |-> s] :
               c \in {"exists", "absent"},
               s \in {t \in Plain : t.do \in {"write", "set_permissions"}}}

MCPrograms ==
    LET last == {[guards |-> << >>, step |-> c] : c \in Commands}
    IN {<< p, q, x, r >> : p \in Unguarded, q \in Unguarded, x \in Displacing, r \in last}
       \cup {<< p, q >> : p \in Guarded, q \in Guarded}

EmptyTree == [p \in {<< >>} |-> Directory]
Full  == With(With(With(With(EmptyTree, A, Directory), AB, File("old")),
                   B, File("old")), AA, Link(B))
Deep  == With(With(With(With(With(EmptyTree, A, [Directory EXCEPT !.mode = "ro"]), AB, Directory),
                   <<"a", "b", "b">>, File("old")), B, Directory), BA, File("old"))

MCTrees == {EmptyTree, Full, Deep}
===============================================================================
