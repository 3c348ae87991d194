----------------------------- MODULE MCLockFiles -----------------------------
(* Instances of LockFiles: two formulae, a cask and a tap, two or three
   processes. *)
EXTENDS LockFiles

CONSTANTS p1, p2, p3, fa, fb, ck, tp, i1, i2, i3, i4, i5, i6

MCProcs == {p1, p2, p3}
TwoProcs == {p1, p2}
MCFormulaFiles == {fa, fb}
MCCaskFiles == {ck}
MCTapFiles == {tp}
MCListing == <<fa, fb, ck, tp>>
MCInodes == {i1, i2, i3, i4, i5, i6}

Cmd(op, files) == [op |-> op, files |-> files]

\* Commands of every kind, with both orders of locking: a reader and a writer of
\* the tap, commands that meet in two formulae, cleanup with racks and without.
All == {Cmd("install", {tp, fa}), Cmd("install", {tp, fa, fb}), Cmd("untap", {tp}),
        Cmd("uninstall", {fa, fb}), Cmd("upgrade", {tp, fb, ck}),
        Cmd("reinstall", {tp, fb, ck}), Cmd("cleanup", {}), Cmd("cleanup", {fa})}
=============================================================================
