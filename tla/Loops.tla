------------------------------- MODULE Loops -------------------------------
(***************************************************************************)
(* What a loop of the code makes of a list: the calls of its turns one     *)
(* after the other, or the elements it does not pass over.                 *)
(***************************************************************************)
EXTENDS Naturals, SequencesExt

\* The calls of a loop over s, in the order they are made.
Each(s, Calls(_)) == FlattenSeq([i \in 1 .. Len(s) |-> Calls(s[i])])

\* The loop that keeps what is in S: a filter.
Chosen(s, S) == LET Keep(x) == IF x \in S THEN <<x>> ELSE <<>> IN Each(s, Keep)
=============================================================================
