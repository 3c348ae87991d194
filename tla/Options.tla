------------------------------- MODULE Options -------------------------------
(* Option<T> of the source, and a Result whose error nobody looks into.       *)
None == <<>>
Some(x) == <<x>>
=============================================================================
