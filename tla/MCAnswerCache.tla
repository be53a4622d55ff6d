---------------------------- MODULE MCAnswerCache ----------------------------
(* Small instances of AnswerCache for TLC.                                 *)
EXTENDS AnswerCache, TLC

Interchangeable == Permutations(Requests) \union Permutations(Admins)
=============================================================================
