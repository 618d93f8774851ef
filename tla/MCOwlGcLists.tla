----------------------------- MODULE MCOwlGcLists -----------------------------
(* Instances of OwlGcLists for TLC. *)
EXTENDS OwlGcLists

NoLiterals == <<>>

FewCuts == {<<0, 10>>, <<0, 11>>}
=============================================================================
