----------------------------- MODULE MCFetches -----------------------------
(***************************************************************************)
(* Model values for checking Fetches: the requests are interchangeable.    *)
(***************************************************************************)
EXTENDS Fetches, TLC

Symmetry == Permutations(Fetch)
=============================================================================
