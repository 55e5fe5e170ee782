----------------------------- MODULE MCRegistry -----------------------------
(***************************************************************************)
(* Model values for checking Registry: runtimes, contexts and addresses    *)
(* are interchangeable.                                                    *)
(***************************************************************************)
EXTENDS Registry, TLC

Symmetry ==
  Permutations(Runtime) \cup Permutations(Context) \cup Permutations(Address)
=============================================================================
