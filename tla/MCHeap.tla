------------------------------- MODULE MCHeap -------------------------------
(* The heaps TLC explores: a graph of plain objects, closures that share    *)
(* their variables, and each of the weak constructs with what it refers to. *)
EXTENDS Heap, TLC

CONSTANTS o1, o2, o3, f1, f2, v1, m1, w1, r1

MCUniverses == {{o1, o2, o3}, {o1, o2, f1, f2, v1}, {o1, o2, w1}, {o1, o2, m1}, {o1, o2, r1}}

\* Objects of one class are alike where a universe has all of them.
Symmetry == Permutations({o1, o2}) \cup Permutations({f1, f2})

=============================================================================
