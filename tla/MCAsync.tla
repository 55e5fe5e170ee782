------------------------------ MODULE MCAsync ------------------------------
(* The scripts TLC explores, by the part of the engine they exercise.       *)
EXTENDS Async, TLC

CONSTANTS a, t, x, c1, c2

Uses(left, values) == [left |-> left, values |-> values]

MCScripts == {
  Uses([withResolvers |-> 2, call |-> 2, callback |-> 1], {a}),
  Uses([withResolvers |-> 1, call |-> 2, callback |-> 2], {a}),
  Uses([withResolvers |-> 1, call |-> 3, callback |-> 1], {a, t, x}),
  Uses([construct |-> 1, call |-> 2, callback |-> 1], {a, t, x}),
  Uses([try |-> 1, resolve |-> 1, callback |-> 1], {a, t}),
  Uses([withResolvers |-> 2, call |-> 2, finally |-> 1], {a}),
  Uses([withResolvers |-> 2, call |-> 2, iterator |-> 1, all |-> 1, allSettled |-> 1, any |-> 1, race |-> 1], {a}),
  Uses([call |-> 1, element |-> 2, resolve |-> 1, all |-> 1, allSettled |-> 1, any |-> 1, race |-> 1], {a, x}),
  Uses([withResolvers |-> 1, call |-> 1, async |-> 2, await |-> 2], {a}),
  Uses([withResolvers |-> 1, call |-> 1, next |-> 2, return |-> 1, await |-> 1, yield |-> 1], {a}),
  Uses([next |-> 3, return |-> 1, throw |-> 1, await |-> 2, yield |-> 2], {a})}

\* The two calls of an async function are alike.
Symmetry == Permutations({c1, c2})

=============================================================================
