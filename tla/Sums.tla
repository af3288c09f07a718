-------------------------------- MODULE Sums --------------------------------
(***************************************************************************)
(* Finite sums, as the contracts compute them with `+=` loops over a list  *)
(* of tokens or outputs.  A sum is defined as the number of coins in a     *)
(* pile: token x contributes the coins <<x, 1>>, ..., <<x, f[x]>>.  This   *)
(* needs no recursion, so the lemmas of module SumLemmas follow from the   *)
(* facts about the cardinality of finite sets.                             *)
(***************************************************************************)
EXTENDS Integers, FiniteSets

\* One coin for each unit of f[x], for each x in S.
Coins(f, S) == UNION {{x} \X (1 .. f[x]) : x \in S}

\* The sum of f[x] over the finite set S, for f[x] \in Nat.
SumOver(f, S) == Cardinality(Coins(f, S))
=============================================================================
