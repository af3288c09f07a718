--------------------------- MODULE DistinctInputs ---------------------------
(***************************************************************************)
(* requireDistinctComposeInputs of src/src/lib/RecompositionOps.sol: a     *)
(* bottom-up merge sort of the inputs of a compose, after which a repeated *)
(* id is next to itself.                                                   *)
(***************************************************************************)
EXTENDS Integers, Sequences, SequencesExt

\* Two runs in order become one.
Merge(l, r) ==
    LET from[i \in 1 .. Len(l) + 1, j \in 1 .. Len(r) + 1] ==
            IF i > Len(l) THEN SubSeq(r, j, Len(r))
            ELSE IF j > Len(r) THEN SubSeq(l, i, Len(l))
            ELSE IF l[i] <= r[j] THEN <<l[i]>> \o from[i + 1, j]
            ELSE <<r[j]>> \o from[i, j + 1]
    IN  from[1, 1]

Clip(x, n) == IF x > n THEN n ELSE x

\* One pass: each pair of neighbouring runs of this width becomes one run.
MergePass(a, width) ==
    LET n == Len(a)
        Pair(lo) == Merge(SubSeq(a, lo + 1, Clip(lo + width, n)),
                          SubSeq(a, lo + width + 1, Clip(lo + 2 * width, n)))
    IN  FlattenSeq([k \in 1 .. (n + 2 * width - 1) \div (2 * width) |->
                       Pair(2 * width * (k - 1))])

\* Fault: the pass over a run that covers more than half of the list is left
\* out.
PassesFullOnly(n) == {k \in 0 .. n : 2 ^ (k + 1) <= n}

\* The doubling widths below n, as exponents.
Passes(n) == {k \in 0 .. n : 2 ^ k < n}

MergeSort(a) ==
    FoldLeft(MergePass, a,
             [k \in 1 .. Cardinality(Passes(Len(a))) |-> 2 ^ (k - 1)])

\* The id of the DuplicateComposeInput it reverts with, in a set; {} when it
\* returns.
DuplicateComposeInput(ids) ==
    LET a == MergeSort(ids)
        repeats == {k \in 2 .. Len(a) : a[k] = a[k - 1]}
    IN  {a[k] : k \in {x \in repeats : \A y \in repeats : x <= y}}

-----------------------------------------------------------------------------

RepeatedIn(ids) ==
    {ids[p[1]] : p \in {q \in (1 .. Len(ids)) \X (1 .. Len(ids)) :
                           q[1] < q[2] /\ ids[q[1]] = ids[q[2]]}}

\* On every list of n ids, which are told apart by their order alone: the check
\* reverts on exactly those with a repeat, and names the smallest one.
FindsRepeats(n) ==
    \A ids \in [1 .. n -> 1 .. n] :
        DuplicateComposeInput(ids) =
            {x \in RepeatedIn(ids) : \A y \in RepeatedIn(ids) : x <= y}
=============================================================================
