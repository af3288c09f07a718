------------------------------ MODULE MCShapes ------------------------------
(***************************************************************************)
(* Small instances of Shapes for TLC.                                      *)
(***************************************************************************)
EXTENDS ShapesProperties, TLC

CONSTANTS alice, bob

Inputs == INSTANCE DistinctInputs

\* A ladder of three denominations in which two tokens can make a third.
MCUnits == (0 :> 1) @@ (1 :> 2) @@ (2 :> 3)

\* The shortest ladder with an apex: two units make it, and split it again.
MCShortUnits == (0 :> 1) @@ (1 :> 2)

\* Classes of art 0, 1, ...: a mint's follows from its id, which fixes its seed;
\* a compose changes that of its survivor where there are two; a split starts
\* from one of the pool, or its parent's, and its children differ by index.
MCArts == 0 .. 2
MCMintArt == [i \in Ids |-> i % Cardinality(Arts)]
MCComposeArt == [x \in Arts \X (SUBSET Arts) \X Denoms |->
                    (x[1] + 1) % Cardinality(Arts)]
MCSplitArt == [x \in Arts \X (SUBSET Arts) \X Denoms \X Ids |->
                  ((IF x[2] = {} THEN x[1] ELSE CHOOSE a \in x[2] : TRUE) + x[4])
                      % Cardinality(Arts)]

\* Bound: ids in the longest list of compose inputs tried.
MaxInputs == 6

\* The lengths of a list of inputs at which no repeat escapes.
CaughtLengths == {n \in 0 .. MaxInputs : Inputs!FindsRepeats(n)}

\* A compose that names an id twice is always caught, whatever the order of its
\* inputs and however many the supply allows, and the error names the smallest
\* repeated id (requireDistinctComposeInputs of RecompositionOps).
RepeatedInputsCaught == 0 .. totalSupply \subseteq CaughtLengths

=============================================================================
