----------------------------- MODULE MCIndexer -----------------------------
(***************************************************************************)
(* Small instances of the calls of Shapes and the indexer for TLC.         *)
(***************************************************************************)
EXTENDS IndexerProperties, TLC

CONSTANTS wallet, vault, house

\* Three units make an apex, at once or one after the other.
MCUnits == (0 :> 1) @@ (1 :> 2) @@ (2 :> 3)

\* The genesis token and two more, which together are an apex Complete.
MCDealt == <<0, 0, 0>>

\* Classes of art 0 and 1: every compose changes its survivor's, and the
\* children of a split alternate.
MCMintArt == [i \in Ids |-> i % 2]
MCComposeArt == [x \in Arts \X (SUBSET Arts) \X Denoms |-> (x[1] + 1) % 2]
MCSplitArt == [x \in Arts \X (SUBSET Arts) \X Denoms \X Ids |->
                  (x[1] + x[4]) % 2]
=============================================================================
