----------------------------- MODULE MCSiteData -----------------------------
(***************************************************************************)
(* Small instances of the gallery's loads for TLC.                         *)
(***************************************************************************)
EXTENDS SiteDataProperties, TLC

\* Refreshes that may run at once are alike.
LoadSymmetry == Permutations(Loads)

\* After the last load ended only the chain would move on, and no property
\* looks at the blocks after it.
LoadsLeft == started < MaxLoads \/ \E l \in Loads : loads[l] # Idle
=============================================================================
