----------------------- MODULE ShapesCallsProperties -----------------------
(***************************************************************************)
(* What the calls of Shapes promise to the code they call out to, and to   *)
(* whoever reasons about Shapes one transaction at a time.                 *)
(***************************************************************************)
EXTENDS ShapesCalls

\* Each call, callbacks included, amounts to the one step module Shapes takes
\* for it, at its start, with the tokens it has yet to mint counted as their
\* recipient's: what a callback does comes after the call, as a transaction of
\* its own.  This is what nonReentrant and the order of effects and
\* interactions in mintBatch, split and decompose are for.  (Most steps hand out
\* what a call owes, and change nothing here: TLC tries that first.)
CallsAreAtomic ==
    [][Atomic!vars' = Atomic!vars \/ Atomic!Next]_(Atomic!vars)

\* Whenever foreign code runs, in a callback or between two calls, the owner
\* token is a token that exists: decompose moves it after its last mint, split
\* before its first.
OwnerSeenInCallbacks ==
    call.hook \/ call = Idle
        => ownerToken = 0 \/ (ownerToken - 1 \in Ids /\ IsLive(ownerToken - 1))
=============================================================================
