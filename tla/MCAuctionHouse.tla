--------------------------- MODULE MCAuctionHouse ---------------------------
(***************************************************************************)
(* Small instances of AuctionHouse for TLC.                                *)
(***************************************************************************)
EXTENDS AuctionHouseProperties, TLC

CONSTANTS sam, ann, bea, art, fake

\* A ladder of two denominations.
MCUnits == (0 :> 1) @@ (1 :> 2)

MCAgents == (sam :> {}) @@ (ann :> {}) @@ (bea :> {})
MCAgentsOfSam == (sam :> {ann}) @@ (ann :> {}) @@ (bea :> {})
MCLotOwner == [t \in Lots |-> sam]

\* Three Shapes dealt to the bidders and two ids not issued yet.
MCCards == 0 .. 4
MCDealt == [owner |-> [c \in 0 .. 4 |-> IF c > 2 THEN Nobody
                                        ELSE IF c = 1 THEN bea ELSE ann],
            backing |-> [c \in 0 .. 4 |-> IF c > 2 THEN 0 ELSE IF c = 1 THEN 2 ELSE 1],
            minted |-> 3]

\* A Shape for each bidder and one id not issued yet.
MCFewCards == 0 .. 2
MCFewDealt == [owner |-> [c \in 0 .. 2 |-> IF c = 0 THEN ann ELSE IF c = 1 THEN bea ELSE Nobody],
               backing |-> [c \in 0 .. 2 |-> IF c = 2 THEN 0 ELSE c + 1],
               minted |-> 2]

Short == [duration |-> 2, extensionWindow |-> 2, minIncrementBps |-> 1000,
          reserveUnits |-> 0, startTime |-> 0]
Late == [duration |-> 1, extensionWindow |-> 0, minIncrementBps |-> 5000,
         reserveUnits |-> 2, startTime |-> 1]
Loose == [duration |-> 1, extensionWindow |-> 2, minIncrementBps |-> 0,
          reserveUnits |-> 0, startTime |-> 0]
MCTerms == {Short, Late, Loose}
MCShortTerms == {Short}

=============================================================================
