----------------------- MODULE AuctionHouseProperties -----------------------
(***************************************************************************)
(* What the auction house must keep true, whatever its sellers, bidders,   *)
(* lots and the owners of Shapes outside it do.                            *)
(***************************************************************************)
EXTENDS AuctionHouse

\* Types, and the bound that _takeBid keeps across every top-up of an entry:
\* no release ever loops over more than MaxCardsPerBid cards.
TypeOK ==
    /\ auctionCount \in 0 .. MaxAuctions
    /\ auctions \in [AuctionIds -> Auction]
    /\ auctionIdByToken \in [Tokens -> 0 .. MaxAuctions]
    /\ escrow \in [AuctionIds -> [People -> SUBSET Cards]]
    /\ \A a \in AuctionIds, p \in People : Cardinality(escrow[a][p]) <= MaxCardsPerBid
    /\ units \in [AuctionIds -> [People -> Nat]]
    /\ houseEth \in Int
    /\ owner \in [Tokens -> Holders]
    /\ backing \in [Cards -> Nat]
    /\ minted \in Nat
    /\ now \in 0 .. MaxTime
    /\ depositor \in [Cards -> (AuctionIds \X People) \cup {NoDeposit}]
    /\ strays \subseteq Cards

Deposited(c) == depositor[c] # NoDeposit
Listed(t) == auctionIdByToken[t] # 0

\* A card is in the entry of whoever bid it, and in no other.
EntriesMatchDeposits ==
    \A a \in AuctionIds, p \in People, c \in Cards :
        c \in escrow[a][p] <=> depositor[c] = <<a, p>>

\* The index names the auctions whose lot has not left, each by its own lot.
IndexMatchesAuctions ==
    \A t \in Tokens, a \in AuctionIds :
        auctionIdByToken[t] = a + 1 <=>
            Exists(a) /\ auctions[a].lot = t /\ ~auctions[a].lotClaimed

\* The house owns what its records say it owes, and owes it once; what was
\* pushed at it stays there.
HouseOwnsWhatItOwes ==
    /\ \A c \in Cards : Deposited(c) => owner[c] = House /\ ~Listed(c) /\ c \notin strays
    /\ \A t \in Tokens \ UntruthfulLots :
           Listed(t) => owner[t] = House /\ t \notin strays
    /\ \A c \in strays : owner[c] = House

\* Nothing sits in the house without a record but what was pushed there.
NothingUnrecorded ==
    \A t \in Tokens \ UntruthfulLots :
        owner[t] = House => t \in strays \/ Listed(t) \/ (t \in Cards /\ Deposited(t))

\* Custody: every token and every wei that enters the house by a call of its
\* own is recorded for exactly one claimant, who can therefore be paid; no
\* record is left for what has gone, and no ETH stays behind.
Custody ==
    /\ EntriesMatchDeposits
    /\ IndexMatchesAuctions
    /\ HouseOwnsWhatItOwes
    /\ NothingUnrecorded
    /\ houseEth = 0

\* What a participant's bid counts for is what the cards in custody back,
\* although cards may be reshaped up to the moment they are pulled, and some
\* are minted inside the bid: _units never drifts from the cards.
UnitsBacked ==
    \A a \in AuctionIds, p \in People :
        units[a][p] = SumOver(backing, escrow[a][p])

\* The leader's entry is the standing bid until the seller takes it, and every
\* other entry is below it, so nobody who has bid more is passed over.
LeaderLeads ==
    \A a \in AuctionIds : LET au == auctions[a] IN
        HasBid(a) =>
            /\ \/ units[a][au.highestBidder] = au.highestUnits
               \/ au.settled /\ units[a][au.highestBidder] = 0
            /\ \A p \in People \ {au.highestBidder} : units[a][p] < au.highestUnits

\* Where a card in the house may go: back to whoever bid it, to the seller if
\* that bid won, or to the recipient of a lot.
MayGoTo(c, p) ==
    \/ \E a \in AuctionIds, b \in People :
           /\ depositor[c] = <<a, b>>
           /\ \/ p = b /\ b # auctions[a].highestBidder
              \/ /\ p = auctions[a].seller /\ b = auctions[a].highestBidder
                 /\ auctions[a].settled
    \/ \E a \in AuctionIds :
           /\ auctions[a].lot = c /\ auctions[a].settled
           /\ ~auctions[a].lotClaimed /\ auctions'[a].lotClaimed
           /\ p = IF HasBid(a) THEN auctions[a].highestBidder ELSE auctions[a].seller

\* Escrowed cards are claims on ETH: no step of anyone moves one anywhere but
\* home, and while it is in the house its backing does not change.
GoesHome(c) ==
    owner[c] = House => /\ owner'[c] = House \/ MayGoTo(c, owner'[c])
                        /\ backing'[c] = backing[c]
CardsGoHome == [][\A c \in Cards : GoesHome(c)]_vars

\* An auction cannot be won by arriving last: whoever is outbid has at least
\* the extension window to answer, a deadline is never brought forward, the
\* price rises by the increment, and a closed auction keeps its outcome.
Outbid(old, new) ==
    /\ new.endTime - now >= new.extensionWindow
    /\ new.highestUnits >= AtLeastOne(old.reserveUnits)
    /\ new.highestUnits > old.highestUnits
    /\ (new.highestUnits - old.highestUnits) * 10000 >= old.highestUnits * old.minIncrementBps
Proceeds(old, new) ==
    /\ new.highestBidder # old.highestBidder => Outbid(old, new)
    /\ new.endTime >= old.endTime
    /\ old.settled => new = [old EXCEPT !.lotClaimed = new.lotClaimed]
    /\ old.lotClaimed => new = old
TimeToAnswer == [][\A a \in AuctionIds : Proceeds(auctions[a], auctions'[a])]_vars

-----------------------------------------------------------------------------
(* The auction house implements EnglishAuction: a stake is the units of an *)
(* entry, and a lot is owed while its collection would let it go.          *)

Phase(a) ==
    IF ~Exists(a) THEN "none"
    ELSE IF HasBid(a) THEN IF auctions[a].settled THEN "sold" ELSE "running"
    ELSE IF auctions[a].settled THEN "unsold" ELSE "listed"

LotOwed(a) ==
    Exists(a) /\ ~auctions[a].lotClaimed /\ auctions[a].lot \notin UntruthfulLots

EA == INSTANCE EnglishAuction WITH
    phase <- [a \in AuctionIds |-> Phase(a)],
    seller <- [a \in AuctionIds |-> auctions[a].seller],
    leader <- [a \in AuctionIds |-> auctions[a].highestBidder],
    price <- [a \in AuctionIds |-> auctions[a].highestUnits],
    stake <- units,
    lotOwed <- [a \in AuctionIds |-> LotOwed(a)]

\* Every call to the house is a step of an English auction, or none.
ImplementsEnglishAuction == EA!Spec

\* An auction with a bid ends, the seller is paid, the lot is delivered and
\* every losing stake goes back, whatever an untruthful collection does.  What
\* ends the bidding in the model is that Bid pushes no deadline beyond MaxTime.
\* In the code it is that every bid raises the price by a unit at least, of
\* which there are finitely many, an argument that TLC does not check.
KeepsPromises == EA!Promises
=============================================================================
