---------------------------- MODULE AuctionHouse ----------------------------
(***************************************************************************)
(* ShapeAuctionHouse and the ShapeCardEscrow it inherits: English auctions *)
(* of any ERC-721 whose bids are sets of Shapes held in escrow.  One       *)
(* action per entrypoint; a transaction is one step.  The only callbacks a *)
(* call can reach are the house's own onERC721Received, which is a view,   *)
(* and the lot's collection, whose re-entry nonReentrant refuses           *)
(* everywhere but in setStartTime, which is as good as a call of its own.  *)
(*                                                                         *)
(* Amounts are counted in UNITs.  A list of cards is a set: transferFrom   *)
(* rejects an id that was already pulled.  Shapes, the lots' collections   *)
(* and the wallets outside the house are modelled as far as the house      *)
(* depends on them.                                                        *)
(***************************************************************************)
EXTENDS Integers, FiniteSets, Sums

CONSTANTS
    People,         \* everyone who calls the house
    Nobody,         \* address(0)
    House,          \* the auction house's own address
    Agents,         \* [People -> SUBSET People]: approved for the owner's tokens
    Cards,          \* Shape ids, in the order Shapes issues them
    Lots,           \* tokens of other collections
    UntruthfulLots, \* those whose collection moves them, or reports them, at will
    LotOwner,       \* who holds each lot at first
    Apex, Units,    \* the ladder: Denominations.unitsAt over 0 .. Apex
    MintFee,        \* Shapes.mintFee, in units here
    Dealt,          \* the Shapes minted before: their owners and backing
    MaxCardsPerBid, MaxDuration, MaxStartLead,
    AuctionTerms,   \* bound: the terms sellers choose from
    Amounts,        \* bound: the ethBackingWei and msg.value of a bid
    Restless,       \* bound: the cards that change while in a wallet
    MaxAuctions,    \* bound: how many auctions are ever created
    MaxTime         \* bound: no deadline lies beyond it

Denoms == 0 .. Apex
AuctionIds == 0 .. MaxAuctions - 1
Tokens == Cards \cup Lots
Holders == People \cup {House, Nobody}
Terms == [duration : Nat, extensionWindow : Nat, minIncrementBps : Nat,
          reserveUnits : Nat, startTime : Nat]

ASSUME PeopleAssumption ==
    /\ Nobody \notin People /\ House \notin People /\ Nobody # House
    /\ Agents \in [People -> SUBSET People]

ASSUME TokensAssumption ==
    /\ IsFiniteSet(Cards) /\ Cards = 0 .. Cardinality(Cards) - 1
    /\ Cards \cap Lots = {}
    /\ UntruthfulLots \subseteq Lots
    /\ LotOwner \in [Lots -> People]
    /\ Dealt \in [owner : [Cards -> People \cup {Nobody}], backing : [Cards -> Nat],
                  minted : Nat]
    /\ 0 .. Dealt.minted - 1 \subseteq Cards
    /\ \A c \in Cards : Dealt.owner[c] # Nobody => c < Dealt.minted
    /\ Restless \subseteq Cards

ASSUME LadderAssumption ==
    /\ Apex \in Nat
    /\ Units \in [Denoms -> Nat \ {0}]
    /\ Units[0] = 1
    /\ \A d \in 0 .. Apex - 1 : Units[d + 1] % Units[d] = 0

ASSUME BoundsAssumption ==
    /\ MintFee \in Nat /\ MaxCardsPerBid \in Nat
    /\ MaxDuration \in Nat /\ MaxStartLead \in Nat
    /\ AuctionTerms \subseteq Terms /\ Amounts \subseteq Nat
    /\ MaxAuctions \in Nat /\ MaxTime \in Nat

VARIABLES
    auctionCount,
    auctions,         \* _auctions
    auctionIdByToken, \* _auctionIdByToken: id plus one, zero for none
    escrow,           \* ShapeCardEscrow._escrow
    units,            \* ShapeCardEscrow._units
    houseEth,         \* the house's ETH balance
    owner,            \* ownerOf, as each collection reports it
    backing,          \* Shapes.backingOf, of a card that has an owner
    minted,           \* Shapes.totalMinted
    now,              \* block.timestamp
    depositor,        \* history: who bid a card, and in which auction
    strays            \* history: tokens sent to the house outside any bid

houseVars == <<auctionCount, auctions, auctionIdByToken>>
escrowVars == <<escrow, units, houseEth>>
tokenVars == <<owner, backing, minted>>
historyVars == <<depositor, strays>>
vars == <<houseVars, escrowVars, tokenVars, now, historyVars>>

-----------------------------------------------------------------------------
(* Auctions.                                                               *)

Auction == [seller : People \cup {Nobody}, lot : Tokens \cup {Nobody},
            endTime : Nat, startTime : Nat, duration : Nat,
            extensionWindow : Nat, minIncrementBps : Nat, reserveUnits : Nat,
            highestUnits : Nat, highestBidder : People \cup {Nobody},
            settled : BOOLEAN, lotClaimed : BOOLEAN]

\* A storage slot never written.
NoAuction == [seller |-> Nobody, lot |-> Nobody, endTime |-> 0, startTime |-> 0,
              duration |-> 0, extensionWindow |-> 0, minIncrementBps |-> 0,
              reserveUnits |-> 0, highestUnits |-> 0, highestBidder |-> Nobody,
              settled |-> FALSE, lotClaimed |-> FALSE]

\* _requireAuction.
Exists(a) == auctions[a].seller # Nobody
HasBid(a) == auctions[a].highestBidder # Nobody

AtLeastOne(n) == IF n = 0 THEN 1 ELSE n

\* Fault: the standing bid need only be met.
MinimumFromEqual(au) ==
    IF au.highestBidder = Nobody THEN AtLeastOne(au.reserveUnits)
    ELSE au.highestUnits + (au.highestUnits * au.minIncrementBps) \div 10000

\* _minimumFrom: the reserve, then the standing bid and its increment, which
\* is rounded up to a unit.
MinimumFrom(au) ==
    IF au.highestBidder = Nobody THEN AtLeastOne(au.reserveUnits)
    ELSE au.highestUnits
         + AtLeastOne((au.highestUnits * au.minIncrementBps + 9999) \div 10000)

-----------------------------------------------------------------------------
(* What a bid of ETH is minted into.                                       *)

\* _cardsFor, largest denomination first: as each step of the ladder divides
\* the next, what remains for d is what the next one up does not measure.
CardsFor(amount) ==
    [d \in Denoms |-> (IF d = Apex THEN amount ELSE amount % Units[d + 1]) \div Units[d]]

\* Cards minted from the denominations below d, which come first.
MintedBelow(counts, d) == SumOver(counts, 0 .. d - 1)
CardCount(counts) == MintedBelow(counts, Apex + 1)

\* The ids mintBatchTo reports, denomination by denomination.
FreshCards(counts) == minted .. minted + CardCount(counts) - 1
FreshDenom(counts, c) ==
    Cardinality({d \in 0 .. Apex - 1 : minted + MintedBelow(counts, d + 1) <= c})

-----------------------------------------------------------------------------
(* Shapes and the lots' collections, as far as the house calls them.       *)

Move(S, to) == [t \in Tokens |-> IF t \in S THEN to ELSE owner[t]]

\* An untruthful collection reports whatever passes, and moves nothing.
MayList(p, t) ==
    \/ t \in UntruthfulLots
    \/ /\ owner[t] \in People
       /\ p = owner[t] \/ p \in Agents[owner[t]]
LotMove(t, to) == IF t \in UntruthfulLots THEN owner ELSE Move({t}, to)

\* Fault: a token is free to be listed again as soon as its auction closed.
UnlistedOrClosed(t) ==
    auctionIdByToken[t] # 0 => auctions[auctionIdByToken[t] - 1].settled

Unlisted(t) == auctionIdByToken[t] = 0

NoDeposit == <<MaxAuctions, Nobody>>

Init ==
    /\ auctionCount = 0
    /\ auctions = [a \in AuctionIds |-> NoAuction]
    /\ auctionIdByToken = [t \in Tokens |-> 0]
    /\ escrow = [a \in AuctionIds |-> [p \in People |-> {}]]
    /\ units = [a \in AuctionIds |-> [p \in People |-> 0]]
    /\ houseEth = 0
    /\ owner = [t \in Tokens |-> IF t \in Lots THEN LotOwner[t] ELSE Dealt.owner[t]]
    /\ backing = Dealt.backing
    /\ minted = Dealt.minted
    /\ now = 0
    /\ depositor = [c \in Cards |-> NoDeposit]
    /\ strays = {}

-----------------------------------------------------------------------------
(* Listing.                                                                *)

Listing(p, t, terms) ==
    [NoAuction EXCEPT !.seller = p, !.lot = t, !.duration = terms.duration,
                      !.startTime = terms.startTime,
                      !.extensionWindow = terms.extensionWindow,
                      !.minIncrementBps = terms.minIncrementBps,
                      !.reserveUnits = terms.reserveUnits]

\* Both overloads of createAuction; the one without a startTime passes zero.
CreateAuction(p, t, terms) ==
    /\ auctionCount < MaxAuctions
    /\ Unlisted(t)
    /\ MayList(p, t)
    /\ terms.duration \in 1 .. MaxDuration
    /\ terms.extensionWindow <= terms.duration
    /\ terms.startTime <= now + MaxStartLead
    /\ auctions' = [auctions EXCEPT ![auctionCount] = Listing(p, t, terms)]
    /\ auctionIdByToken' = [auctionIdByToken EXCEPT ![t] = auctionCount + 1]
    /\ auctionCount' = auctionCount + 1
    /\ owner' = LotMove(t, House)
    /\ UNCHANGED <<escrowVars, backing, minted, now, historyVars>>

\* What cancelAuction and setStartTime ask for.
UnbidBySeller(p, a) ==
    /\ Exists(a)
    /\ p = auctions[a].seller /\ ~HasBid(a) /\ ~auctions[a].settled

CancelAuction(p, a) ==
    /\ UnbidBySeller(p, a)
    /\ auctions' = [auctions EXCEPT ![a].settled = TRUE]
    /\ UNCHANGED <<auctionCount, auctionIdByToken, escrowVars, tokenVars, now,
                   historyVars>>

SetStartTime(p, a, startTime) ==
    /\ UnbidBySeller(p, a)
    /\ startTime <= now + MaxStartLead
    /\ auctions' = [auctions EXCEPT ![a].startTime = startTime]
    /\ UNCHANGED <<auctionCount, auctionIdByToken, escrowVars, tokenVars, now,
                   historyVars>>

-----------------------------------------------------------------------------
(* Bidding.                                                                *)

\* Fault: ETH sent beside a bid of cards is accepted.
ExactPaymentOfMint(eth, value) ==
    eth # 0 => value = eth + MintFee * CardCount(CardsFor(eth))

\* ETH pays for the cards it is minted into and for nothing else.
ExactPayment(eth, value) ==
    IF eth = 0 THEN value = 0
    ELSE value = eth + MintFee * CardCount(CardsFor(eth))

\* _takeCards: what the bidder owns and Shapes values above nothing.
MayTakeCards(p, a, ids) ==
    /\ Cardinality(escrow[a][p]) + Cardinality(ids) <= MaxCardsPerBid
    /\ \A c \in ids : backing[c] # 0 /\ owner[c] = p

\* Fault: the cards minted are not added to those the same call takes.
MayMintCardsApart(p, a, ids, eth) ==
    Cardinality(escrow[a][p]) + CardCount(CardsFor(eth)) <= MaxCardsPerBid

\* _mintCards: the cards minted, if any, count against the same limit.
MayMintCards(p, a, ids, eth) ==
    Cardinality(escrow[a][p]) + Cardinality(ids) + CardCount(CardsFor(eth))
        <= MaxCardsPerBid

\* Fault: the units of the call are not added to those already escrowed.
NewUnitsOfCall(p, a, ids, eth) == SumOver(backing, ids) + eth

NewUnits(p, a, ids, eth) == units[a][p] + SumOver(backing, ids) + eth

\* _takeBid: the cards pulled and the cards minted land in one entry.
TakeBid(p, a, ids, eth, value) ==
    LET counts == CardsFor(eth)
        fresh == FreshCards(counts)
    IN  /\ ids # {} \/ eth # 0
        /\ ExactPayment(eth, value)
        /\ MayTakeCards(p, a, ids)
        /\ MayMintCards(p, a, ids, eth)
        /\ fresh \subseteq Cards
        /\ escrow' = [escrow EXCEPT ![a][p] = @ \cup ids \cup fresh]
        /\ units' = [units EXCEPT ![a][p] = NewUnits(p, a, ids, eth)]
        /\ owner' = Move(ids \cup fresh, House)
        /\ backing' = [c \in Cards |-> IF c \in fresh THEN Units[FreshDenom(counts, c)]
                                       ELSE backing[c]]
        /\ minted' = minted + CardCount(counts)
        /\ houseEth' = houseEth + value - (IF eth = 0 THEN 0 ELSE
                                            eth + MintFee * CardCount(counts))
        /\ depositor' = [c \in Cards |-> IF c \in ids \cup fresh THEN <<a, p>>
                                         ELSE depositor[c]]

\* Fault: a bid in the last moment does not push the deadline out.
EndTimeNeverExtended(au) ==
    IF au.endTime = 0 THEN now + au.duration ELSE au.endTime

\* The first bid starts the clock; a late one pushes the deadline out.  The
\* guard MaxTime on it in Bid is the bound's, not the code's.
EndTimeAfterBid(au) ==
    IF au.endTime = 0 THEN now + au.duration
    ELSE IF now + au.extensionWindow > au.endTime THEN now + au.extensionWindow
    ELSE au.endTime

Bid(p, a, ids, eth, value) ==
    LET au == auctions[a]
    IN  /\ Exists(a)
        /\ p # au.seller
        /\ ~au.settled
        /\ now >= au.startTime
        /\ au.endTime = 0 \/ now < au.endTime
        /\ TakeBid(p, a, ids, eth, value)
        /\ NewUnits(p, a, ids, eth) >= MinimumFrom(au)
        /\ EndTimeAfterBid(au) <= MaxTime
        /\ auctions' = [auctions EXCEPT
                           ![a].highestUnits = NewUnits(p, a, ids, eth),
                           ![a].highestBidder = p,
                           ![a].endTime = EndTimeAfterBid(au)]
        /\ UNCHANGED <<auctionCount, auctionIdByToken, now, strays>>

-----------------------------------------------------------------------------
(* Settling and pulling.                                                   *)

Settle(a) ==
    /\ Exists(a)
    /\ ~auctions[a].settled
    /\ auctions[a].endTime # 0 /\ now >= auctions[a].endTime
    /\ auctions' = [auctions EXCEPT ![a].settled = TRUE]
    /\ UNCHANGED <<auctionCount, auctionIdByToken, escrowVars, tokenVars, now,
                   historyVars>>

\* Fault: the seller recovers the lot of an auction that sold.
LotRecipientSeller(a) == auctions[a].seller

LotRecipient(a) ==
    IF HasBid(a) THEN auctions[a].highestBidder ELSE auctions[a].seller

\* transferFrom needs the house to own the lot, where the collection is truthful.
ClaimLot(a) ==
    LET t == auctions[a].lot
    IN  /\ Exists(a) /\ auctions[a].settled /\ ~auctions[a].lotClaimed
        /\ t \in UntruthfulLots \/ owner[t] = House
        /\ auctions' = [auctions EXCEPT ![a].lotClaimed = TRUE]
        /\ auctionIdByToken' = [auctionIdByToken EXCEPT ![t] = 0]
        /\ owner' = LotMove(t, LotRecipient(a))
        /\ UNCHANGED <<auctionCount, escrowVars, backing, minted, now, historyVars>>

\* _release: every card of one entry, or none where a transfer would revert.
Release(a, from, to) ==
    /\ escrow[a][from] # {}
    /\ \A c \in escrow[a][from] : owner[c] = House
    /\ escrow' = [escrow EXCEPT ![a][from] = {}]
    /\ units' = [units EXCEPT ![a][from] = 0]
    /\ owner' = Move(escrow[a][from], to)
    /\ depositor' = [c \in Cards |-> IF c \in escrow[a][from] THEN NoDeposit
                                     ELSE depositor[c]]
    /\ UNCHANGED <<houseVars, houseEth, backing, minted, now, strays>>

\* Fault: the leader may withdraw until the auction closes.
MayWithdrawOpen(p, a) ==
    ~auctions[a].settled \/ p # auctions[a].highestBidder

\* The leader's cards are the live bid, and once it wins they are the seller's.
MayWithdraw(p, a) == p # auctions[a].highestBidder

Withdraw(p, a) ==
    /\ Exists(a)
    /\ MayWithdraw(p, a)
    /\ Release(a, p, p)

\* Fault: the seller is paid only once the lot has been taken.
ProceedsDueAfterLot(a) ==
    auctions[a].settled /\ HasBid(a) /\ auctions[a].lotClaimed

\* The zero address, the leader of an auction without a bid, has no entry.
ProceedsDue(a) == auctions[a].settled /\ HasBid(a)

ClaimProceeds(a) ==
    /\ Exists(a)
    /\ ProceedsDue(a)
    /\ Release(a, auctions[a].highestBidder, auctions[a].seller)

-----------------------------------------------------------------------------
(* Outside the house.                                                      *)

\* A card in a wallet is sent, reshaped, redeemed, turned Black or revived.
WalletChange(c, h, value) ==
    /\ c \in Restless /\ c < minted
    /\ owner[c] \in People \cup {Nobody}
    /\ owner' = Move({c}, h)
    /\ backing' = [backing EXCEPT ![c] = IF h = Nobody THEN 0 ELSE value]
    /\ UNCHANGED <<houseVars, escrowVars, minted, now, historyVars>>

\* Someone else mints, so that the next fresh id is not the one seen before.
WalletMint(p, value) ==
    /\ minted \in Restless
    /\ owner' = Move({minted}, p)
    /\ backing' = [backing EXCEPT ![minted] = value]
    /\ minted' = minted + 1
    /\ UNCHANGED <<houseVars, escrowVars, now, historyVars>>

\* A plain transferFrom to the house calls no hook and cannot be refused; a
\* safeTransferFrom is refused by onERC721Received, whose window is closed.
PlainPush(c) ==
    /\ c \in Restless
    /\ owner[c] \in People
    /\ owner' = Move({c}, House)
    /\ strays' = strays \cup {c}
    /\ UNCHANGED <<houseVars, escrowVars, backing, minted, now, depositor>>

Tick ==
    /\ now < MaxTime
    /\ now' = now + 1
    /\ UNCHANGED <<houseVars, escrowVars, tokenVars, historyVars>>

Next ==
    \/ \E p \in People, t \in Tokens, terms \in AuctionTerms : CreateAuction(p, t, terms)
    \/ \E p \in People, a \in AuctionIds :
           \/ CancelAuction(p, a)
           \/ \E s \in {terms.startTime : terms \in AuctionTerms} : SetStartTime(p, a, s)
           \/ \E ids \in SUBSET Cards, eth \in Amounts, value \in Amounts :
                  Bid(p, a, ids, eth, value)
           \/ Withdraw(p, a)
    \/ \E a \in AuctionIds : Settle(a) \/ ClaimLot(a) \/ ClaimProceeds(a)
    \/ \E c \in Cards :
           \/ \E h \in People \cup {Nobody}, d \in Denoms \cup {-1} :
                  WalletChange(c, h, IF d = -1 THEN 0 ELSE Units[d])
           \/ PlainPush(c)
    \/ \E p \in People, d \in Denoms : WalletMint(p, Units[d])
    \/ Tick

SafeSpec == Init /\ [][Next]_vars

\* Each of these calls is open to whoever gains by it: anyone may settle, the
\* other three belong to the person they pay.  A lot whose collection refuses
\* to move it is owed nothing.
TruthfulClaimLot(a) == auctions[a].lot \notin UntruthfulLots /\ ClaimLot(a)
Fairness ==
    /\ WF_vars(Tick)
    /\ \A a \in AuctionIds :
           /\ WF_vars(Settle(a))
           /\ WF_vars(TruthfulClaimLot(a))
           /\ WF_vars(ClaimProceeds(a))
           /\ \A p \in People : WF_vars(Withdraw(p, a))

Spec == SafeSpec /\ Fairness
=============================================================================
