--------------------------- MODULE EnglishAuction ---------------------------
(***************************************************************************)
(* What ShapeAuctionHouse promises, without cards, tokens, clocks or       *)
(* limits: a set of ascending auctions in which a participant's stake only *)
(* grows by an improving bid, only the leader's stake is at risk, and what *)
(* is owed to anyone is paid once.  Module AuctionHouse implements it.     *)
(***************************************************************************)
EXTENDS Integers

CONSTANTS
    AuctionIds,
    People,
    Nobody  \* the leader of an auction without a bid

VARIABLES
    phase,   \* [AuctionIds -> Phases]
    seller,  \* [AuctionIds -> People \cup {Nobody}]
    leader,  \* [AuctionIds -> People \cup {Nobody}]
    price,   \* what the leader bid
    stake,   \* what the house holds for each participant
    lotOwed  \* the house has still to hand over a lot it is able to move

vars == <<phase, seller, leader, price, stake, lotOwed>>

\* "listed" until the first bid; "sold" or "unsold" once closed.
Phases == {"none", "listed", "running", "sold", "unsold"}

TypeOK ==
    /\ phase \in [AuctionIds -> Phases]
    /\ seller \in [AuctionIds -> People \cup {Nobody}]
    /\ leader \in [AuctionIds -> People \cup {Nobody}]
    /\ price \in [AuctionIds -> Nat]
    /\ stake \in [AuctionIds -> [People -> Nat]]
    /\ lotOwed \in [AuctionIds -> BOOLEAN]

Init ==
    /\ phase = [a \in AuctionIds |-> "none"]
    /\ seller = [a \in AuctionIds |-> Nobody]
    /\ leader = [a \in AuctionIds |-> Nobody]
    /\ price = [a \in AuctionIds |-> 0]
    /\ stake = [a \in AuctionIds |-> [p \in People |-> 0]]
    /\ lotOwed = [a \in AuctionIds |-> FALSE]

List(a, p) ==
    /\ phase[a] = "none"
    /\ phase' = [phase EXCEPT ![a] = "listed"]
    /\ seller' = [seller EXCEPT ![a] = p]
    /\ \E certain \in BOOLEAN : lotOwed' = [lotOwed EXCEPT ![a] = certain]
    /\ UNCHANGED <<leader, price, stake>>

\* A bid is what the bidder staked before and what it adds, together.
Bid(a, p) ==
    /\ phase[a] \in {"listed", "running"}
    /\ p # seller[a]
    /\ phase' = [phase EXCEPT ![a] = "running"]
    /\ leader' = [leader EXCEPT ![a] = p]
    /\ price'[a] \in Nat /\ price'[a] > price[a]
    /\ price' = [price EXCEPT ![a] = price'[a]]
    /\ stake' = [stake EXCEPT ![a][p] = price'[a]]
    /\ UNCHANGED <<seller, lotOwed>>

Close(a) ==
    /\ \/ phase[a] = "running" /\ phase' = [phase EXCEPT ![a] = "sold"]
       \/ phase[a] = "listed" /\ phase' = [phase EXCEPT ![a] = "unsold"]
    /\ UNCHANGED <<seller, leader, price, stake, lotOwed>>

\* A participant who is not leading takes back the whole stake, at any time.
Refund(a, p) ==
    /\ p # leader[a]
    /\ stake[a][p] > 0
    /\ stake' = [stake EXCEPT ![a][p] = 0]
    /\ UNCHANGED <<phase, seller, leader, price, lotOwed>>

\* The seller takes the winning bid.
Pay(a) ==
    /\ phase[a] = "sold"
    /\ stake[a][leader[a]] > 0
    /\ stake' = [stake EXCEPT ![a][leader[a]] = 0]
    /\ UNCHANGED <<phase, seller, leader, price, lotOwed>>

Deliver(a) ==
    /\ phase[a] \in {"sold", "unsold"}
    /\ lotOwed[a]
    /\ lotOwed' = [lotOwed EXCEPT ![a] = FALSE]
    /\ UNCHANGED <<phase, seller, leader, price, stake>>

Next ==
    \E a \in AuctionIds :
        \/ \E p \in People : List(a, p) \/ Bid(a, p) \/ Refund(a, p)
        \/ Close(a) \/ Pay(a) \/ Deliver(a)

Spec == Init /\ [][Next]_vars

\* An auction with a bid ends; once it has, every stake goes where it belongs,
\* as does the stake of whoever is outbid before; the lot is delivered.
Promises ==
    \A a \in AuctionIds :
        /\ phase[a] = "running" ~> phase[a] = "sold"
        /\ phase[a] \in {"sold", "unsold"} ~> ~lotOwed[a]
        /\ \A p \in People :
               /\ phase[a] = "sold" ~> stake[a][p] = 0
               /\ stake[a][p] > 0 ~> (stake[a][p] = 0 \/ leader[a] = p)
=============================================================================
