---------------------------- MODULE ShapesCalls ----------------------------
(***************************************************************************)
(* The calls of Shapes cut where foreign code runs: _safeMint hands each   *)
(* new token to its recipient before the next one exists, and a redemption *)
(* hands the recipient its ETH.  The recipient may then do whatever the    *)
(* reentrancy guard does not refuse, which is to move tokens.  Every step  *)
(* appends the events it emits to the log of its transaction.              *)
(*                                                                         *)
(* What Shapes does in one step between two callbacks is the action of     *)
(* module Shapes; minting, splitting and decomposing are taken apart here. *)
(* A call that reverts leaves no trace, so it is no step.                  *)
(***************************************************************************)
EXTENDS Shapes

CONSTANTS
    Contracts,    \* the accounts with code, which receive the callbacks
    House,        \* the auction house: takes cards, mints cards to itself,
                  \* and releases them
    Dealt,        \* bound: the denominations of the tokens already minted
    MaxCalls      \* bound: calls and transfers made in all, releases apart

ASSUME ContractsAssumption ==
    /\ Contracts \subseteq Accounts
    /\ House \in Accounts \ Contracts
    /\ Dealt \in Seq(Denoms)
    /\ Len(Dealt) \in 1 .. MaxMinted
    /\ MaxCalls \in Nat

VARIABLES
    call,    \* the call that holds the guard, and the tokens it has yet to mint
    tx,      \* the open transaction, or the last one
    log,     \* events of the transaction that no reader has taken yet
    calls    \* calls and transfers so far, releases apart

callVars == <<call, tx, log, calls>>

-----------------------------------------------------------------------------
(* The frame of a guarded call.                                            *)

Idle == [kind |-> "idle", to |-> NoOne, todo |-> {}, ownerTokenNext |-> 0,
         survivor |-> 0, hook |-> FALSE]

\* A guarded call that has `todo` left to mint to `to`.
Minting(kind, to, todo) ==
    [Idle EXCEPT !.kind = kind, !.to = to, !.todo = todo]

-----------------------------------------------------------------------------
(* The start: a contract just deployed, from whose genesis token on the    *)
(* deployer has minted tokens of the denominations of Dealt; no fee.       *)

Fresh(i) == IF i < Len(Dealt) THEN MintedShape(i, Dealt[i + 1]) ELSE Blank
DealtBacking == SumOver([i \in Ids |-> Units[Fresh(i).denom]],
                        0 .. Len(Dealt) - 1)

CallsInit ==
    /\ owners = [i \in Ids |-> IF i < Len(Dealt) THEN Deployer ELSE NoOne]
    /\ approvals = [i \in Ids |-> NoOne]
    /\ operatorApprovals = {}
    /\ shapes = [i \in Ids |-> Fresh(i)]
    /\ composeStack = [i \in Ids |-> <<>>]
    /\ splitRecords = <<>>
    /\ splitOriginRef = [i \in Ids |-> NoRef]
    /\ totalSupply = Len(Dealt)
    /\ totalMinted = Len(Dealt)
    /\ redeemableBacking = DealtBacking
    /\ burnedBacking = 0
    /\ blackShapeCount = 0
    /\ ownerToken = 1
    /\ mintFee = 0
    /\ feeRecipient = Deployer
    /\ feesOwed = [a \in Accounts |-> 0]
    /\ totalFeesOwed = 0
    /\ admin = Deployer
    /\ mintOpen = TRUE
    /\ ethBalance = DealtBacking
    /\ forcedEth = 0
    /\ directMints = Len(Dealt)
    /\ originsRedeemed = 0
    /\ call = Idle
    /\ tx = [from |-> Deployer, driver |-> Deployer, open |-> FALSE,
             last |-> "none"]
    /\ log = <<>>
    /\ calls = 0

-----------------------------------------------------------------------------
(* The events.  InkGene and ModulesSampled follow each other and are one   *)
(* event here, ArtSet; the InkGene of a mint is part of ShapeMinted, and   *)
(* the Transfer that burns a redeemed token is part of its ShapeRedeemed.  *)

ShapeMinted(i, to, d) ==
    [event |-> "ShapeMinted", id |-> i, to |-> to, shape |-> MintedShape(i, d)]
ArtSet(i, art) == [event |-> "ArtSet", id |-> i, art |-> art]
Transfer(from, to, i) ==
    [event |-> "Transfer", from |-> from, to |-> to, id |-> i]
OwnerTokenMoved(from, to) ==
    [event |-> "OwnerTokenMoved", from |-> from, to |-> to]
ShapeRedeemed(i, to) == [event |-> "ShapeRedeemed", id |-> i, to |-> to]
BlackShapeCreated(i) == [event |-> "BlackShapeCreated", id |-> i]
ComposedInto(s, burnIds, shape) ==
    [event |-> "Composed", id |-> s, burned |-> burnIds, denom |-> shape.denom,
     origins |-> shape.origins]
DecomposedTo(s, rec) ==
    [event |-> "Decomposed", id |-> s, restored |-> rec.burned,
     denom |-> rec.denom, origins |-> rec.origins]
SplitInto(i, out) ==
    [event |-> "Split", id |-> i, first |-> totalMinted, out |-> out,
     origins |-> AllocateSplitOrigins(shapes[i].origins, out)]

\* The members of S, in increasing order.
Listed(S) == CHOOSE f \in [1 .. Cardinality(S) -> S] :
                \A j, k \in DOMAIN f : j < k => f[j] < f[k]

\* The events of a loop over the ids of S, one for each.
Each(S, Event(_)) == [k \in 1 .. Cardinality(S) |-> Event(Listed(S)[k])]

\* OwnerTokenMoved, when one of the tokens that leave is the owner token.
MovedFrom(S, to) ==
    IF ownerToken - 1 \in S THEN <<OwnerTokenMoved(ownerToken, to)>> ELSE <<>>

\* The events of a loop that burns the ids of S: the owner token moves, to `to`,
\* just before its own burn.
Burned(S, to, Event(_)) ==
    Each({i \in S : i < ownerToken - 1}, Event)
    \o MovedFrom(S, to)
    \o Each({i \in S : i >= ownerToken - 1}, Event)

-----------------------------------------------------------------------------
(* Transactions and the reentrancy guard.                                  *)

Wallets == Accounts \ (Contracts \cup {House})

\* A wallet sends a transaction to Shapes, to the house, or to a contract that
\* calls both.
BeginTx(from, driver) ==
    /\ log = <<>>
    /\ ~tx.open
    /\ tx' = [from |-> from, driver |-> driver, open |-> TRUE, last |-> "none"]
    /\ UNCHANGED <<vars, call, log, calls>>

CommitTx ==
    /\ tx.open
    /\ call = Idle
    /\ log # <<>>
    /\ tx' = [tx EXCEPT !.open = FALSE]
    /\ UNCHANGED <<vars, call, log, calls>>

\* What one call of the house does to Shapes, in order: bid takes cards and
\* mints a batch for each denomination, createAuction takes its lot, and
\* withdraw, claimProceeds and claimLot release.  That the batches are of
\* different denominations, in order, is left open.
HouseMakes(kind) ==
    \/ kind = "take" /\ tx.last \in {"none", "take"}
    \/ kind = "mint" /\ tx.last \in {"none", "take", "mint"}
    \/ kind = "release" /\ tx.last \in {"none", "release"}

\* The bound spares the releases: a token is released once for each time it
\* came in.
WithinBound(kind) == kind = "release" \/ calls < MaxCalls

\* A wallet sends one call, to Shapes, where it may be a composeMany or a
\* decomposeMany, or to the house; a contract may make any number of both.
MaySend(caller, kind) ==
    /\ tx.open
    /\ WithinBound(kind)
    /\ \/ tx.driver \in Contracts /\ caller \in {tx.driver, House}
       \/ /\ tx.driver = House
          /\ HouseMakes(kind)
          /\ caller = IF kind = "take" THEN tx.from ELSE House
       \/ /\ tx.driver \in Wallets
          /\ caller = tx.driver
          /\ \/ tx.last = "none"
             \/ tx.last = kind /\ kind \in {"compose", "decompose"}

\* Fault: the guard is not there.
MayEnterUnguarded(caller, kind) == MaySend(caller, kind)

\* nonReentrant
MayEnter(caller, kind) == call = Idle /\ MaySend(caller, kind)

Sent(kind, events) ==
    /\ tx' = [tx EXCEPT !.last = kind]
    /\ calls' = calls + 1
    /\ log' = log \o events

-----------------------------------------------------------------------------
(* The calls that mint.  Their effects come first, then the loop of        *)
(* _safeMint over `todo`.                                                  *)

MintBatchTo(caller, d, q, to) ==
    LET ids == NextIds(q)
        backing == SumOver([i \in Ids |-> Units[d]], ids)
    IN  /\ MayEnter(caller, "mint")
        /\ (caller = House) <=> (to = House)
        /\ mintOpen
        /\ totalMinted + q <= MaxMinted
        /\ totalMinted' = totalMinted + q
        /\ totalSupply' = totalSupply + q
        /\ redeemableBacking' = redeemableBacking + backing
        /\ ethBalance' = ethBalance + backing + mintFee * q
        /\ AccrueFees(mintFee * q)
        /\ shapes' = [i \in Ids |-> IF i \in ids THEN MintedShape(i, d)
                                    ELSE shapes[i]]
        /\ directMints' = directMints + q
        /\ call' = Minting("mint", to, ids)
        /\ Sent("mint",
                [k \in 1 .. q |-> ShapeMinted(totalMinted + k - 1, to, d)])
    /\ UNCHANGED <<erc721Vars, composeStack, splitRecords, splitOriginRef,
                   burnedBacking, blackShapeCount, forcedEth, configVars,
                   originsRedeemed, ownerToken>>

SplitTo(caller, i, out, to) ==
    LET children == NextIds(Len(out))
        childShapes == [c \in children |-> ChildShape(i, out, c)]
    IN  /\ MayEnter(caller, "split")
        /\ Len(out) >= 2
        /\ totalMinted + Len(out) <= MaxMinted
        /\ CallerOwnsLive(caller, i)
        /\ SplitSumMatches(i, out)
        /\ SplitExhausts(i, out)
        /\ shapes' = [c \in Ids |-> IF c \in children THEN childShapes[c]
                                    ELSE IF c = i THEN Blank
                                    ELSE shapes[c]]
        /\ splitRecords' = Append(splitRecords, SplitRecordOf(i))
        /\ splitOriginRef' = [c \in Ids |-> IF c \in children THEN ChildRef(c)
                                            ELSE splitOriginRef[c]]
        /\ totalMinted' = totalMinted + Len(out)
        /\ totalSupply' = totalSupply + Len(out) - 1
        /\ ownerToken' = OwnerTokenAfterSplit(i)
        /\ UpdateOwners({i}, {}, NoOne)
        /\ call' = Minting("split", to, children)
        /\ Sent("split",
                <<Transfer(caller, NoOne, i)>>
                \o MovedFrom({i}, totalMinted + 1)
                \o <<SplitInto(i, out)>>
                \o Each(children, LAMBDA c : ArtSet(c, childShapes[c].art)))
    /\ UNCHANGED <<composeStack, reserveVars, feeVars, configVars, historyVars>>

\* Fault: the owner token moves before the token it moves to exists.
OwnerTokenMovedEarly(rec) == OwnerTokenAfterDecompose(rec)

\* What the owner token is while the restored inputs are minted.
OwnerTokenInDecompose(rec) == ownerToken

DecomposeTo(caller, s, to) ==
    /\ MayEnter(caller, "decompose")
    /\ CallerOwnsLive(caller, s)
    /\ composeStack[s] # <<>>
    /\ LET rec == Last(composeStack[s])
       IN  /\ shapes' = Uncomposed(s, rec)
           /\ composeStack' = [composeStack EXCEPT ![s] = Front(@)]
           /\ totalSupply' = totalSupply + Cardinality(rec.burned)
           /\ ownerToken' = OwnerTokenInDecompose(rec)
           /\ call' = [Minting("decompose", to, rec.burned)
                          EXCEPT !.ownerTokenNext = rec.ownerTokenFrom,
                                 !.survivor = s]
           /\ Sent("decompose",
                   <<DecomposedTo(s, rec), ArtSet(s, rec.art)>>
                   \o Each(rec.burned,
                           LAMBDA b : ArtSet(b, rec.inputs[b].art)))
    /\ UNCHANGED <<erc721Vars, splitRecords, splitOriginRef, totalMinted,
                   reserveVars, feeVars, configVars, historyVars>>

\* New ids are minted in order; the inputs of a record in the record's order,
\* which is the one the caller of compose chose.
NextToMint == IF call.kind = "decompose" THEN call.todo
              ELSE {i \in call.todo : \A j \in call.todo : i <= j}

\* One turn of the loop: _mint refuses a zero recipient and an id that exists.
SafeMint ==
    /\ ~call.hook
    /\ \E i \in NextToMint :
          /\ Mintable({i}, call.to)
          /\ UpdateOwners({}, {i}, call.to)
          /\ call' = [call EXCEPT !.todo = @ \ {i},
                                  !.hook = call.to \in Contracts]
          /\ log' = Append(log, Transfer(NoOne, call.to, i))
    /\ UNCHANGED <<storeVars, reserveVars, feeVars, configVars, historyVars,
                   ownerToken, tx, calls>>

\* onERC721Received, or the receive function paid by a redemption, returns.
CallbackReturns ==
    /\ call.hook
    /\ call' = [call EXCEPT !.hook = FALSE]
    /\ UNCHANGED <<vars, tx, log, calls>>

\* The loop is done: a decompose now moves the owner token back, and the
\* guard is released.
CallReturns ==
    /\ call.kind # "idle"
    /\ ~call.hook
    /\ call.todo = {}
    /\ IF call.ownerTokenNext = 0
       THEN UNCHANGED <<ownerToken, log>>
       ELSE /\ ownerToken' = call.ownerTokenNext
            /\ log' = Append(log, OwnerTokenMoved(call.survivor + 1,
                                                  call.ownerTokenNext))
    /\ call' = Idle
    /\ UNCHANGED <<erc721Vars, storeVars, reserveVars, feeVars, configVars,
                   historyVars, tx, calls>>

-----------------------------------------------------------------------------
(* The calls that mint nothing.                                            *)

ComposeCall(caller, s, burnIds) ==
    /\ MayEnter(caller, "compose")
    /\ Compose(caller, s, burnIds)
    /\ Sent("compose",
            Burned(burnIds, s + 1, LAMBDA i : Transfer(caller, NoOne, i))
            \o <<ComposedInto(s, burnIds, shapes'[s]),
                 ArtSet(s, shapes'[s].art)>>)
    /\ UNCHANGED call

\* The ETH goes out last, with the guard still held.  burn() pays its caller,
\* and nothing is sent for a Black Shape.
RedeemCall(caller, S, allowBlack, to) ==
    /\ MayEnter(caller, "redeem")
    /\ S # {}
    /\ allowBlack => Cardinality(S) = 1 /\ to = caller
    /\ RedeemSet(caller, S, allowBlack)
    /\ call' = IF to \in Contracts /\ SumOver(Backings, S) # 0
               THEN [Idle EXCEPT !.kind = "redeem", !.to = to, !.hook = TRUE]
               ELSE call
    /\ Sent("redeem", Burned(S, 0, LAMBDA i : ShapeRedeemed(i, to)))

BurnBackingCall(caller, i) ==
    /\ MayEnter(caller, "burnBacking")
    /\ BurnBacking(caller, i)
    /\ Sent("burnBacking", <<BlackShapeCreated(i)>>)
    /\ UNCHANGED call

\* A token goes to the house when a bid or a lot is taken, and leaves it when
\* the house releases it.
TransferKind(caller, to) == IF caller = House THEN "release"
                            ELSE IF to = House THEN "take" ELSE "transfer"

\* The house releases only to who called it.
ReleasedTo(to) == IF tx.driver = House THEN to = tx.from ELSE to \in Contracts

\* transferFrom: a call of its own, made by a contract in its callback, or made
\* by the house for one of either.  No guard covers it.  What the house takes
\* is transferred in the name of its bidder, who has approved it.
TransferCall(caller, i, to) ==
    LET kind == TransferKind(caller, to)
    IN  /\ WithinBound(kind)
        /\ caller = House => ReleasedTo(to)
        /\ IF call.hook
           THEN caller \in Contracts \cup {House} /\ UNCHANGED tx
           ELSE /\ call = Idle
                /\ MaySend(caller, kind)
                /\ tx' = [tx EXCEPT !.last = kind]
        /\ TransferFrom(caller, i, to)
        /\ calls' = IF kind = "release" THEN calls ELSE calls + 1
        /\ log' = Append(log, Transfer(owners[i], to, i))
        /\ UNCHANGED call

-----------------------------------------------------------------------------
(* The specification.                                                      *)

OpenTx == \E from \in Wallets : \E driver \in Contracts \cup {House, from} :
              BeginTx(from, driver)

MintCall(caller) == \E d \in Denoms, q \in 1 .. MaxMinted, to \in Accounts :
                       MintBatchTo(caller, d, q, to)

OwnersCall(caller) ==
    \/ \E i \in Live, out \in OutputLists, to \in Accounts \ {House} :
          SplitTo(caller, i, out, to)
    \/ \E s \in Live, to \in Accounts \ {House} : DecomposeTo(caller, s, to)
    \/ \E s \in Live : \E burnIds \in SUBSET (Live \ {s}) :
          ComposeCall(caller, s, burnIds)
    \/ \E S \in SUBSET Live, allowBlack \in BOOLEAN,
          to \in Accounts \ {House} :
          RedeemCall(caller, S, allowBlack, to)
    \/ \E i \in Live : BurnBackingCall(caller, i)

CallStep ==
    \/ OpenTx
    \/ CommitTx
    \/ \E caller \in Accounts : MintCall(caller)
    \/ \E caller \in Accounts \ {House} : OwnersCall(caller)
    \/ \E caller \in Accounts, i \in Live, to \in Accounts :
          TransferCall(caller, i, to)
    \/ SafeMint
    \/ CallbackReturns
    \/ CallReturns

CallsSpec == CallsInit /\ [][CallStep]_<<vars, callVars>>

-----------------------------------------------------------------------------
(* What the calls amount to once the tokens a call owes are handed out.    *)

SettledOwners == [i \in Ids |-> IF i \in call.todo THEN call.to ELSE owners[i]]
SettledOwnerToken == IF call.ownerTokenNext = 0 THEN ownerToken
                     ELSE call.ownerTokenNext

Atomic == INSTANCE Shapes WITH owners <- SettledOwners,
                               ownerToken <- SettledOwnerToken

=============================================================================
