------------------------------- MODULE Shapes -------------------------------
(***************************************************************************)
(* The Shapes contract: an ERC-721 whose tokens are backed by ETH on a     *)
(* fixed denomination ladder, and the compose / decompose / split machine  *)
(* of RecompositionOps that reshapes them.  One action per entrypoint; a   *)
(* transaction is one step, which is what the reentrancy guard and the     *)
(* EVM's rollback of a reverted call give between transactions.            *)
(*                                                                         *)
(* Amounts are counted in UNITs, the smallest denomination.  A list of     *)
(* burned ids is a set, because requireDistinctComposeInputs (compose) and *)
(* ERC721._burn (redeemBatch) reject a repeated id.                        *)
(***************************************************************************)
EXTENDS Integers, Sequences, FiniteSets, Sums

CONSTANTS
    Accounts,     \* the accounts and contracts that call; never Shapes itself,
                  \* which _update and setFeeRecipient refuse
    NoOne,        \* address(0)
    Deployer,     \* the account that constructs the contract
    Operators,    \* the accounts that holders approve
    Candidates,   \* the accounts the admin may name as admin or fee recipient;
                  \* bound: where there are none, the admin does not act
    Apex,         \* APEX_INDEX, the top of the ladder
    Units,        \* Denominations.unitsAt
    MaxMintFee,   \* AdminOps.MAX_MINT_FEE
    Arts,         \* classes of (ink gene, module bytes) a token can display
    BlankArt,     \* the art of a deleted storage slot
    MintArt,      \* art of a mint, from the id that fixes its seed
    ComposeArt,   \* art of a survivor, from its donors' arts and denomination
    SplitArt,     \* art of a split child, from the parent's, the pool's, its index
    MaxMinted,    \* bound: how many ids are ever issued
    MaxForced     \* bound: ETH forced into the contract

Denoms == 0 .. Apex
Ids == 0 .. MaxMinted - 1

ASSUME AccountsAssumption ==
    /\ Deployer \in Accounts
    /\ NoOne \notin Accounts
    /\ Operators \subseteq Accounts
    /\ Candidates \subseteq Accounts

ASSUME LadderAssumption ==
    /\ Apex \in Nat
    /\ Units \in [Denoms -> Nat \ {0}]
    /\ Units[0] = 1
    /\ \A d, e \in Denoms : d < e => Units[d] < Units[e]

ASSUME BoundsAssumption ==
    /\ MaxMinted \in Nat \ {0}
    /\ MaxForced \in Nat
    /\ MaxMintFee \in Nat

ASSUME ArtAssumption ==
    /\ BlankArt \in Arts
    /\ MintArt \in [Ids -> Arts]
    /\ ComposeArt \in [Arts \X (SUBSET Arts) \X Denoms -> Arts]
    /\ SplitArt \in [Arts \X (SUBSET Arts) \X Denoms \X Ids -> Arts]

VARIABLES
    owners,            \* ERC721._owners
    approvals,         \* ERC721._tokenApprovals
    operatorApprovals, \* ERC721._operatorApprovals, as a set of pairs
    shapes,            \* _store.shapes, with _store.modules folded into art
    composeStack,      \* _store.composeStack
    splitRecords,      \* _store.splitRecords
    splitOriginRef,    \* _store.splitOriginRef
    totalSupply,
    totalMinted,
    redeemableBacking,
    burnedBacking,
    blackShapeCount,
    ownerToken,        \* _ownerToken: id plus one, zero when there is none
    mintFee,
    feeRecipient,
    feesOwed,
    totalFeesOwed,
    admin,
    mintOpen,          \* block.timestamp >= mintStart
    ethBalance,        \* address(this).balance
    forcedEth,         \* history: ETH that arrived without a payable call
    directMints,       \* history: the number of ShapeMinted events
    originsRedeemed    \* history: the sum of originCount over ShapeRedeemed

erc721Vars == <<owners, approvals, operatorApprovals>>
storeVars == <<shapes, composeStack, splitRecords, splitOriginRef,
               totalSupply, totalMinted>>
reserveVars == <<redeemableBacking, burnedBacking, blackShapeCount, ethBalance,
                 forcedEth>>
feeVars == <<feesOwed, totalFeesOwed>>
configVars == <<mintFee, feeRecipient, admin, mintOpen>>
historyVars == <<directMints, originsRedeemed>>
vars == <<erc721Vars, storeVars, reserveVars, feeVars, configVars,
          historyVars, ownerToken>>

-----------------------------------------------------------------------------
(* Token state.                                                            *)

\* A seed is the id of the mint that drew it followed by the child indexes
\* of the splits since: keccak256 of distinct preimages is taken as injective.
Seeds == Seq(Nat)
ShapeData == [seed : Seeds, denom : Denoms, origins : Nat, black : BOOLEAN,
              art : Arts]
ComposeInput == [seed : Seeds, denom : Denoms, origins : Nat, art : Arts]
ComposeRecord == [denom : Denoms, origins : Nat, art : Arts,
                  ownerTokenFrom : 0 .. MaxMinted,
                  burned : SUBSET Ids, inputs : [Ids -> ComposeInput]]
SplitRecord == [parentSeed : Seeds, parentId : Ids, parentDenom : Denoms,
                originDenom : Denoms, parentArt : Arts]
SplitOriginRef == [exists : BOOLEAN, recordIndex : Nat, childIndex : Nat]

\* What `delete` leaves in a mapping.
Blank == [seed |-> <<>>, denom |-> 0, origins |-> 0, black |-> FALSE,
          art |-> BlankArt]
BlankInput == [seed |-> <<>>, denom |-> 0, origins |-> 0, art |-> BlankArt]
NoRef == [exists |-> FALSE, recordIndex |-> 0, childIndex |-> 0]

Live == {i \in Ids : owners[i] # NoOne}
IsLive(i) == owners[i] # NoOne

\* backingOf: a Black Shape redeems for nothing.
BackingOf(i) == IF shapes[i].black THEN 0 ELSE Units[shapes[i].denom]
Backings == [i \in Ids |-> BackingOf(i)]
FaceUnits == [i \in Ids |-> Units[shapes[i].denom]]
OriginCounts == [i \in Ids |-> shapes[i].origins]

Last(s) == s[Len(s)]
\* Fault: the record is not popped.
FrontKept(s) == s
Front(s) == SubSeq(s, 1, Len(s) - 1)

-----------------------------------------------------------------------------
(* The ERC-721 layer: _update moves owners and, for a token that had an    *)
(* owner, clears its approval.                                             *)

\* _mint reverts for the zero address and for an id that already has an owner.
Mintable(S, to) == to # NoOne /\ \A i \in S : owners[i] = NoOne

\* Fault: the approval of a burned token is kept.
UpdateOwnersNotApprovals(Out, In, to) ==
    /\ owners' = [i \in Ids |-> IF i \in In THEN to
                                ELSE IF i \in Out THEN NoOne
                                ELSE owners[i]]
    /\ UNCHANGED <<approvals, operatorApprovals>>

\* _burn every token of Out, then _mint every token of In to `to`.
UpdateOwners(Out, In, to) ==
    /\ owners' = [i \in Ids |-> IF i \in In THEN to
                                ELSE IF i \in Out THEN NoOne
                                ELSE owners[i]]
    /\ approvals' = [i \in Ids |-> IF i \in Out THEN NoOne ELSE approvals[i]]
    /\ UNCHANGED operatorApprovals

\* _isAuthorized
Authorised(caller, i) ==
    \/ caller = owners[i]
    \/ <<owners[i], caller>> \in operatorApprovals
    \/ caller = approvals[i]

\* Fault: a Black Shape passes for a live one.
CallerOwnsAny(caller, i) == owners[i] = caller

\* RecompositionOps.requireLiveOwner, behind ERC721.ownerOf
CallerOwnsLive(caller, i) ==
    /\ owners[i] = caller
    /\ ~shapes[i].black

-----------------------------------------------------------------------------
(* Construction.                                                           *)

GenesisShape == [seed |-> <<0>>, denom |-> 0, origins |-> 1, black |-> FALSE,
                 art |-> MintArt[0]]

Init ==
    /\ owners = [i \in Ids |-> IF i = 0 THEN Deployer ELSE NoOne]
    /\ approvals = [i \in Ids |-> NoOne]
    /\ operatorApprovals = {}
    /\ shapes = [i \in Ids |-> IF i = 0 THEN GenesisShape ELSE Blank]
    /\ composeStack = [i \in Ids |-> <<>>]
    /\ splitRecords = <<>>
    /\ splitOriginRef = [i \in Ids |-> NoRef]
    /\ totalSupply = 1
    /\ totalMinted = 1
    /\ redeemableBacking = Units[0]
    /\ burnedBacking = 0
    /\ blackShapeCount = 0
    /\ ownerToken = 1
    /\ mintFee \in 0 .. MaxMintFee
    /\ feeRecipient \in Candidates \cup {Deployer}
    /\ feesOwed = [a \in Accounts |-> 0]
    /\ totalFeesOwed = 0
    /\ admin = Deployer
    /\ mintOpen = FALSE
    /\ ethBalance = Units[0]
    /\ forcedEth = 0
    /\ directMints = 1
    /\ originsRedeemed = 0

-----------------------------------------------------------------------------
(* Minting and fees.                                                       *)

\* Fault: ids are numbered from one.
NextIdsFromOne(q) == totalMinted + 1 .. totalMinted + q

\* Fault: ids are numbered by the supply.
NextIdsBySupply(q) == totalSupply .. totalSupply + q - 1

\* The next q ids.
NextIds(q) == totalMinted .. totalMinted + q - 1

MintedShape(i, d) == [seed |-> <<i>>, denom |-> d, origins |-> 1,
                      black |-> FALSE, art |-> MintArt[i]]

\* Fault: the sum of the fees is not kept.
AccrueFeesNotTotal(fees) ==
    /\ feesOwed' = [feesOwed EXCEPT ![feeRecipient] = @ + fees]
    /\ UNCHANGED totalFeesOwed

\* Fault: a mint overwrites what is owed.
AccrueFeesOverwriting(fees) ==
    /\ feesOwed' = [feesOwed EXCEPT ![feeRecipient] = fees]
    /\ totalFeesOwed' = totalFeesOwed + fees

\* Fees go to the recipient of the moment, outside the reserve.
AccrueFees(fees) ==
    /\ feesOwed' = [feesOwed EXCEPT ![feeRecipient] = @ + fees]
    /\ totalFeesOwed' = totalFeesOwed + fees

\* mint, mintTo, mintBatch, mintBatchTo: the payment is exactly backing + fees.
MintBatch(d, q, to) ==
    LET ids == NextIds(q)
        backing == SumOver([i \in Ids |-> Units[d]], ids)
        fees == mintFee * q
    IN  /\ mintOpen
        /\ totalMinted + q <= MaxMinted
        /\ Mintable(ids, to)
        /\ totalMinted' = totalMinted + q
        /\ totalSupply' = totalSupply + q
        /\ redeemableBacking' = redeemableBacking + backing
        /\ ethBalance' = ethBalance + backing + fees
        /\ AccrueFees(fees)
        /\ shapes' = [i \in Ids |-> IF i \in ids THEN MintedShape(i, d)
                                    ELSE shapes[i]]
        /\ UpdateOwners({}, ids, to)
        /\ directMints' = directMints + q
        /\ UNCHANGED <<composeStack, splitRecords, splitOriginRef,
                       burnedBacking, blackShapeCount, forcedEth, ownerToken,
                       configVars, originsRedeemed>>

\* withdrawFees: anyone may have a recipient's own balance paid to it.
WithdrawFees(recipient) ==
    LET amount == feesOwed[recipient]
    IN  /\ amount # 0
        /\ amount <= totalFeesOwed
        /\ amount <= ethBalance
        /\ feesOwed' = [feesOwed EXCEPT ![recipient] = 0]
        /\ totalFeesOwed' = totalFeesOwed - amount
        /\ ethBalance' = ethBalance - amount
        /\ UNCHANGED <<erc721Vars, storeVars, redeemableBacking, burnedBacking,
                       blackShapeCount, forcedEth, configVars, historyVars,
                       ownerToken>>

-----------------------------------------------------------------------------
(* Redemption.                                                             *)

\* Fault: burn refuses a Black Shape as redeem does.
MayRedeemUnlessBlack(caller, i, allowBlack) ==
    owners[i] = caller /\ ~shapes[i].black

\* _burnForRedemption of each token of S: what its owner may burn.
MayRedeem(caller, i, allowBlack) ==
    /\ owners[i] = caller
    /\ shapes[i].black => allowBlack

\* Fault: redemption forgets the owner token.
OwnerTokenKeptByRedeeming(S) == ownerToken

\* Clearing the owner token ends collection ownership.
OwnerTokenAfterRedeeming(S) == IF ownerToken - 1 \in S THEN 0 ELSE ownerToken

\* _redeemTo and _redeemBatchTo.  A subtraction that would go below zero, and a
\* payment the balance does not cover, revert.
RedeemSet(caller, S, allowBlack) ==
    LET amount == SumOver(Backings, S)
        blacks == Cardinality({i \in S : shapes[i].black})
    IN  /\ \A i \in S : MayRedeem(caller, i, allowBlack)
        /\ blacks <= blackShapeCount
        /\ Cardinality(S) <= totalSupply
        /\ amount <= redeemableBacking
        /\ amount <= ethBalance
        /\ blackShapeCount' = blackShapeCount - blacks
        /\ totalSupply' = totalSupply - Cardinality(S)
        /\ redeemableBacking' = redeemableBacking - amount
        /\ ethBalance' = ethBalance - amount
        /\ ownerToken' = OwnerTokenAfterRedeeming(S)
        /\ shapes' = [i \in Ids |-> IF i \in S THEN Blank ELSE shapes[i]]
        /\ UpdateOwners(S, {}, NoOne)
        /\ originsRedeemed' = originsRedeemed + SumOver(OriginCounts, S)
        /\ UNCHANGED <<composeStack, splitRecords, splitOriginRef, totalMinted,
                       burnedBacking, forcedEth, feeVars, configVars,
                       directMints>>

Redeem(caller, i) == RedeemSet(caller, {i}, FALSE)
Burn(caller, i) == RedeemSet(caller, {i}, TRUE)
RedeemBatch(caller, S) == S # {} /\ RedeemSet(caller, S, FALSE)

\* An apex Complete Shape gives its backing up and turns Black.
BurnBacking(caller, i) ==
    /\ CallerOwnsLive(caller, i)
    /\ shapes[i].denom = Apex
    /\ shapes[i].origins = Units[Apex]
    /\ Units[Apex] <= redeemableBacking
    /\ Units[Apex] <= ethBalance
    /\ shapes' = [shapes EXCEPT ![i].black = TRUE]
    /\ redeemableBacking' = redeemableBacking - Units[Apex]
    /\ burnedBacking' = burnedBacking + Units[Apex]
    /\ blackShapeCount' = blackShapeCount + 1
    /\ ethBalance' = ethBalance - Units[Apex]
    /\ UNCHANGED <<erc721Vars, composeStack, splitRecords, splitOriginRef,
                   totalSupply, totalMinted, forcedEth, feeVars, configVars,
                   historyVars, ownerToken>>

-----------------------------------------------------------------------------
(* Recomposition.                                                          *)

\* The state of a token that the record of its compose keeps.
SnapshotOf(i) == [seed |-> shapes[i].seed, denom |-> shapes[i].denom,
                  origins |-> shapes[i].origins, art |-> shapes[i].art]

\* A snapshot written back: only tokens that were not Black are ever recorded.
Revived(input) == [seed |-> input.seed, denom |-> input.denom,
                   origins |-> input.origins, black |-> FALSE,
                   art |-> input.art]

\* Fault: the inputs of a compose need not be the caller's.
MayComposeOthers(caller, s, burnIds) ==
    /\ burnIds # {}
    /\ CallerOwnsLive(caller, s)
    /\ \A b \in burnIds : b # s /\ ~shapes[b].black

\* requireLiveOwner on the survivor, requireComposeInput on every input.
MayCompose(caller, s, burnIds) ==
    /\ burnIds # {}
    /\ CallerOwnsLive(caller, s)
    /\ \A b \in burnIds : b # s /\ CallerOwnsLive(caller, b)

\* Fault: every record claims the owner token.
OwnerTokenFromAll(burnIds) == ownerToken

\* The owner token's id plus one when an input of this compose holds it.
OwnerTokenFrom(burnIds) ==
    IF ownerToken - 1 \in burnIds THEN ownerToken ELSE 0

\* Fault: the owner token stays on the input.
OwnerTokenLeftByCompose(s, burnIds) == ownerToken

OwnerTokenAfterCompose(s, burnIds) ==
    IF ownerToken - 1 \in burnIds THEN s + 1 ELSE ownerToken

\* Fault: the record is taken after the origins are folded.
RecordOfFolded(s, burnIds) ==
    [denom |-> shapes[s].denom,
     origins |-> SumOver(OriginCounts, burnIds \cup {s}),
     art |-> shapes[s].art, ownerTokenFrom |-> OwnerTokenFrom(burnIds),
     burned |-> burnIds,
     inputs |-> [b \in Ids |-> IF b \in burnIds THEN SnapshotOf(b)
                               ELSE BlankInput]]

RecordOf(s, burnIds) ==
    [denom |-> shapes[s].denom, origins |-> shapes[s].origins,
     art |-> shapes[s].art, ownerTokenFrom |-> OwnerTokenFrom(burnIds),
     burned |-> burnIds,
     inputs |-> [b \in Ids |-> IF b \in burnIds THEN SnapshotOf(b)
                               ELSE BlankInput]]

\* Fault: the survivor keeps its own origin count.
ComposedOwnOrigins(s, burnIds, d) == [shapes[s] EXCEPT !.denom = d]

\* The survivor keeps its seed; the rest is folded from all donors.
Composed(s, burnIds, d) ==
    [shapes[s] EXCEPT
        !.denom = d,
        !.origins = SumOver(OriginCounts, burnIds \cup {s}),
        !.art = ComposeArt[<<shapes[s].art,
                             {shapes[b].art : b \in burnIds}, d>>]]

Compose(caller, s, burnIds) ==
    /\ MayCompose(caller, s, burnIds)
    /\ \E d \in Denoms :
          /\ Units[d] = SumOver(FaceUnits, burnIds \cup {s})
          /\ shapes' = [i \in Ids |-> IF i = s THEN Composed(s, burnIds, d)
                                      ELSE IF i \in burnIds THEN Blank
                                      ELSE shapes[i]]
    /\ composeStack' = [composeStack EXCEPT
                            ![s] = Append(@, RecordOf(s, burnIds))]
    /\ Cardinality(burnIds) <= totalSupply
    /\ totalSupply' = totalSupply - Cardinality(burnIds)
    /\ ownerToken' = OwnerTokenAfterCompose(s, burnIds)
    /\ UpdateOwners(burnIds, {}, NoOne)
    /\ UNCHANGED <<splitRecords, splitOriginRef, totalMinted, reserveVars,
                   feeVars, configVars, historyVars>>

\* Fault: the survivor keeps its denomination.
UncomposedKeepingDenom(s, rec) ==
    [i \in Ids |->
        IF i = s THEN [shapes[s] EXCEPT !.origins = rec.origins]
        ELSE IF i \in rec.burned THEN Revived(rec.inputs[i])
        ELSE shapes[i]]

\* Fault: the survivor keeps the art of the compose.
UncomposedKeepingArt(s, rec) ==
    [i \in Ids |->
        IF i = s THEN [shapes[s] EXCEPT !.denom = rec.denom,
                                        !.origins = rec.origins]
        ELSE IF i \in rec.burned THEN Revived(rec.inputs[i])
        ELSE shapes[i]]

\* What decompose writes into _store.shapes from the top record of s.
Uncomposed(s, rec) ==
    [i \in Ids |->
        IF i = s THEN [shapes[s] EXCEPT !.denom = rec.denom,
                                        !.origins = rec.origins,
                                        !.art = rec.art]
        ELSE IF i \in rec.burned THEN Revived(rec.inputs[i])
        ELSE shapes[i]]

OwnerTokenAfterDecompose(rec) ==
    IF rec.ownerTokenFrom # 0 THEN rec.ownerTokenFrom ELSE ownerToken

Decompose(caller, s, to) ==
    /\ CallerOwnsLive(caller, s)
    /\ composeStack[s] # <<>>
    /\ LET rec == Last(composeStack[s])
       IN  /\ Mintable(rec.burned, to)
           /\ shapes' = Uncomposed(s, rec)
           /\ composeStack' = [composeStack EXCEPT ![s] = Front(@)]
           /\ totalSupply' = totalSupply + Cardinality(rec.burned)
           /\ ownerToken' = OwnerTokenAfterDecompose(rec)
           /\ UpdateOwners({}, rec.burned, to)
    /\ UNCHANGED <<splitRecords, splitOriginRef, totalMinted, reserveVars,
                   feeVars, configVars, historyVars>>

\* allocateSplitOrigins: each output in turn is filled to its capacity.
Capacities(out) == [k \in DOMAIN out |-> Units[out[k]]]

\* Fault: each output counts its own capacity as filled.
AllocateSplitOriginsLate(origins, out) ==
    [k \in DOMAIN out |->
        LET filled == SumOver(Capacities(out), 1 .. k)
        IN  IF filled >= origins THEN 0
            ELSE IF origins - filled < Units[out[k]] THEN origins - filled
            ELSE Units[out[k]]]

AllocateSplitOrigins(origins, out) ==
    [k \in DOMAIN out |->
        LET filled == SumOver(Capacities(out), 1 .. k - 1)
        IN  IF filled >= origins THEN 0
            ELSE IF origins - filled < Units[out[k]] THEN origins - filled
            ELSE Units[out[k]]]

\* requireSplitSumMatches
SplitSumMatches(i, out) ==
    SumOver(Capacities(out), DOMAIN out) = Units[shapes[i].denom]

\* assert(remaining == 0)
SplitExhausts(i, out) ==
    SumOver(AllocateSplitOrigins(shapes[i].origins, out), DOMAIN out)
        = shapes[i].origins

\* The arts a split samples from: the donors of the parent's top record, or
\* none when grammar v1 supplies the pool.
SplitPool(i) ==
    IF composeStack[i] = <<>> THEN {}
    ELSE LET rec == Last(composeStack[i])
         IN  {rec.art} \cup {rec.inputs[j].art : j \in rec.burned}

\* Fault: each split starts a line of its own.
OriginDenomOfParent(i) == shapes[i].denom

\* The denomination of the root split ancestor carries across later splits.
OriginDenom(i) ==
    IF splitOriginRef[i].exists
    THEN splitRecords[splitOriginRef[i].recordIndex + 1].originDenom
    ELSE shapes[i].denom

SplitRecordOf(i) ==
    [parentSeed |-> shapes[i].seed, parentId |-> i,
     parentDenom |-> shapes[i].denom, originDenom |-> OriginDenom(i),
     parentArt |-> shapes[i].art]

\* Fault: every child has its parent's seed.
ChildShapeSameSeed(i, out, c) ==
    LET k == c - totalMinted
    IN  [seed |-> shapes[i].seed, denom |-> out[k + 1],
         origins |-> AllocateSplitOrigins(shapes[i].origins, out)[k + 1],
         black |-> FALSE,
         art |-> SplitArt[<<shapes[i].art, SplitPool(i), out[k + 1], k>>]]

\* Child c, at index c - totalMinted among the children of i.
ChildShape(i, out, c) ==
    LET k == c - totalMinted
    IN  [seed |-> Append(shapes[i].seed, k), denom |-> out[k + 1],
         origins |-> AllocateSplitOrigins(shapes[i].origins, out)[k + 1],
         black |-> FALSE,
         art |-> SplitArt[<<shapes[i].art, SplitPool(i), out[k + 1], k>>]]

\* Fault: the record's index is read after the record is written.
ChildRefLate(c) == [exists |-> TRUE, recordIndex |-> Len(splitRecords) + 1,
                    childIndex |-> c - totalMinted]

ChildRef(c) == [exists |-> TRUE, recordIndex |-> Len(splitRecords),
                childIndex |-> c - totalMinted]

OwnerTokenAfterSplit(i) ==
    IF ownerToken - 1 = i THEN totalMinted + 1 ELSE ownerToken

Split(caller, i, out, to) ==
    LET children == NextIds(Len(out))
    IN  /\ Len(out) >= 2
        /\ totalMinted + Len(out) <= MaxMinted
        /\ CallerOwnsLive(caller, i)
        /\ SplitSumMatches(i, out)
        /\ SplitExhausts(i, out)
        /\ Mintable(children, to)
        /\ shapes' = [c \in Ids |-> IF c \in children THEN ChildShape(i, out, c)
                                    ELSE IF c = i THEN Blank
                                    ELSE shapes[c]]
        /\ splitRecords' = Append(splitRecords, SplitRecordOf(i))
        /\ splitOriginRef' = [c \in Ids |-> IF c \in children THEN ChildRef(c)
                                            ELSE splitOriginRef[c]]
        /\ totalMinted' = totalMinted + Len(out)
        /\ totalSupply' = totalSupply + Len(out) - 1
        /\ ownerToken' = OwnerTokenAfterSplit(i)
        /\ UpdateOwners({i}, children, to)
        /\ UNCHANGED <<composeStack, reserveVars, feeVars, configVars,
                       historyVars>>

-----------------------------------------------------------------------------
(* ERC-721 transfers and approvals, which no reentrancy guard covers.      *)

TransferFrom(caller, i, to) ==
    /\ IsLive(i)
    /\ Authorised(caller, i)
    /\ owners' = [owners EXCEPT ![i] = to]
    /\ approvals' = [approvals EXCEPT ![i] = NoOne]
    /\ UNCHANGED <<operatorApprovals, storeVars, reserveVars, feeVars,
                   configVars, historyVars, ownerToken>>

Approve(caller, i, operator) ==
    /\ IsLive(i)
    /\ caller = owners[i] \/ <<owners[i], caller>> \in operatorApprovals
    /\ approvals' = [approvals EXCEPT ![i] = operator]
    /\ UNCHANGED <<owners, operatorApprovals, storeVars, reserveVars, feeVars,
                   configVars, historyVars, ownerToken>>

SetApprovalForAll(caller, operator, approved) ==
    /\ operatorApprovals' = IF approved
                            THEN operatorApprovals \cup {<<caller, operator>>}
                            ELSE operatorApprovals \ {<<caller, operator>>}
    /\ UNCHANGED <<owners, approvals, storeVars, reserveVars, feeVars,
                   configVars, historyVars, ownerToken>>

-----------------------------------------------------------------------------
(* Administration of the fee and of the admin role, and the environment.   *)

TransferAdmin(caller, newAdmin) ==
    /\ caller = admin
    /\ admin' = newAdmin
    /\ UNCHANGED <<erc721Vars, storeVars, reserveVars, feeVars, mintFee,
                   feeRecipient, mintOpen, historyVars, ownerToken>>

RenounceAdmin(caller) == TransferAdmin(caller, NoOne)

SetFeeRecipient(caller, newRecipient) ==
    /\ caller = admin
    /\ feeRecipient' = newRecipient
    /\ UNCHANGED <<erc721Vars, storeVars, reserveVars, feeVars, mintFee, admin,
                   mintOpen, historyVars, ownerToken>>

SetMintFee(caller, newFee) ==
    /\ caller = admin
    /\ newFee <= MaxMintFee
    /\ mintFee' = newFee
    /\ UNCHANGED <<erc721Vars, storeVars, reserveVars, feeVars, feeRecipient,
                   admin, mintOpen, historyVars, ownerToken>>

\* Block time reaches the immutable mintStart.
OpenMint ==
    /\ ~mintOpen
    /\ mintOpen' = TRUE
    /\ UNCHANGED <<erc721Vars, storeVars, reserveVars, feeVars, mintFee,
                   feeRecipient, admin, historyVars, ownerToken>>

\* ETH from a selfdestruct or a block reward, which receive() cannot refuse.
ForceEth ==
    /\ forcedEth < MaxForced
    /\ forcedEth' = forcedEth + 1
    /\ ethBalance' = ethBalance + 1
    /\ UNCHANGED <<erc721Vars, storeVars, redeemableBacking, burnedBacking,
                   blackShapeCount, feeVars, configVars, historyVars,
                   ownerToken>>

-----------------------------------------------------------------------------
(* The steps `caller` may take, grouped as the lemmas of ShapesProofs take *)
(* them, and the specification.                                            *)

\* The output lists that fit in the ids left.
OutputLists == UNION {[1 .. k -> Denoms] : k \in 1 .. MaxMinted - totalMinted}

HolderStep(caller) ==
    \/ \E i \in Ids : Redeem(caller, i)
    \/ \E i \in Ids : Burn(caller, i)
    \/ \E S \in SUBSET Live : RedeemBatch(caller, S)
    \/ \E i \in Ids : BurnBacking(caller, i)
    \/ \E s \in Ids, burnIds \in SUBSET Live : Compose(caller, s, burnIds)
    \/ \E s \in Ids, to \in Accounts : Decompose(caller, s, to)
    \/ \E i \in Ids, out \in OutputLists, to \in Accounts :
          Split(caller, i, out, to)

TokenStep(caller) ==
    \/ \E i \in Ids, to \in Accounts : TransferFrom(caller, i, to)
    \/ \E i \in Ids, operator \in Operators \cup {NoOne} :
          Approve(caller, i, operator)
    \/ \E operator \in Operators, approved \in BOOLEAN :
          SetApprovalForAll(caller, operator, approved)

AdminStep(caller) ==
    /\ Candidates # {}
    /\ \/ \E newAdmin \in Candidates : TransferAdmin(caller, newAdmin)
       \/ RenounceAdmin(caller)
       \/ \E newRecipient \in Candidates : SetFeeRecipient(caller, newRecipient)
       \/ \E newFee \in 0 .. MaxMintFee + 1 : SetMintFee(caller, newFee)

OpenStep ==
    \/ \E d \in Denoms, q \in 1 .. MaxMinted, to \in Accounts :
          MintBatch(d, q, to)
    \/ \E recipient \in Accounts : WithdrawFees(recipient)
    \/ OpenMint
    \/ ForceEth

Next ==
    \/ \E caller \in Accounts : HolderStep(caller)
    \/ \E caller \in Accounts : TokenStep(caller)
    \/ \E caller \in Accounts : AdminStep(caller)
    \/ OpenStep

Spec == Init /\ [][Next]_vars

=============================================================================
