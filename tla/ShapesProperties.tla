-------------------------- MODULE ShapesProperties --------------------------
(***************************************************************************)
(* What Shapes promises: the reserve, the compose records, the owner       *)
(* token, provenance, fees and authority.                                  *)
(***************************************************************************)
EXTENDS Shapes

\* Every variable holds a value of the storage type it models.
TypeOK ==
    /\ owners \in [Ids -> Accounts \cup {NoOne}]
    /\ approvals \in [Ids -> Accounts \cup {NoOne}]
    /\ operatorApprovals \subseteq Accounts \X Accounts
    /\ shapes \in [Ids -> ShapeData]
    /\ composeStack \in [Ids -> Seq(ComposeRecord)]
    /\ splitRecords \in Seq(SplitRecord)
    /\ splitOriginRef \in [Ids -> SplitOriginRef]
    /\ \A i \in Ids : splitOriginRef[i].exists =>
                          splitOriginRef[i].recordIndex < Len(splitRecords)
    /\ totalSupply \in Nat
    /\ totalMinted \in 0 .. MaxMinted
    /\ redeemableBacking \in Nat
    /\ burnedBacking \in Nat
    /\ blackShapeCount \in Nat
    /\ ownerToken \in 0 .. MaxMinted
    /\ mintFee \in 0 .. MaxMintFee
    /\ feeRecipient \in Accounts
    /\ feesOwed \in [Accounts -> Nat]
    /\ totalFeesOwed \in Nat
    /\ admin \in Accounts \cup {NoOne}
    /\ mintOpen \in BOOLEAN
    /\ ethBalance \in Nat
    /\ forcedEth \in Nat
    /\ directMints \in Nat
    /\ originsRedeemed \in Nat

-----------------------------------------------------------------------------
(* The compose records.                                                    *)

\* A place is a survivor and a depth of its stack, counted from one.
Places == UNION {{s} \X (1 .. Len(composeStack[s])) : s \in Ids}
RecordAt(p) == composeStack[p[1]][p[2]]
HeldAt(p) == RecordAt(p).burned
HeldIds == UNION {HeldAt(p) : p \in Places}

\* The units and origins a decompose of this record hands back.
InputUnits(rec) == [i \in Ids |-> Units[rec.inputs[i].denom]]
InputOrigins(rec) == [i \in Ids |-> rec.inputs[i].origins]
RecordUnits(rec) ==
    Units[rec.denom] + SumOver(InputUnits(rec), rec.burned)
RecordOrigins(rec) ==
    rec.origins + SumOver(InputOrigins(rec), rec.burned)

\* Undoing rec takes a token of denomination d and origin count n apart exactly.
Undoes(rec, d, n) == RecordUnits(rec) = Units[d] /\ RecordOrigins(rec) = n

-----------------------------------------------------------------------------
(* The reserve.                                                            *)

\* totalSupply is the number of tokens with an owner, and every token with an
\* owner has an id that the counter has passed.
SupplyCountsLiveShapes ==
    /\ totalSupply = Cardinality(Live)
    /\ \A i \in Live : i < totalMinted

\* redeemableBacking is exactly what the live Shapes redeem for, through any
\* sequence of mints, composes, decomposes, splits, redemptions and burns of
\* backing.
ReserveBacksLiveShapes == redeemableBacking = SumOver(Backings, Live)

\* The contract's ETH is the reserve, the fees not yet withdrawn and whatever
\* was forced in; no path spends one out of another.
BalanceCoversObligations ==
    ethBalance = redeemableBacking + totalFeesOwed + forcedEth

\* Every live Shape can be burned by its holder, and redeemed unless it is
\* Black: no counter underflows, the balance suffices and no state locks it.
ExitAlwaysOpen ==
    \A i \in Live : /\ ENABLED Burn(owners[i], i)
                    /\ ~shapes[i].black => ENABLED Redeem(owners[i], i)

\* Direct mints are neither created nor lost by recomposition: the live origin
\* counts and those redeemed add up to the ShapeMinted events.
OriginsConserved ==
    SumOver(OriginCounts, Live) + originsRedeemed = directMints

\* The assertion that ends allocateSplitOrigins cannot fail for any output list
\* that requireSplitSumMatches accepts.
SplitNeverPanics ==
    \A i \in Live : \A out \in OutputLists :
        SplitSumMatches(i, out) => SplitExhausts(i, out)

\* blackShapeCount counts the live Black Shapes, each of which was Complete at
\* the apex, and at least their backing has been burned.
BlackShapesAccounted ==
    LET blacks == {i \in Live : shapes[i].black}
    IN  /\ blackShapeCount = Cardinality(blacks)
        /\ \A i \in blacks : /\ shapes[i].denom = Apex
                             /\ shapes[i].origins = Units[Apex]
        /\ burnedBacking >= Units[Apex] * blackShapeCount

-----------------------------------------------------------------------------
(* Compose, decompose and split over time.                                 *)

\* A token that a record would re-mint has no owner, was issued before, and is
\* held by that record alone, so decompose never collides with a live token.
HeldShapesAreDeadAndUnique ==
    /\ \A p \in Places : \A i \in HeldAt(p) : ~IsLive(i) /\ i < totalMinted
    /\ \A p, q \in Places : p # q => HeldAt(p) \cap HeldAt(q) = {}

\* Every record, wherever it lies in a stack or a nest of stacks, undoes exactly
\* the state that the record above it, the live token, or the record holding
\* the token shows.
RecordsConserve ==
    /\ \A s \in Ids : \A k \in 1 .. Len(composeStack[s]) - 1 :
          Undoes(composeStack[s][k], composeStack[s][k + 1].denom,
                                     composeStack[s][k + 1].origins)
    /\ \A s \in Live : composeStack[s] # <<>> =>
          Undoes(Last(composeStack[s]), shapes[s].denom, shapes[s].origins)
    /\ \A p \in Places : \A i \in HeldAt(p) : composeStack[i] # <<>> =>
          LET input == RecordAt(p).inputs[i]
          IN  Undoes(Last(composeStack[i]), input.denom, input.origins)

\* The holder of a composed Shape that is not Black can always take its newest
\* compose apart, whatever happened to other tokens since.
UndoAlwaysOpen ==
    \A s \in Live :
        ~shapes[s].black /\ composeStack[s] # <<>> =>
            ENABLED Decompose(owners[s], s, owners[s])

\* An id that is neither live nor held by a record was redeemed or split, and
\* never has an owner again.
DeadEndsStayDead ==
    [][\A i \in Ids : i < totalMinted /\ ~IsLive(i) /\ i \notin HeldIds
           => owners'[i] = NoOne]_vars

\* No two tokens, live or held, share a seed, so none shares its artwork input.
SeedsDistinct ==
    LET known == {<<i, shapes[i].seed>> : i \in Live} \cup
                 UNION {{<<i, RecordAt(p).inputs[i].seed>> : i \in HeldAt(p)} :
                            p \in Places}
    IN  \A a, b \in known : a[2] = b[2] => a = b

\* The split reference of a token outlives later composes and decomposes of it:
\* its seed still extends the recorded parent's, the parent is gone for good,
\* and the recorded origin is that of the first split in its line.
SplitProvenance ==
    \A c \in Ids : splitOriginRef[c].exists =>
        LET ref == splitOriginRef[c]
            rec == splitRecords[ref.recordIndex + 1]
            up == splitOriginRef[rec.parentId]
            childSeed == Append(rec.parentSeed, ref.childIndex)
        IN  /\ IsLive(c) => shapes[c].seed = childSeed
            /\ \A p \in Places : c \in HeldAt(p) =>
                   RecordAt(p).inputs[c].seed = childSeed
            /\ ~IsLive(rec.parentId) /\ rec.parentId \notin HeldIds
            /\ rec.originDenom =
                   IF up.exists THEN splitRecords[up.recordIndex + 1].originDenom
                   ELSE rec.parentDenom

\* The art of a compose, sampled again from what its record kept.
Resampled(rec, d) ==
    ComposeArt[<<rec.art, {rec.inputs[b].art : b \in rec.burned}, d>>]

\* The reconstruction recipes of SAMPLING_SPEC.md hold: sampling again from a
\* record gives the art above it, of the live token or of the next record, and
\* sampling again from a split record and the stack its burned parent left
\* behind gives the art of a child, until that child is composed.
ArtReconstructs ==
    /\ \A s \in Live : composeStack[s] # <<>> =>
          shapes[s].art = Resampled(Last(composeStack[s]), shapes[s].denom)
    /\ \A s \in Ids : \A k \in 1 .. Len(composeStack[s]) - 1 :
          LET above == composeStack[s][k + 1]
          IN  above.art = Resampled(composeStack[s][k], above.denom)
    /\ \A c \in Live : splitOriginRef[c].exists /\ composeStack[c] = <<>> =>
          LET ref == splitOriginRef[c]
              rec == splitRecords[ref.recordIndex + 1]
          IN  shapes[c].art = SplitArt[<<rec.parentArt, SplitPool(rec.parentId),
                                         shapes[c].denom, ref.childIndex>>]

-----------------------------------------------------------------------------
(* The owner token.                                                        *)

\* The owner token, while there is one, is a token somebody holds: owner() is
\* never zero because ownership was left on a burned id.
OwnerTokenLive == ownerToken # 0 => \E i \in Live : ownerToken = i + 1

\* A record that took collection ownership from an input can give it back: the
\* input is in that record, no other record of the stack holds a claim, the
\* survivor holds ownership while it lives, and a survivor absorbed later
\* passed ownership on through the record that holds it.
OwnerReturnPath ==
    \A p \in Places : RecordAt(p).ownerTokenFrom # 0 =>
        /\ RecordAt(p).ownerTokenFrom - 1 \in HeldAt(p)
        /\ IsLive(p[1]) => ownerToken = p[1] + 1
        /\ \A q \in Places :
              /\ q[1] = p[1] /\ RecordAt(q).ownerTokenFrom # 0 => q = p
              /\ p[1] \in HeldAt(q) => RecordAt(q).ownerTokenFrom = p[1] + 1

\* Redeeming the owner token ends collection ownership: no mint, split or
\* decompose brings an owner token back.
OwnerTokenEndIsFinal == [][ownerToken = 0 => ownerToken' = 0]_vars

-----------------------------------------------------------------------------
(* The inductive invariant.                                                *)

\* An id that was never issued has no record, so nothing is there to undo when
\* it is minted.
FreshIdsHaveNoRecords ==
    \A i \in Ids : i >= totalMinted => composeStack[i] = <<>>

\* Which tokens live, which are held, and where the owner token is.
Structure ==
    /\ SupplyCountsLiveShapes
    /\ HeldShapesAreDeadAndUnique
    /\ FreshIdsHaveNoRecords
    /\ OwnerTokenLive
    /\ OwnerReturnPath

\* What the tokens and the records are worth.
Conservation ==
    /\ RecordsConserve
    /\ ReserveBacksLiveShapes
    /\ OriginsConserved

\* The invariant that every step preserves by itself: the reserve needs the
\* records to be exact, the records need the held tokens to stay dead, and that
\* needs the counter to be ahead of every id in use.
Inductive == Structure /\ Conservation

-----------------------------------------------------------------------------
(* Authority and fees.                                                     *)

\* A live token changed hands, state or stack in this step.
Disturbed(i) == \/ owners'[i] # owners[i]
                \/ shapes'[i] # shapes[i]
                \/ composeStack'[i] # composeStack[i]

\* Nobody but its holder, or an operator the holder or an approval names, makes
\* a live token change hands, state or stack.
OnlyTheAuthorisedDisturb ==
    [][\A i \in Live : Disturbed(i) =>
          \A caller \in Accounts :
              Authorised(caller, i)
              \/ ~(HolderStep(caller) \/ TokenStep(caller))]_vars

\* A token approval never outlives the token: an id burned by compose and
\* re-minted by decompose comes back with no approval.
NoApprovalOnDeadId == \A i \in Ids : ~IsLive(i) => approvals[i] = NoOne

\* pendingFees is the sum of what each recipient is owed, across changes of
\* the recipient and of the fee.
FeesOwedAddUp == totalFeesOwed = SumOver(feesOwed, Accounts)

\* A recipient's fees fall only by being paid to it whole, out of the balance,
\* and no other recipient's fees move in that step.
FeesPaidWhole ==
    [][\A r \in Accounts : feesOwed'[r] < feesOwed[r] =>
          /\ feesOwed' = [feesOwed EXCEPT ![r] = 0]
          /\ ethBalance' = ethBalance - feesOwed[r]]_vars

-----------------------------------------------------------------------------
(* Statements of the documentation that the code does not keep.            *)

\* IShapes.sol: splitOriginOf reverts NotASplitChild for an input re-minted by
\* decompose.
RevivedInputsHaveNoSplitOrigin ==
    [][\A i \in HeldIds : owners'[i] # NoOne => ~splitOriginRef'[i].exists]_vars
=============================================================================
