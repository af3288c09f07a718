---------------------------- MODULE ShapesProofs ----------------------------
(***************************************************************************)
(* Theorems about Shapes for every ladder, every set of accounts and every *)
(* number of tokens.  First the types.  Then the structure: every step but *)
(* compose and decompose retires some live tokens, issues some fresh ids   *)
(* and leaves the records alone, and StructureByIssue covers them all.     *)
(* Then what is conserved: the reserve, the origin counts and the records  *)
(* are exact.  Decompose overwrites its survivor from a record, so the     *)
(* reserve rests on the records; a record stays right while it is buried   *)
(* because what it undoes (a live token, the record above it, or a held    *)
(* snapshot) cannot change under it, which is what the structure gives.    *)
(* On the same footing: the account of Black Shapes, the guards of every   *)
(* exit and undo, and the assertion that ends a split.                     *)
(***************************************************************************)
EXTENDS ShapesProperties, SumLemmas, SequenceTheorems, TLAPS

-----------------------------------------------------------------------------
(* Facts about the types.                                                  *)

\* The constants, as the proofs use them.
LEMMA ConstantTypes ==
    /\ MaxMinted \in Nat \ {0}
    /\ Apex \in Nat
    /\ 0 \in Ids
    /\ 0 \in Denoms
    /\ Apex \in Denoms
    /\ \A i \in Ids : i \in Nat /\ i < MaxMinted
    /\ \A d \in Denoms : Units[d] \in Nat \ {0}
    /\ Units[0] = 1
BY BoundsAssumption, LadderAssumption DEF Ids, Denoms

\* Every set of ids is finite.
LEMMA IdsFinite == \A S \in SUBSET Ids : IsFiniteSet(S)
<1>1. IsFiniteSet(Ids)
  BY FS_Interval, ConstantTypes DEF Ids
<1> QED
  BY <1>1, FS_Subset

\* Sums over sets of ids of functions into Nat are naturals.
LEMMA IdSumNat ==
    ASSUME NEW S \in SUBSET Ids, NEW f \in [Ids -> Nat]
    PROVE  SumOver(f, S) \in Nat
BY IdsFinite, SumNat

\* The functions of the state that are summed.
LEMMA SummandTypes ==
    ASSUME TypeOK
    PROVE  /\ Backings \in [Ids -> Nat]
           /\ FaceUnits \in [Ids -> Nat]
           /\ OriginCounts \in [Ids -> Nat]
BY ConstantTypes DEF TypeOK, ShapeData, Backings, BackingOf, FaceUnits, OriginCounts

\* Pushing a record.
LEMMA Pushed ==
    ASSUME NEW T, NEW s \in Seq(T), NEW x \in T
    PROVE  /\ Append(s, x) \in Seq(T)
           /\ Append(s, x) # <<>>
           /\ Len(Append(s, x)) = Len(s) + 1
           /\ Append(s, x)[Len(s) + 1] = x
           /\ \A k \in 1 .. Len(s) : Append(s, x)[k] = s[k]
OBVIOUS

\* Popping a record.
LEMMA Popped ==
    ASSUME NEW T, NEW s \in Seq(T), s # <<>>
    PROVE  /\ Last(s) \in T
           /\ Len(s) \in Nat \ {0}
           /\ Front(s) \in Seq(T)
           /\ Len(Front(s)) = Len(s) - 1
           /\ \A k \in 1 .. Len(s) - 1 : Front(s)[k] = s[k]
<1>1. Len(s) \in Nat \ {0}
  BY EmptySeq
<1>2. \A k \in 1 .. Len(s) : s[k] \in T
  BY ElementOfSeq
<1> DEFINE m == Len(s) - 1
<1>3. /\ SubSeq(s, 1, m) \in Seq(T)
      /\ Len(SubSeq(s, 1, m)) = IF 1 <= m THEN m - 1 + 1 ELSE 0
      /\ \A k \in 1 .. m - 1 + 1 : SubSeq(s, 1, m)[k] = s[1 + k - 1]
  <2>1. m \in Int
    BY <1>1
  <2>2. \A k \in 1 .. m : s[k] \in T
    BY <1>1, <1>2
  <2> HIDE DEF m
  <2> QED
    BY <2>1, <2>2, SubSeqProperties
<1>4. Front(s) = SubSeq(s, 1, m)
  BY DEF Front
<1>5. m \in Nat /\ m = Len(s) - 1
  BY <1>1
<1>6. Len(Front(s)) = m
  <2> HIDE DEF m
  <2> QED
    BY <1>3, <1>4, <1>5
<1>7. \A k \in 1 .. m : Front(s)[k] = s[k]
  <2> HIDE DEF m
  <2> QED
    BY <1>3, <1>4, <1>5
<1>8. Last(s) \in T
  BY <1>1, <1>2 DEF Last
<1>9. Front(s) \in Seq(T)
  BY <1>3, <1>4
<1> QED
  BY <1>1, <1>5, <1>6, <1>7, <1>8, <1>9

-----------------------------------------------------------------------------
(* Type correctness.                                                       *)

\* The constructor leaves a value of its type in every variable.
LEMMA InitType == Init => TypeOK
<1> SUFFICES ASSUME Init PROVE TypeOK
  OBVIOUS
<1>1. GenesisShape \in ShapeData /\ Blank \in ShapeData
  <2>1. MintArt[0] \in Arts /\ BlankArt \in Arts
    BY ArtAssumption, ConstantTypes
  <2>2. <<0>> \in Seq(Nat) /\ <<>> \in Seq(Nat)
    OBVIOUS
  <2> QED
    BY <2>1, <2>2, ConstantTypes DEF GenesisShape, Blank, ShapeData, Seeds
<1>2. shapes \in [Ids -> ShapeData]
  BY <1>1 DEF Init
<1>3. /\ composeStack \in [Ids -> Seq(ComposeRecord)]
      /\ splitRecords \in Seq(SplitRecord)
  BY DEF Init
<1>4. /\ splitOriginRef \in [Ids -> SplitOriginRef]
      /\ \A i \in Ids : ~splitOriginRef[i].exists
  BY DEF Init, NoRef, SplitOriginRef
<1>5. /\ owners \in [Ids -> Accounts \cup {NoOne}]
      /\ approvals \in [Ids -> Accounts \cup {NoOne}]
      /\ operatorApprovals \subseteq Accounts \X Accounts
  BY AccountsAssumption DEF Init
<1>6. /\ mintFee \in 0 .. MaxMintFee
      /\ feeRecipient \in Accounts
      /\ feesOwed \in [Accounts -> Nat]
      /\ admin \in Accounts \cup {NoOne}
      /\ mintOpen \in BOOLEAN
  BY AccountsAssumption DEF Init
<1>7. /\ totalSupply \in Nat /\ totalMinted \in 0 .. MaxMinted
      /\ redeemableBacking \in Nat /\ burnedBacking \in Nat
      /\ blackShapeCount \in Nat /\ ownerToken \in 0 .. MaxMinted
      /\ totalFeesOwed \in Nat /\ ethBalance \in Nat /\ forcedEth \in Nat
      /\ directMints \in Nat /\ originsRedeemed \in Nat
  BY ConstantTypes DEF Init
<1> QED
  BY <1>2, <1>3, <1>4, <1>5, <1>6, <1>7 DEF TypeOK

\* What UpdateOwners does to the ERC-721 variables.
LEMMA UpdateOwnersType ==
    ASSUME TypeOK, NEW Out, NEW In, NEW to \in Accounts \cup {NoOne},
           UpdateOwners(Out, In, to)
    PROVE  /\ owners' \in [Ids -> Accounts \cup {NoOne}]
           /\ approvals' \in [Ids -> Accounts \cup {NoOne}]
           /\ operatorApprovals' \subseteq Accounts \X Accounts
BY DEF TypeOK, UpdateOwners

\* A mint keeps the types: the new ids fit below MaxMinted.
LEMMA MintBatchType ==
    ASSUME TypeOK, NEW d \in Denoms, NEW q \in 1 .. MaxMinted,
           NEW to \in Accounts, MintBatch(d, q, to)
    PROVE  TypeOK'
<1> DEFINE backing == SumOver([i \in Ids |-> Units[d]], NextIds(q))
           fees == mintFee * q
<1>1. q \in Nat /\ totalMinted \in Nat /\ MaxMinted \in Nat
  BY ConstantTypes DEF TypeOK
<1>2. NextIds(q) \subseteq Ids
  BY <1>1 DEF NextIds, MintBatch, Ids
<1>3. backing \in Nat
  <2>1. [i \in Ids |-> Units[d]] \in [Ids -> Nat]
    BY ConstantTypes
  <2> QED
    BY <1>2, <2>1, IdSumNat
<1>4. fees \in Nat
  <2>1. mintFee \in Nat
    BY BoundsAssumption DEF TypeOK
  <2> QED
    BY <1>1, <2>1
<1>5. shapes' \in [Ids -> ShapeData]
  <2>1. ASSUME NEW i \in Ids
        PROVE  MintedShape(i, d) \in ShapeData
    <3>1. <<i>> \in Seq(Nat)
      BY ConstantTypes
    <3>2. MintArt[i] \in Arts
      BY ArtAssumption
    <3> QED
      BY <3>1, <3>2 DEF MintedShape, ShapeData, Seeds
  <2> QED
    BY <2>1 DEF MintBatch, TypeOK
<1>6. /\ owners' \in [Ids -> Accounts \cup {NoOne}]
      /\ approvals' \in [Ids -> Accounts \cup {NoOne}]
      /\ operatorApprovals' \subseteq Accounts \X Accounts
  BY UpdateOwnersType DEF MintBatch
<1>7. feesOwed' \in [Accounts -> Nat] /\ totalFeesOwed' \in Nat
  <2> HIDE DEF fees
  <2>1. AccrueFees(fees)
    BY DEF MintBatch, fees
  <2> QED
    BY <1>4, <2>1 DEF AccrueFees, TypeOK
<1>8. /\ totalMinted' \in 0 .. MaxMinted /\ totalSupply' \in Nat
      /\ redeemableBacking' \in Nat /\ ethBalance' \in Nat
      /\ directMints' \in Nat
  <2>1. /\ totalMinted' = totalMinted + q /\ totalMinted + q <= MaxMinted
        /\ totalSupply' = totalSupply + q
        /\ redeemableBacking' = redeemableBacking + backing
        /\ ethBalance' = ethBalance + backing + fees
        /\ directMints' = directMints + q
    BY DEF MintBatch
  <2> HIDE DEF backing, fees
  <2> QED
    BY <1>1, <1>3, <1>4, <2>1 DEF TypeOK
<1>9. UNCHANGED <<composeStack, splitRecords, splitOriginRef, burnedBacking,
                  blackShapeCount, forcedEth, ownerToken, mintFee,
                  feeRecipient, admin, mintOpen, originsRedeemed>>
  BY DEF MintBatch, configVars
<1> QED
  BY <1>5, <1>6, <1>7, <1>8, <1>9 DEF TypeOK

\* A redemption keeps the types: no checked subtraction goes below zero.
LEMMA RedeemSetType ==
    ASSUME TypeOK, NEW caller, NEW S \in SUBSET Ids, NEW allowBlack,
           RedeemSet(caller, S, allowBlack)
    PROVE  TypeOK'
<1> DEFINE amount == SumOver(Backings, S)
           blacks == Cardinality({i \in S : shapes[i].black})
<1>1. amount \in Nat /\ SumOver(OriginCounts, S) \in Nat
  BY SummandTypes, IdSumNat
<1>2. IsFiniteSet(S) /\ IsFiniteSet({i \in S : shapes[i].black})
  BY IdsFinite
<1>3. blacks \in Nat /\ Cardinality(S) \in Nat
  BY <1>2, FS_CardinalityType
<1>4. Blank \in ShapeData
  BY ArtAssumption, ConstantTypes, EmptySeq DEF Blank, ShapeData, Seeds
<1>5. shapes' \in [Ids -> ShapeData]
  BY <1>4 DEF RedeemSet, TypeOK
<1>6. /\ owners' \in [Ids -> Accounts \cup {NoOne}]
      /\ approvals' \in [Ids -> Accounts \cup {NoOne}]
      /\ operatorApprovals' \subseteq Accounts \X Accounts
  BY UpdateOwnersType DEF RedeemSet
<1>7. ownerToken' \in 0 .. MaxMinted
  BY ConstantTypes DEF RedeemSet, OwnerTokenAfterRedeeming, TypeOK
<1>8. /\ blackShapeCount' \in Nat /\ totalSupply' \in Nat
      /\ redeemableBacking' \in Nat /\ ethBalance' \in Nat
      /\ originsRedeemed' \in Nat
  <2>1. /\ blacks <= blackShapeCount /\ blackShapeCount' = blackShapeCount - blacks
        /\ Cardinality(S) <= totalSupply
        /\ totalSupply' = totalSupply - Cardinality(S)
        /\ amount <= redeemableBacking
        /\ redeemableBacking' = redeemableBacking - amount
        /\ amount <= ethBalance /\ ethBalance' = ethBalance - amount
        /\ originsRedeemed' = originsRedeemed + SumOver(OriginCounts, S)
    BY DEF RedeemSet
  <2> HIDE DEF amount, blacks
  <2> QED
    BY <1>1, <1>3, <2>1 DEF TypeOK
<1>9. UNCHANGED <<composeStack, splitRecords, splitOriginRef, totalMinted,
                  burnedBacking, forcedEth, feesOwed, totalFeesOwed, mintFee,
                  feeRecipient, admin, mintOpen, directMints>>
  BY DEF RedeemSet, feeVars, configVars
<1> QED
  BY <1>5, <1>6, <1>7, <1>8, <1>9 DEF TypeOK

\* burnBacking keeps the types.
LEMMA BurnBackingType ==
    ASSUME TypeOK, NEW caller, NEW i \in Ids, BurnBacking(caller, i)
    PROVE  TypeOK'
<1>1. Units[Apex] \in Nat
  BY ConstantTypes
<1>2. shapes' \in [Ids -> ShapeData]
  <2>1. [shapes[i] EXCEPT !.black = TRUE] \in ShapeData
    BY DEF TypeOK, ShapeData
  <2>2. shapes' = [shapes EXCEPT ![i] = [shapes[i] EXCEPT !.black = TRUE]]
    BY DEF BurnBacking
  <2> QED
    BY <2>1, <2>2 DEF TypeOK
<1>3. /\ redeemableBacking' \in Nat /\ burnedBacking' \in Nat
      /\ blackShapeCount' \in Nat /\ ethBalance' \in Nat
  <2> DEFINE u == Units[Apex]
  <2>1. /\ u <= redeemableBacking /\ redeemableBacking' = redeemableBacking - u
        /\ u <= ethBalance /\ ethBalance' = ethBalance - u
        /\ burnedBacking' = burnedBacking + u
        /\ blackShapeCount' = blackShapeCount + 1
    BY DEF BurnBacking
  <2>2. /\ redeemableBacking \in Nat /\ burnedBacking \in Nat
        /\ blackShapeCount \in Nat /\ ethBalance \in Nat /\ u \in Nat
    BY <1>1 DEF TypeOK
  <2> HIDE DEF u
  <2> QED
    BY <2>1, <2>2
<1>4. UNCHANGED <<owners, approvals, operatorApprovals, composeStack,
                  splitRecords, splitOriginRef, totalSupply, totalMinted,
                  forcedEth, feesOwed, totalFeesOwed, mintFee, feeRecipient,
                  admin, mintOpen, directMints, originsRedeemed, ownerToken>>
  BY DEF BurnBacking, erc721Vars, feeVars, configVars, historyVars
<1> QED
  BY <1>2, <1>3, <1>4 DEF TypeOK

\* A record pushed by compose has the type of a record.
LEMMA RecordType ==
    ASSUME TypeOK, NEW s \in Ids, NEW burnIds \in SUBSET Ids
    PROVE  RecordOf(s, burnIds) \in ComposeRecord
<1>1. shapes[s] \in ShapeData
  BY DEF TypeOK
<1>2. OwnerTokenFrom(burnIds) \in 0 .. MaxMinted
  BY ConstantTypes DEF OwnerTokenFrom, TypeOK
<1>3. BlankInput \in ComposeInput
  BY ArtAssumption, ConstantTypes, EmptySeq DEF BlankInput, ComposeInput, Seeds
<1>4. \A b \in Ids : SnapshotOf(b) \in ComposeInput
  BY DEF SnapshotOf, ComposeInput, TypeOK, ShapeData
<1> DEFINE ins == [b \in Ids |-> IF b \in burnIds THEN SnapshotOf(b)
                                 ELSE BlankInput]
<1>5. ins \in [Ids -> ComposeInput]
  BY <1>3, <1>4
<1>6. RecordOf(s, burnIds) =
          [denom |-> shapes[s].denom, origins |-> shapes[s].origins,
           art |-> shapes[s].art, ownerTokenFrom |-> OwnerTokenFrom(burnIds),
           burned |-> burnIds, inputs |-> ins]
  BY DEF RecordOf
<1> HIDE DEF ins
<1> QED
  BY <1>1, <1>2, <1>5, <1>6 DEF ComposeRecord, ShapeData

\* A compose keeps the types: the record it pushes is a ComposeRecord.
LEMMA ComposeType ==
    ASSUME TypeOK, NEW caller, NEW s \in Ids, NEW burnIds \in SUBSET Ids,
           Compose(caller, s, burnIds)
    PROVE  TypeOK'
<1>1. SumOver(OriginCounts, burnIds \cup {s}) \in Nat
  BY SummandTypes, IdSumNat
<1>2. ASSUME NEW d \in Denoms
      PROVE  Composed(s, burnIds, d) \in ShapeData
  <2>1. shapes[s] \in ShapeData
    BY DEF TypeOK
  <2>2. shapes[s].art \in Arts /\ {shapes[b].art : b \in burnIds} \subseteq Arts
    BY DEF TypeOK, ShapeData
  <2>3. ComposeArt[<<shapes[s].art, {shapes[b].art : b \in burnIds}, d>>]
            \in Arts
    <3> DEFINE donors == {shapes[b].art : b \in burnIds}
    <3>1. <<shapes[s].art, donors, d>> \in Arts \X (SUBSET Arts) \X Denoms
      BY <2>2
    <3> HIDE DEF donors
    <3>2. ComposeArt[<<shapes[s].art, donors, d>>] \in Arts
      BY <3>1, ArtAssumption
    <3> QED
      BY <3>2 DEF donors
  <2> QED
    BY <1>1, <2>1, <2>3 DEF Composed, ShapeData
<1>3. Blank \in ShapeData
  BY ArtAssumption, ConstantTypes, EmptySeq DEF Blank, ShapeData, Seeds
<1>4. shapes' \in [Ids -> ShapeData]
  BY <1>2, <1>3 DEF Compose, TypeOK
<1>5. composeStack' \in [Ids -> Seq(ComposeRecord)]
  <2>1. Append(composeStack[s], RecordOf(s, burnIds)) \in Seq(ComposeRecord)
    BY RecordType, Pushed DEF TypeOK
  <2> QED
    BY <2>1 DEF Compose, TypeOK
<1>6. /\ owners' \in [Ids -> Accounts \cup {NoOne}]
      /\ approvals' \in [Ids -> Accounts \cup {NoOne}]
      /\ operatorApprovals' \subseteq Accounts \X Accounts
  BY UpdateOwnersType DEF Compose
<1>7. ownerToken' \in 0 .. MaxMinted
  BY ConstantTypes DEF Compose, OwnerTokenAfterCompose, TypeOK
<1>8. totalSupply' \in Nat
  <2>1. Cardinality(burnIds) \in Nat
    BY IdsFinite, FS_CardinalityType
  <2> QED
    BY <2>1 DEF Compose, TypeOK
<1>9. UNCHANGED <<splitRecords, splitOriginRef, totalMinted, redeemableBacking,
                  burnedBacking, blackShapeCount, ethBalance, forcedEth,
                  feesOwed, totalFeesOwed, mintFee, feeRecipient, admin,
                  mintOpen, directMints, originsRedeemed>>
  BY DEF Compose, reserveVars, feeVars, configVars, historyVars
<1> QED
  BY <1>4, <1>5, <1>6, <1>7, <1>8, <1>9 DEF TypeOK

\* A decompose keeps the types: what the record holds is shape data again.
LEMMA DecomposeType ==
    ASSUME TypeOK, NEW caller, NEW s \in Ids, NEW to \in Accounts,
           Decompose(caller, s, to)
    PROVE  TypeOK'
<1> DEFINE rec == Last(composeStack[s])
<1>1. /\ rec \in ComposeRecord
      /\ Front(composeStack[s]) \in Seq(ComposeRecord)
  BY Popped DEF Decompose, TypeOK
<1>2. rec.burned \subseteq Ids
  BY <1>1 DEF ComposeRecord
<1>3. shapes' \in [Ids -> ShapeData]
  <2>1. \A i \in Ids : Revived(rec.inputs[i]) \in ShapeData
    BY <1>1 DEF ComposeRecord, ComposeInput, Revived, ShapeData
  <2>2. Uncomposed(s, rec) \in [Ids -> ShapeData]
    <3> HIDE DEF rec
    <3>1. [shapes[s] EXCEPT !.denom = rec.denom, !.origins = rec.origins,
                            !.art = rec.art] \in ShapeData
      BY <1>1 DEF ComposeRecord, ShapeData, TypeOK
    <3> QED
      BY <2>1, <3>1 DEF Uncomposed, TypeOK
  <2> QED
    BY <2>2 DEF Decompose
<1>4. composeStack' \in [Ids -> Seq(ComposeRecord)]
  BY <1>1 DEF Decompose, TypeOK
<1>5. /\ owners' \in [Ids -> Accounts \cup {NoOne}]
      /\ approvals' \in [Ids -> Accounts \cup {NoOne}]
      /\ operatorApprovals' \subseteq Accounts \X Accounts
  BY UpdateOwnersType DEF Decompose
<1>6. ownerToken' \in 0 .. MaxMinted
  BY <1>1 DEF Decompose, OwnerTokenAfterDecompose, ComposeRecord, TypeOK
<1>7. totalSupply' \in Nat
  <2>1. Cardinality(rec.burned) \in Nat
    BY <1>2, IdsFinite, FS_CardinalityType
  <2> QED
    BY <2>1 DEF Decompose, TypeOK
<1>8. UNCHANGED <<splitRecords, splitOriginRef, totalMinted, redeemableBacking,
                  burnedBacking, blackShapeCount, ethBalance, forcedEth,
                  feesOwed, totalFeesOwed, mintFee, feeRecipient, admin,
                  mintOpen, directMints, originsRedeemed>>
  BY DEF Decompose, reserveVars, feeVars, configVars, historyVars
<1> QED
  BY <1>3, <1>4, <1>5, <1>6, <1>7, <1>8 DEF TypeOK

\* The ids a split mints are ids, and its allocation gives naturals.
LEMMA SplitShapes ==
    ASSUME TypeOK, NEW i \in Ids, NEW out \in OutputLists,
           totalMinted + Len(out) <= MaxMinted
    PROVE  /\ Len(out) \in Nat
           /\ NextIds(Len(out)) \subseteq Ids
           /\ \A c \in NextIds(Len(out)) : ChildShape(i, out, c) \in ShapeData
<1>1. /\ Len(out) \in Nat /\ out \in [1 .. Len(out) -> Denoms]
      /\ out \in Seq(Denoms)
  <2>1. PICK k \in 1 .. MaxMinted - totalMinted : out \in [1 .. k -> Denoms]
    BY DEF OutputLists
  <2>2. k \in Nat
    BY ConstantTypes DEF TypeOK
  <2>3. out \in Seq(Denoms) /\ Len(out) = k
    BY <2>1, <2>2
  <2> QED
    BY <2>1, <2>2, <2>3
<1>2. totalMinted \in Nat /\ MaxMinted \in Nat
  BY ConstantTypes DEF TypeOK
<1>3. NextIds(Len(out)) \subseteq Ids
  BY <1>1, <1>2 DEF NextIds, Ids
<1>4. ASSUME NEW k \in 1 .. Len(out)
      PROVE  AllocateSplitOrigins(shapes[i].origins, out)[k] \in Nat
  <2> DEFINE filled == SumOver(Capacities(out), 1 .. k - 1)
             n == shapes[i].origins
             u == Units[out[k]]
  <2>1. \A j \in 1 .. Len(out) : Capacities(out)[j] \in Nat
    BY <1>1, ConstantTypes DEF Capacities
  <2>2. IsFiniteSet(1 .. k - 1) /\ \A j \in 1 .. k - 1 : j \in 1 .. Len(out)
    <3>1. k \in Int /\ k - 1 \in Int
      BY <1>1
    <3>2. IsFiniteSet(1 .. k - 1)
      BY <3>1, FS_Interval
    <3>3. \A j \in 1 .. k - 1 : j \in 1 .. Len(out)
      BY <1>1, <3>1
    <3> QED
      BY <3>2, <3>3
  <2>3. filled \in Nat
    BY <2>1, <2>2, SumNat
  <2>4. n \in Nat /\ u \in Nat
    BY <1>1, ConstantTypes DEF TypeOK, ShapeData
  <2>5. AllocateSplitOrigins(n, out)[k] =
            IF filled >= n THEN 0 ELSE IF n - filled < u THEN n - filled ELSE u
    BY <1>1 DEF AllocateSplitOrigins
  <2> HIDE DEF filled, u
  <2> QED
    BY <2>3, <2>4, <2>5
<1>5. ASSUME NEW c \in NextIds(Len(out))
      PROVE  ChildShape(i, out, c) \in ShapeData
  <2> DEFINE k == c - totalMinted
  <2>1. k \in Nat /\ k + 1 \in 1 .. Len(out)
    BY <1>1, <1>2 DEF NextIds
  <2>2. Append(shapes[i].seed, k) \in Seq(Nat)
    <3>1. shapes[i].seed \in Seq(Nat)
      BY DEF TypeOK, ShapeData, Seeds
    <3> HIDE DEF k
    <3> QED
      BY <2>1, <3>1
  <2>3. out[k + 1] \in Denoms
    BY <1>1, <2>1
  <2>4. SplitPool(i) \in SUBSET Arts
    <3>1. CASE composeStack[i] = <<>>
      BY <3>1 DEF SplitPool
    <3>2. CASE composeStack[i] # <<>>
      <4>1. Last(composeStack[i]) \in ComposeRecord
        BY <3>2, Popped DEF TypeOK
      <4> QED
        BY <3>2, <4>1 DEF SplitPool, ComposeRecord, ComposeInput
    <3> QED
      BY <3>1, <3>2
  <2>5. SplitArt[<<shapes[i].art, SplitPool(i), out[k + 1], k>>] \in Arts
    <3>1. k \in Ids
      BY <1>1, <1>2, <2>1 DEF Ids, TypeOK
    <3>2. <<shapes[i].art, SplitPool(i), out[k + 1], k>>
              \in Arts \X (SUBSET Arts) \X Denoms \X Ids
      BY <2>3, <2>4, <3>1 DEF TypeOK, ShapeData
    <3> QED
      BY <3>2, ArtAssumption
  <2>6. AllocateSplitOrigins(shapes[i].origins, out)[k + 1] \in Nat
    BY <1>4, <2>1
  <2> HIDE DEF k
  <2>7. ChildShape(i, out, c) =
            [seed |-> Append(shapes[i].seed, k), denom |-> out[k + 1],
             origins |-> AllocateSplitOrigins(shapes[i].origins, out)[k + 1],
             black |-> FALSE,
             art |-> SplitArt[<<shapes[i].art, SplitPool(i), out[k + 1], k>>]]
    BY DEF ChildShape, k
  <2> QED
    BY <2>2, <2>3, <2>5, <2>6, <2>7 DEF ShapeData, Seeds
<1> QED
  BY <1>1, <1>3, <1>5

\* A split keeps the types: children, record and references are well formed.
LEMMA SplitType ==
    ASSUME TypeOK, NEW caller, NEW i \in Ids, NEW out \in OutputLists,
           NEW to \in Accounts, Split(caller, i, out, to)
    PROVE  TypeOK'
<1> DEFINE k == Len(out)
           children == NextIds(k)
<1>1. /\ k \in Nat /\ children \subseteq Ids
      /\ \A c \in children : ChildShape(i, out, c) \in ShapeData
  BY SplitShapes DEF Split
<1>2. Blank \in ShapeData
  BY ArtAssumption, ConstantTypes, EmptySeq DEF Blank, ShapeData, Seeds
<1>3. shapes' \in [Ids -> ShapeData]
  BY <1>1, <1>2 DEF Split, TypeOK
<1>4. /\ totalMinted' \in 0 .. MaxMinted /\ totalSupply' \in Nat
      /\ ownerToken' \in 0 .. MaxMinted
  <2>1. /\ totalMinted' = totalMinted + k /\ totalMinted + k <= MaxMinted
        /\ totalSupply' = totalSupply + k - 1 /\ k >= 2
        /\ ownerToken' = OwnerTokenAfterSplit(i)
    BY DEF Split
  <2> HIDE DEF k
  <2> QED
    BY <1>1, <2>1, ConstantTypes DEF TypeOK, OwnerTokenAfterSplit
<1>5. SplitRecordOf(i) \in SplitRecord
  <2>1. OriginDenom(i) \in Denoms
    <3>1. CASE splitOriginRef[i].exists
      <4>1. splitOriginRef[i].recordIndex + 1 \in 1 .. Len(splitRecords)
        BY <3>1, LenProperties DEF TypeOK, SplitOriginRef
      <4>2. splitRecords[splitOriginRef[i].recordIndex + 1] \in SplitRecord
        BY <4>1, ElementOfSeq DEF TypeOK
      <4> QED
        BY <3>1, <4>2 DEF OriginDenom, SplitRecord
    <3>2. CASE ~splitOriginRef[i].exists
      BY <3>2 DEF OriginDenom, TypeOK, ShapeData
    <3> QED
      BY <3>1, <3>2
  <2> QED
    BY <2>1 DEF SplitRecordOf, SplitRecord, TypeOK, ShapeData
<1>6. /\ splitRecords' \in Seq(SplitRecord)
      /\ Len(splitRecords') = Len(splitRecords) + 1
      /\ Len(splitRecords) \in Nat
  BY <1>5, Pushed, LenProperties DEF Split, TypeOK
<1>7. /\ splitOriginRef' \in [Ids -> SplitOriginRef]
      /\ \A c \in Ids : splitOriginRef'[c].exists =>
             splitOriginRef'[c].recordIndex < Len(splitRecords')
  <2>1. ASSUME NEW c \in children
        PROVE  /\ ChildRef(c) \in SplitOriginRef
               /\ ChildRef(c).recordIndex = Len(splitRecords)
    <3>1. c - totalMinted \in Nat
      BY <1>1 DEF TypeOK, NextIds
    <3> QED
      BY <3>1, <1>6 DEF ChildRef, SplitOriginRef
  <2>2. splitOriginRef' = [c \in Ids |-> IF c \in children THEN ChildRef(c)
                                         ELSE splitOriginRef[c]]
    BY DEF Split
  <2>3. \A c \in Ids : splitOriginRef[c] \in SplitOriginRef
    BY DEF TypeOK
  <2>4. splitOriginRef' \in [Ids -> SplitOriginRef]
    BY <2>1, <2>2, <2>3
  <2>5. ASSUME NEW c \in Ids, splitOriginRef'[c].exists
        PROVE  splitOriginRef'[c].recordIndex < Len(splitRecords')
    <3>1. CASE c \in children
      BY <1>6, <2>1, <2>2, <3>1
    <3>2. CASE c \notin children
      <4>1. splitOriginRef[c].recordIndex < Len(splitRecords)
        BY <2>2, <2>5, <3>2 DEF TypeOK
      <4> QED
        BY <1>6, <2>2, <2>3, <3>2, <4>1 DEF SplitOriginRef
    <3> QED
      BY <3>1, <3>2
  <2> QED
    BY <2>4, <2>5
<1>8. /\ owners' \in [Ids -> Accounts \cup {NoOne}]
      /\ approvals' \in [Ids -> Accounts \cup {NoOne}]
      /\ operatorApprovals' \subseteq Accounts \X Accounts
  BY UpdateOwnersType DEF Split
<1>9. UNCHANGED <<composeStack, redeemableBacking, burnedBacking,
                  blackShapeCount, ethBalance, forcedEth, feesOwed,
                  totalFeesOwed, mintFee, feeRecipient, admin, mintOpen,
                  directMints, originsRedeemed>>
  BY DEF Split, reserveVars, feeVars, configVars, historyVars
<1> QED
  BY <1>3, <1>4, <1>6, <1>7, <1>8, <1>9 DEF TypeOK

\* The ids a redemption batch or a compose burns are ids.
LEMMA LiveIds == SUBSET Live \subseteq SUBSET Ids
BY DEF Live

\* Every step keeps the types.
LEMMA NextType ==
    ASSUME TypeOK, [Next]_vars
    PROVE  TypeOK'
<1>1. ASSUME NEW caller \in Accounts, HolderStep(caller)
      PROVE  TypeOK'
  <2>1. ASSUME NEW i \in Ids, Redeem(caller, i)
        PROVE  TypeOK'
    BY <2>1, RedeemSetType DEF Redeem
  <2>2. ASSUME NEW i \in Ids, Burn(caller, i)
        PROVE  TypeOK'
    BY <2>2, RedeemSetType DEF Burn
  <2>3. ASSUME NEW S \in SUBSET Live, RedeemBatch(caller, S)
        PROVE  TypeOK'
    BY <2>3, RedeemSetType, LiveIds DEF RedeemBatch
  <2>4. ASSUME NEW i \in Ids, BurnBacking(caller, i)
        PROVE  TypeOK'
    BY <2>4, BurnBackingType
  <2>5. ASSUME NEW s \in Ids, NEW burnIds \in SUBSET Live,
               Compose(caller, s, burnIds)
        PROVE  TypeOK'
    BY <2>5, ComposeType, LiveIds
  <2>6. ASSUME NEW s \in Ids, NEW to \in Accounts, Decompose(caller, s, to)
        PROVE  TypeOK'
    BY <2>6, DecomposeType
  <2>7. ASSUME NEW i \in Ids, NEW out \in OutputLists, NEW to \in Accounts,
               Split(caller, i, out, to)
        PROVE  TypeOK'
    BY <2>7, SplitType
  <2> QED
    BY <1>1, <2>1, <2>2, <2>3, <2>4, <2>5, <2>6, <2>7 DEF HolderStep
<1>2. ASSUME NEW caller \in Accounts, TokenStep(caller)
      PROVE  TypeOK'
  <2>1. ASSUME NEW i \in Ids, NEW to \in Accounts, TransferFrom(caller, i, to)
        PROVE  TypeOK'
    BY <2>1 DEF TransferFrom, TypeOK, storeVars, reserveVars, feeVars,
                configVars, historyVars
  <2>2. ASSUME NEW i \in Ids, NEW operator \in Operators \cup {NoOne},
               Approve(caller, i, operator)
        PROVE  TypeOK'
    BY <2>2, AccountsAssumption
       DEF Approve, TypeOK, storeVars, reserveVars, feeVars, configVars,
           historyVars
  <2>3. ASSUME NEW operator \in Operators, NEW approved \in BOOLEAN,
               SetApprovalForAll(caller, operator, approved)
        PROVE  TypeOK'
    <3>1. operatorApprovals' \subseteq Accounts \X Accounts
      BY <2>3, AccountsAssumption DEF SetApprovalForAll, TypeOK
    <3> QED
      BY <2>3, <3>1 DEF SetApprovalForAll, TypeOK, storeVars, reserveVars,
                        feeVars, configVars, historyVars
  <2> QED
    BY <1>2, <2>1, <2>2, <2>3 DEF TokenStep
<1>3. ASSUME NEW caller \in Accounts, AdminStep(caller)
      PROVE  TypeOK'
  <2>1. ASSUME NEW newAdmin \in Accounts \cup {NoOne},
               TransferAdmin(caller, newAdmin)
        PROVE  TypeOK'
    BY <2>1 DEF TransferAdmin, TypeOK, erc721Vars, storeVars, reserveVars,
                feeVars, historyVars
  <2>2. ASSUME NEW newRecipient \in Candidates,
               SetFeeRecipient(caller, newRecipient)
        PROVE  TypeOK'
    BY <2>2, AccountsAssumption
       DEF SetFeeRecipient, TypeOK, erc721Vars, storeVars, reserveVars,
           feeVars, historyVars
  <2>3. ASSUME NEW newFee \in 0 .. MaxMintFee + 1, SetMintFee(caller, newFee)
        PROVE  TypeOK'
    <3>1. newFee \in 0 .. MaxMintFee
      BY <2>3, BoundsAssumption DEF SetMintFee
    <3> QED
      BY <2>3, <3>1 DEF SetMintFee, TypeOK, erc721Vars, storeVars,
                        reserveVars, feeVars, historyVars
  <2> QED
    BY <1>3, <2>1, <2>2, <2>3, AccountsAssumption DEF AdminStep, RenounceAdmin
<1>4. ASSUME OpenStep
      PROVE  TypeOK'
  <2>1. ASSUME NEW d \in Denoms, NEW q \in 1 .. MaxMinted, NEW to \in Accounts,
               MintBatch(d, q, to)
        PROVE  TypeOK'
    BY <2>1, MintBatchType
  <2>2. ASSUME NEW recipient \in Accounts, WithdrawFees(recipient)
        PROVE  TypeOK'
    BY <2>2 DEF WithdrawFees, TypeOK, erc721Vars, storeVars, configVars,
                historyVars
  <2>3. ASSUME OpenMint
        PROVE  TypeOK'
    BY <2>3 DEF OpenMint, TypeOK, erc721Vars, storeVars, reserveVars, feeVars,
                historyVars
  <2>4. ASSUME ForceEth
        PROVE  TypeOK'
    BY <2>4 DEF ForceEth, TypeOK, erc721Vars, storeVars, feeVars, configVars,
                historyVars
  <2> QED
    BY <1>4, <2>1, <2>2, <2>3, <2>4 DEF OpenStep
<1>5. ASSUME UNCHANGED vars
      PROVE  TypeOK'
  BY <1>5 DEF vars, erc721Vars, storeVars, reserveVars, feeVars, configVars,
              historyVars, TypeOK
<1> QED
  BY <1>1, <1>2, <1>3, <1>4, <1>5 DEF Next

\* Every variable always holds a value of its storage type.
THEOREM TypeCorrect == Spec => []TypeOK
<1>1. Init => TypeOK
  BY InitType
<1>2. TypeOK /\ [Next]_vars => TypeOK'
  BY NextType
<1> QED
  BY <1>1, <1>2, PTL DEF Spec

-----------------------------------------------------------------------------
(* How a step changes the live tokens and the places of the records.       *)

\* A place names a survivor and a record of its stack.
LEMMA PlaceFacts ==
    ASSUME TypeOK, NEW p \in Places
    PROVE  /\ p[1] \in Ids
           /\ p[2] \in 1 .. Len(composeStack[p[1]])
           /\ p = <<p[1], p[2]>>
           /\ RecordAt(p) \in ComposeRecord
           /\ HeldAt(p) \subseteq Ids
<1>1. PICK s \in Ids : p \in {s} \X (1 .. Len(composeStack[s]))
  BY DEF Places
<1>2. p[1] = s /\ p[2] \in 1 .. Len(composeStack[s]) /\ p = <<s, p[2]>>
  BY <1>1
<1>3. composeStack[s] \in Seq(ComposeRecord)
  BY DEF TypeOK
<1>4. RecordAt(p) \in ComposeRecord
  BY <1>2, <1>3, ElementOfSeq DEF RecordAt
<1> QED
  BY <1>2, <1>4 DEF HeldAt, ComposeRecord

\* Every depth of a stack is a place.
LEMMA PlaceIntro ==
    ASSUME NEW s \in Ids, NEW k \in 1 .. Len(composeStack[s])
    PROVE  <<s, k>> \in Places
BY DEF Places

\* Pushing a record adds one place and disturbs no other.
LEMMA PlacesAfterPush ==
    ASSUME TypeOK, NEW s \in Ids, NEW rec \in ComposeRecord, NEW n,
           n = Len(composeStack[s]) + 1,
           composeStack' = [composeStack EXCEPT ![s] = Append(@, rec)]
    PROVE  /\ <<s, n>> \notin Places
           /\ Places' = Places \cup {<<s, n>>}
           /\ composeStack'[s][n] = rec
           /\ \A p \in Places : composeStack'[p[1]][p[2]] = RecordAt(p)
<1> DEFINE old == composeStack[s]
           new == composeStack'[s]
<1>1. old \in Seq(ComposeRecord) /\ new = Append(old, rec)
  BY DEF TypeOK
<1>2. /\ Len(old) \in Nat /\ n = Len(old) + 1 /\ Len(new) = n
      /\ new[n] = rec
      /\ \A k \in 1 .. Len(old) : new[k] = old[k]
  BY <1>1, Pushed, LenProperties
<1>3. \A i \in Ids : i # s => composeStack'[i] = composeStack[i]
  BY DEF TypeOK
<1>4. 1 .. n = (1 .. Len(old)) \cup {n} /\ n \notin 1 .. Len(old)
  BY <1>2
<1>5. <<s, n>> \notin Places
  <2> SUFFICES ASSUME <<s, n>> \in Places PROVE FALSE
    OBVIOUS
  <2>1. n \in 1 .. Len(old)
    BY DEF Places
  <2> QED
    BY <1>4, <2>1
<1>6. Places' = UNION {{i} \X (1 .. Len(composeStack'[i])) : i \in Ids}
  BY DEF Places
<1>7. Places' = Places \cup {<<s, n>>}
  <2>1. ASSUME NEW p \in Places'
        PROVE  p \in Places \cup {<<s, n>>}
    <3>1. PICK i \in Ids : p \in {i} \X (1 .. Len(composeStack'[i]))
      BY <1>6
    <3>2. CASE i = s
      BY <1>2, <1>4, <3>1, <3>2 DEF Places
    <3>3. CASE i # s
      BY <1>3, <3>1, <3>3 DEF Places
    <3> QED
      BY <3>2, <3>3
  <2>2. <<s, n>> \in Places'
    BY <1>2, <1>4, <1>6
  <2>3. ASSUME NEW p \in Places
        PROVE  p \in Places'
    <3>1. PICK i \in Ids : p \in {i} \X (1 .. Len(composeStack[i]))
      BY DEF Places
    <3>2. CASE i = s
      BY <1>2, <1>4, <1>6, <3>1, <3>2
    <3>3. CASE i # s
      BY <1>3, <1>6, <3>1, <3>3
    <3> QED
      BY <3>2, <3>3
  <2> QED
    BY <2>1, <2>2, <2>3
<1>8. ASSUME NEW p \in Places
      PROVE  composeStack'[p[1]][p[2]] = RecordAt(p)
  BY <1>2, <1>3, PlaceFacts DEF RecordAt
<1> QED
  BY <1>2, <1>5, <1>7, <1>8

\* Popping a record removes its place and disturbs no other.
LEMMA PlacesAfterPop ==
    ASSUME TypeOK, NEW s \in Ids, composeStack[s] # <<>>, NEW n,
           n = Len(composeStack[s]),
           composeStack' = [composeStack EXCEPT ![s] = Front(@)]
    PROVE  /\ <<s, n>> \in Places
           /\ RecordAt(<<s, n>>) = Last(composeStack[s])
           /\ Places' = Places \ {<<s, n>>}
           /\ \A p \in Places' : composeStack'[p[1]][p[2]] = RecordAt(p)
<1> DEFINE old == composeStack[s]
           new == composeStack'[s]
<1>1. old \in Seq(ComposeRecord) /\ new = Front(old)
  BY DEF TypeOK
<1>2. /\ n \in Nat \ {0} /\ n = Len(old) /\ Len(new) = n - 1
      /\ \A k \in 1 .. n - 1 : new[k] = old[k]
  BY <1>1, Popped
<1>3. \A i \in Ids : i # s => composeStack'[i] = composeStack[i]
  BY DEF TypeOK
<1>4. 1 .. n - 1 = (1 .. n) \ {n} /\ n \in 1 .. n
  BY <1>2
<1>5. <<s, n>> \in Places
  BY <1>2, <1>4, PlaceIntro
<1>6. Places' = UNION {{i} \X (1 .. Len(composeStack'[i])) : i \in Ids}
  BY DEF Places
<1>7. Places' = Places \ {<<s, n>>}
  <2>1. ASSUME NEW p \in Places'
        PROVE  p \in Places \ {<<s, n>>}
    <3>1. PICK i \in Ids : p \in {i} \X (1 .. Len(composeStack'[i]))
      BY <1>6
    <3>2. CASE i = s
      BY <1>2, <1>4, <3>1, <3>2 DEF Places
    <3>3. CASE i # s
      BY <1>3, <3>1, <3>3 DEF Places
    <3> QED
      BY <3>2, <3>3
  <2>2. ASSUME NEW p \in Places \ {<<s, n>>}
        PROVE  p \in Places'
    <3>1. PICK i \in Ids : p \in {i} \X (1 .. Len(composeStack[i]))
      BY DEF Places
    <3>2. CASE i = s
      BY <1>2, <1>4, <1>6, <3>1, <3>2
    <3>3. CASE i # s
      BY <1>3, <1>6, <3>1, <3>3
    <3> QED
      BY <3>2, <3>3
  <2> QED
    BY <2>1, <2>2
<1>8. ASSUME NEW p \in Places'
      PROVE  composeStack'[p[1]][p[2]] = RecordAt(p)
  <2>1. p \in Places /\ p # <<s, n>>
    BY <1>7
  <2>2. /\ p[1] \in Ids /\ p[2] \in 1 .. Len(composeStack[p[1]])
        /\ p = <<p[1], p[2]>>
    BY <2>1, PlaceFacts
  <2>3. CASE p[1] = s
    BY <1>2, <1>4, <2>1, <2>2, <2>3 DEF RecordAt
  <2>4. CASE p[1] # s
    BY <1>3, <2>2, <2>4 DEF RecordAt
  <2> QED
    BY <2>3, <2>4
<1>9. RecordAt(<<s, n>>) = Last(old)
  BY <1>2 DEF RecordAt, Last
<1> QED
  BY <1>5, <1>7, <1>8, <1>9

\* Who is live after tokens are burned and minted.
LEMMA LiveAfterUpdate ==
    ASSUME NEW Out, NEW In \in SUBSET Ids, NEW to,
           to # NoOne \/ In = {}, UpdateOwners(Out, In, to)
    PROVE  /\ Live' = (Live \ Out) \cup In
           /\ \A i \in Ids : IsLive(i)' <=> i \in Live'
BY DEF UpdateOwners, Live, IsLive

-----------------------------------------------------------------------------
(* Live tokens and places.                                                 *)

\* A token is live exactly when it is in Live, before and after a step.
LEMMA LiveMembers ==
    /\ Live \subseteq Ids
    /\ \A i \in Ids : IsLive(i) <=> i \in Live
    /\ Live' \subseteq Ids
    /\ \A i \in Ids : IsLive(i)' <=> i \in Live'
BY DEF Live, IsLive

\* A step that leaves the records alone leaves the places alone.
LEMMA SamePlaces ==
    ASSUME composeStack' = composeStack
    PROVE  /\ Places' = Places
           /\ \A p : RecordAt(p)' = RecordAt(p) /\ HeldAt(p)' = HeldAt(p)
BY DEF Places, RecordAt, HeldAt

\* Tokens retired and fresh ids issued.
Issued(Out, In) ==
    /\ Out \subseteq Live
    /\ In \subseteq Ids
    /\ Live' = (Live \ Out) \cup In
    /\ \A c \in In : totalMinted <= c /\ c < totalMinted'
    /\ totalMinted <= totalMinted'
    /\ totalSupply' = totalSupply - Cardinality(Out) + Cardinality(In)
    /\ UNCHANGED composeStack

\* The owner token stays where it is unless its token is retired, and then it
\* ends or moves to a token issued in its place.
OwnerFollows(Out, In) ==
    /\ ownerToken - 1 \notin Out => ownerToken' = ownerToken
    /\ ownerToken - 1 \in Out => ownerToken' = 0 \/ ownerToken' - 1 \in In

\* Such a step keeps the structure.
LEMMA StructureByIssue ==
    ASSUME TypeOK, TypeOK', Structure, NEW Out, NEW In,
           Issued(Out, In), OwnerFollows(Out, In)
    PROVE  Structure'
<1>1. /\ Live \subseteq Ids /\ Out \subseteq Live /\ In \subseteq Ids
      /\ Live' = (Live \ Out) \cup In
      /\ \A c \in In : totalMinted <= c /\ c < totalMinted'
      /\ totalMinted <= totalMinted'
      /\ composeStack' = composeStack
  BY LiveMembers DEF Issued
<1>2. /\ totalMinted \in Nat /\ totalMinted' \in Nat
      /\ \A i \in Ids : i \in Nat
      /\ ownerToken \in Nat /\ ownerToken' \in Nat
  BY ConstantTypes DEF TypeOK
<1>3. /\ totalSupply = Cardinality(Live)
      /\ \A i \in Live : i < totalMinted
  BY DEF Structure, SupplyCountsLiveShapes
<1>4. In \cap Live = {}
  BY <1>1, <1>2, <1>3
<1>5. SupplyCountsLiveShapes'
  <2>1. /\ IsFiniteSet(Live) /\ IsFiniteSet(Out) /\ IsFiniteSet(In)
        /\ IsFiniteSet(Live \ Out)
    BY <1>1, IdsFinite
  <2>2. Cardinality(Live \ Out) = Cardinality(Live) - Cardinality(Out)
    <3>1. Live \cap Out = Out
      BY <1>1
    <3> QED
      BY <2>1, <3>1, FS_Difference
  <2>3. Cardinality(Live')
            = Cardinality(Live) - Cardinality(Out) + Cardinality(In)
    <3>1. (Live \ Out) \cap In = {} /\ Cardinality({}) = 0
      BY <1>4, FS_EmptySet
    <3>2. /\ Cardinality(Live) \in Nat /\ Cardinality(Out) \in Nat
          /\ Cardinality(In) \in Nat /\ Cardinality(Live \ Out) \in Nat
      BY <2>1, FS_CardinalityType
    <3>3. Cardinality((Live \ Out) \cup In)
              = Cardinality(Live \ Out) + Cardinality(In) - 0
      BY <2>1, <3>1, FS_Union
    <3> QED
      BY <1>1, <2>2, <3>2, <3>3
  <2>4. totalSupply' = Cardinality(Live')
    BY <1>3, <2>3 DEF Issued
  <2>5. \A i \in Live' : i < totalMinted'
    BY <1>1, <1>2, <1>3
  <2> QED
    BY <2>4, <2>5 DEF SupplyCountsLiveShapes
<1>6. \A p \in Places : \A i \in HeldAt(p) :
          i \in Ids /\ i \notin Live /\ i < totalMinted
  BY PlaceFacts, LiveMembers DEF Structure, HeldShapesAreDeadAndUnique
<1>7. HeldShapesAreDeadAndUnique'
  <2>1. \A p \in Places' : \A i \in HeldAt(p)' :
            i \in Ids /\ i \notin Live' /\ i < totalMinted'
    BY <1>1, <1>2, <1>6, SamePlaces
  <2>2. \A p, q \in Places' : p # q => HeldAt(p)' \cap HeldAt(q)' = {}
    BY <1>1, SamePlaces DEF Structure, HeldShapesAreDeadAndUnique
  <2> QED
    BY <2>1, <2>2, LiveMembers DEF HeldShapesAreDeadAndUnique
<1>8. FreshIdsHaveNoRecords'
  BY <1>1, <1>2 DEF Structure, FreshIdsHaveNoRecords
<1>9. OwnerTokenLive'
  <2> SUFFICES ASSUME ownerToken' # 0
               PROVE  \E i \in Live' : ownerToken' = i + 1
    BY DEF OwnerTokenLive
  <2>1. CASE ownerToken - 1 \in Out
    BY <1>1, <1>2, <2>1 DEF OwnerFollows
  <2>2. CASE ownerToken - 1 \notin Out
    <3>1. ownerToken' = ownerToken
      BY <2>2 DEF OwnerFollows
    <3>2. PICK i \in Live : ownerToken = i + 1
      BY <3>1 DEF Structure, OwnerTokenLive
    <3>3. i \in Nat /\ i = ownerToken - 1
      BY <1>1, <1>2, <3>2
    <3> QED
      BY <1>1, <2>2, <3>1, <3>2, <3>3
  <2> QED
    BY <2>1, <2>2
<1>10. OwnerReturnPath'
  <2>1. ASSUME NEW p \in Places, RecordAt(p).ownerTokenFrom # 0, p[1] \in Live'
        PROVE  ownerToken' = p[1] + 1
    <3>1. p[1] \in Ids /\ p[2] \in 1 .. Len(composeStack[p[1]])
      BY PlaceFacts
    <3>2. p[1] \notin In
      <4>1. SUFFICES ASSUME p[1] \in In PROVE FALSE
        OBVIOUS
      <4>2. composeStack[p[1]] = <<>>
        BY <1>1, <1>2, <3>1, <4>1 DEF Structure, FreshIdsHaveNoRecords
      <4> QED
        BY <3>1, <4>2
    <3>3. p[1] \in Live /\ p[1] \notin Out
      BY <1>1, <2>1, <3>2
    <3>4. ownerToken = p[1] + 1
      BY <2>1, <3>1, <3>3, LiveMembers DEF Structure, OwnerReturnPath
    <3> QED
      BY <1>2, <3>1, <3>3, <3>4 DEF OwnerFollows
  <2>2. \A p \in Places : p[1] \in Ids
    BY PlaceFacts
  <2> QED
    BY <1>1, <2>1, <2>2, SamePlaces, LiveMembers DEF Structure, OwnerReturnPath
<1> QED
  BY <1>5, <1>7, <1>8, <1>9, <1>10 DEF Structure

\* The next ids are fresh, and as many as asked for.
LEMMA NextIdsFresh ==
    ASSUME TypeOK, NEW q \in Nat \ {0}, totalMinted + q <= MaxMinted
    PROVE  /\ NextIds(q) \subseteq Ids
           /\ \A c \in NextIds(q) : totalMinted <= c /\ c < totalMinted + q
           /\ Cardinality(NextIds(q)) = q
<1>1. totalMinted \in Nat /\ q \in Nat /\ MaxMinted \in Nat
  BY ConstantTypes DEF TypeOK
<1>2. Cardinality(totalMinted .. totalMinted + q - 1) = q
  <2> DEFINE a == totalMinted
             b == totalMinted + q - 1
  <2>1. a \in Int /\ b \in Int /\ ~(a > b) /\ b - a + 1 = q
    BY <1>1
  <2> HIDE DEF a, b
  <2>2. Cardinality(a .. b) = q
    BY <2>1, FS_Interval
  <2> QED
    BY <2>2 DEF a, b
<1> QED
  BY <1>1, <1>2 DEF NextIds, Ids

\* A mint issues the next ids.
LEMMA MintIssues ==
    ASSUME TypeOK, Structure, NEW d \in Denoms, NEW q \in 1 .. MaxMinted,
           NEW to \in Accounts, MintBatch(d, q, to)
    PROVE  /\ Issued({}, NextIds(q))
           /\ OwnerFollows({}, NextIds(q))
           /\ NextIds(q) \cap Live = {}
<1>1. /\ q \in Nat \ {0} /\ totalMinted + q <= MaxMinted
      /\ totalMinted' = totalMinted + q
      /\ totalSupply' = totalSupply + q
      /\ composeStack' = composeStack /\ ownerToken' = ownerToken
      /\ \A i \in NextIds(q) : owners[i] = NoOne
  BY ConstantTypes DEF MintBatch, Mintable
<1>2. /\ NextIds(q) \subseteq Ids
      /\ \A c \in NextIds(q) : totalMinted <= c /\ c < totalMinted + q
      /\ Cardinality(NextIds(q)) = q
  BY <1>1, NextIdsFresh
<1>3. Live' = (Live \ {}) \cup NextIds(q)
  <2>1. UpdateOwners({}, NextIds(q), to) /\ to # NoOne
    BY DEF MintBatch, Mintable
  <2> QED
    BY <1>2, <2>1, LiveAfterUpdate
<1>4. totalSupply \in Nat /\ totalMinted \in Nat
  BY DEF TypeOK
<1>5. totalSupply' = totalSupply - Cardinality({}) + Cardinality(NextIds(q))
  BY <1>1, <1>2, <1>4, FS_EmptySet
<1>6. NextIds(q) \cap Live = {}
  BY <1>1 DEF Live
<1> QED
  BY <1>1, <1>2, <1>3, <1>4, <1>5, <1>6 DEF Issued, OwnerFollows

\* A redemption retires its tokens.
LEMMA RedemptionRetires ==
    ASSUME TypeOK, NEW caller \in Accounts, NEW S \in SUBSET Ids,
           NEW allowBlack, RedeemSet(caller, S, allowBlack)
    PROVE  Issued(S, {}) /\ OwnerFollows(S, {})
<1>1. /\ totalMinted' = totalMinted
      /\ totalSupply' = totalSupply - Cardinality(S)
      /\ composeStack' = composeStack
      /\ ownerToken' = OwnerTokenAfterRedeeming(S)
      /\ \A i \in S : owners[i] = caller
  BY DEF RedeemSet, MayRedeem
<1>2. Live' = (Live \ S) \cup {}
  BY LiveAfterUpdate DEF RedeemSet
<1>3. S \subseteq Live
  BY <1>1, AccountsAssumption DEF Live
<1>4. totalSupply' = totalSupply - Cardinality(S) + Cardinality({})
  <2>1. Cardinality(S) \in Nat /\ totalSupply \in Nat
    BY IdsFinite, FS_CardinalityType DEF TypeOK
  <2> QED
    BY <1>1, <2>1, FS_EmptySet
<1> QED
  BY <1>1, <1>2, <1>3, <1>4
     DEF Issued, OwnerFollows, OwnerTokenAfterRedeeming, TypeOK

\* A split retires its parent and issues the next ids, the first of which is the
\* owner token if the parent was.
LEMMA SplitIssues ==
    ASSUME TypeOK, Structure, NEW caller \in Accounts, NEW i \in Ids,
           NEW out \in OutputLists, NEW to \in Accounts,
           Split(caller, i, out, to)
    PROVE  /\ Issued({i}, NextIds(Len(out)))
           /\ OwnerFollows({i}, NextIds(Len(out)))
           /\ NextIds(Len(out)) \cap Live = {}
<1> DEFINE q == Len(out)
<1>1. /\ q \in Nat \ {0} /\ totalMinted + q <= MaxMinted
      /\ totalMinted' = totalMinted + q
      /\ totalSupply' = totalSupply + q - 1
      /\ composeStack' = composeStack
      /\ ownerToken' = OwnerTokenAfterSplit(i)
      /\ \A c \in NextIds(q) : owners[c] = NoOne
      /\ owners[i] = caller
  <2>1. q \in Nat
    BY SplitShapes DEF Split
  <2> QED
    BY <2>1 DEF Split, Mintable, CallerOwnsLive
<1>2. /\ NextIds(q) \subseteq Ids
      /\ \A c \in NextIds(q) : totalMinted <= c /\ c < totalMinted + q
      /\ Cardinality(NextIds(q)) = q
  <2> HIDE DEF q
  <2> QED
    BY <1>1, NextIdsFresh
<1>3. Live' = (Live \ {i}) \cup NextIds(q)
  <2>1. UpdateOwners({i}, NextIds(q), to) /\ to # NoOne
    BY DEF Split, Mintable
  <2> QED
    BY <1>2, <2>1, LiveAfterUpdate
<1>4. i \in Live
  BY <1>1, AccountsAssumption DEF Live
<1>5. totalSupply \in Nat /\ totalMinted \in Nat /\ ownerToken \in Nat
  BY DEF TypeOK
<1>6. totalSupply' = totalSupply - Cardinality({i}) + Cardinality(NextIds(q))
  <2>1. Cardinality({i}) = 1
    BY FS_Singleton
  <2> HIDE DEF q
  <2> QED
    BY <1>1, <1>2, <1>5, <2>1
<1>7. NextIds(q) \cap Live = {}
  BY <1>1 DEF Live
<1>8. OwnerFollows({i}, NextIds(q))
  <2>1. totalMinted \in NextIds(q)
    BY <1>1, <1>5 DEF NextIds
  <2> HIDE DEF q
  <2> QED
    BY <1>1, <1>5, <2>1 DEF OwnerFollows, OwnerTokenAfterSplit
<1> QED
  BY <1>1, <1>2, <1>3, <1>4, <1>5, <1>6, <1>7, <1>8 DEF Issued

\* Transfers, approvals, administration, withdrawals and the environment neither
\* retire nor issue a token, and leave every token and the reserve alone.
StillStep ==
    \/ \E caller \in Accounts : TokenStep(caller) \/ AdminStep(caller)
    \/ \E recipient \in Accounts : WithdrawFees(recipient)
    \/ OpenMint
    \/ ForceEth
    \/ UNCHANGED vars

\* A still step moves no token between live and dead and touches no record.
LEMMA StillStepKeeps ==
    ASSUME TypeOK, StillStep
    PROVE  /\ UNCHANGED <<storeVars, ownerToken, redeemableBacking, historyVars>>
           /\ Live' = Live
<1>1. ASSUME NEW caller \in Accounts, TokenStep(caller)
      PROVE  /\ UNCHANGED <<storeVars, ownerToken, redeemableBacking, historyVars>>
             /\ Live' = Live
  <2>1. ASSUME NEW i \in Ids, NEW to \in Accounts, TransferFrom(caller, i, to)
        PROVE  /\ UNCHANGED <<storeVars, ownerToken, redeemableBacking, historyVars>>
               /\ Live' = Live
    BY <2>1, AccountsAssumption
       DEF TransferFrom, IsLive, Live, TypeOK, reserveVars
  <2> QED
    BY <1>1, <2>1 DEF TokenStep, Approve, SetApprovalForAll, Live, reserveVars
<1>2. ASSUME NEW caller \in Accounts, AdminStep(caller)
      PROVE  /\ UNCHANGED <<storeVars, ownerToken, redeemableBacking, historyVars>>
             /\ Live' = Live
  BY <1>2 DEF AdminStep, TransferAdmin, RenounceAdmin, SetFeeRecipient,
              SetMintFee, Live, reserveVars, erc721Vars
<1>3. ASSUME NEW recipient \in Accounts, WithdrawFees(recipient)
      PROVE  /\ UNCHANGED <<storeVars, ownerToken, redeemableBacking, historyVars>>
             /\ Live' = Live
  BY <1>3 DEF WithdrawFees, Live, erc721Vars
<1>4. ASSUME OpenMint \/ ForceEth \/ UNCHANGED vars
      PROVE  /\ UNCHANGED <<storeVars, ownerToken, redeemableBacking, historyVars>>
             /\ Live' = Live
  BY <1>4 DEF OpenMint, ForceEth, Live, reserveVars, erc721Vars, vars
<1> QED
  BY <1>1, <1>2, <1>3, <1>4 DEF StillStep

\* A step that issues and retires nothing keeps the structure.
LEMMA StructureByStillness ==
    ASSUME TypeOK, TypeOK', Structure,
           UNCHANGED <<composeStack, totalSupply, totalMinted, ownerToken>>,
           Live' = Live
    PROVE  Structure'
<1>1. totalSupply' = totalSupply - Cardinality({}) + Cardinality({})
  <2>1. Cardinality({}) = 0 /\ totalSupply \in Nat
    BY FS_EmptySet DEF TypeOK
  <2> QED
    BY <2>1
<1>2. totalMinted \in Nat
  BY DEF TypeOK
<1>3. Issued({}, {}) /\ OwnerFollows({}, {})
  BY <1>1, <1>2 DEF Issued, OwnerFollows
<1> QED
  BY <1>3, StructureByIssue

-----------------------------------------------------------------------------
(* Compose and decompose.                                                  *)

\* What compose does to the live tokens and the records.
LEMMA ComposeEffect ==
    ASSUME TypeOK, NEW caller \in Accounts, NEW s \in Ids,
           NEW burnIds \in SUBSET Ids, NEW n, n = Len(composeStack[s]) + 1,
           Compose(caller, s, burnIds)
    PROVE  /\ s \in Live /\ s \notin burnIds /\ burnIds \subseteq Live
           /\ Live' = Live \ burnIds
           /\ <<s, n>> \notin Places
           /\ Places' = Places \cup {<<s, n>>}
           /\ composeStack'[s][n] = RecordOf(s, burnIds)
           /\ \A p \in Places : composeStack'[p[1]][p[2]] = RecordAt(p)
           /\ \A i \in Ids \ {s} : composeStack'[i] = composeStack[i]
           /\ totalSupply' = totalSupply - Cardinality(burnIds)
           /\ totalMinted' = totalMinted
           /\ ownerToken' = OwnerTokenAfterCompose(s, burnIds)
<1>1. /\ owners[s] = caller /\ s \notin burnIds
      /\ \A b \in burnIds : owners[b] = caller
  BY DEF Compose, MayCompose, CallerOwnsLive
<1>2. s \in Live /\ burnIds \subseteq Live
  BY <1>1, AccountsAssumption DEF Live
<1>3. Live' = (Live \ burnIds) \cup {}
  BY LiveAfterUpdate DEF Compose
<1>4. /\ composeStack' = [composeStack EXCEPT ![s] = Append(@, RecordOf(s, burnIds))]
      /\ totalSupply' = totalSupply - Cardinality(burnIds)
      /\ totalMinted' = totalMinted
      /\ ownerToken' = OwnerTokenAfterCompose(s, burnIds)
  BY DEF Compose
<1>5. /\ <<s, n>> \notin Places
      /\ Places' = Places \cup {<<s, n>>}
      /\ composeStack'[s][n] = RecordOf(s, burnIds)
      /\ \A p \in Places : composeStack'[p[1]][p[2]] = RecordAt(p)
  <2>1. RecordOf(s, burnIds) \in ComposeRecord
    BY RecordType
  <2> QED
    BY <1>4, <2>1, PlacesAfterPush
<1>6. \A i \in Ids \ {s} : composeStack'[i] = composeStack[i]
  BY <1>4 DEF TypeOK
<1> QED
  BY <1>1, <1>2, <1>3, <1>4, <1>5, <1>6

\* The part of it that does not name the new place.
LEMMA ComposeBurns ==
    ASSUME TypeOK, NEW caller \in Accounts, NEW s \in Ids,
           NEW burnIds \in SUBSET Ids, Compose(caller, s, burnIds)
    PROVE  /\ Live' = Live \ burnIds
           /\ ownerToken' = OwnerTokenAfterCompose(s, burnIds)
<1>1. owners' = [i \in Ids |-> IF i \in burnIds THEN NoOne ELSE owners[i]]
  BY DEF Compose, UpdateOwners
<1>2. Live' = Live \ burnIds
  BY <1>1 DEF Live
<1> QED
  BY <1>2 DEF Compose

\* The records of the places after a step, given where each is kept.
LEMMA RecordsAfter ==
    \A p : /\ RecordAt(p)' = composeStack'[p[1]][p[2]]
           /\ HeldAt(p)' = composeStack'[p[1]][p[2]].burned
BY DEF RecordAt, HeldAt

\* What the structure says of a held token and of a place that claims ownership.
LEMMA StructureFacts ==
    ASSUME TypeOK, Structure
    PROVE  /\ \A i \in Live : i \in Ids /\ i < totalMinted
           /\ \A p \in Places : \A i \in HeldAt(p) :
                 i \in Ids /\ i \notin Live /\ i < totalMinted
           /\ \A p, q \in Places : p # q => HeldAt(p) \cap HeldAt(q) = {}
           /\ \A p \in Places : RecordAt(p).ownerTokenFrom # 0 =>
                 /\ RecordAt(p).ownerTokenFrom - 1 \in HeldAt(p)
                 /\ p[1] \in Live => ownerToken = p[1] + 1
                 /\ \A q \in Places :
                       q[1] = p[1] /\ RecordAt(q).ownerTokenFrom # 0 => q = p
                 /\ \A q \in Places :
                       p[1] \in HeldAt(q)
                           => RecordAt(q).ownerTokenFrom = p[1] + 1
           /\ ownerToken # 0 => \E i \in Live : ownerToken = i + 1
           /\ \A p \in Places : p[1] \in Ids
<1>1. \A p \in Places : p[1] \in Ids /\ HeldAt(p) \subseteq Ids
  BY PlaceFacts
<1>2. /\ \A i \in Live : i \in Ids /\ i < totalMinted
      /\ \A p \in Places : \A i \in HeldAt(p) :
            i \in Ids /\ i \notin Live /\ i < totalMinted
      /\ \A p, q \in Places : p # q => HeldAt(p) \cap HeldAt(q) = {}
  BY <1>1, LiveMembers
     DEF Structure, SupplyCountsLiveShapes, HeldShapesAreDeadAndUnique
<1>3. \A p \in Places : RecordAt(p).ownerTokenFrom # 0 =>
          /\ RecordAt(p).ownerTokenFrom - 1 \in HeldAt(p)
          /\ p[1] \in Live => ownerToken = p[1] + 1
          /\ \A q \in Places :
                q[1] = p[1] /\ RecordAt(q).ownerTokenFrom # 0 => q = p
          /\ \A q \in Places :
                p[1] \in HeldAt(q) => RecordAt(q).ownerTokenFrom = p[1] + 1
  BY <1>1, LiveMembers DEF Structure, OwnerReturnPath
<1>4. ownerToken # 0 => \E i \in Live : ownerToken = i + 1
  BY DEF Structure, OwnerTokenLive
<1> QED
  BY <1>1, <1>2, <1>3, <1>4

\* A compose keeps the structure: its record holds exactly the tokens it burns.
LEMMA StructureByCompose ==
    ASSUME TypeOK, TypeOK', Structure, NEW caller \in Accounts, NEW s \in Ids,
           NEW burnIds \in SUBSET Ids, Compose(caller, s, burnIds),
           NEW n, n = Len(composeStack[s]) + 1, NEW new, new = <<s, n>>,
           NEW rec, rec = RecordOf(s, burnIds)
    PROVE  Structure'
<1>1. /\ s \in Live /\ s \notin burnIds /\ burnIds \subseteq Live
      /\ Live' = Live \ burnIds
      /\ new \notin Places /\ Places' = Places \cup {new}
      /\ composeStack'[s][n] = rec
      /\ \A p \in Places : composeStack'[p[1]][p[2]] = RecordAt(p)
      /\ \A i \in Ids \ {s} : composeStack'[i] = composeStack[i]
      /\ totalSupply' = totalSupply - Cardinality(burnIds)
      /\ totalMinted' = totalMinted
      /\ ownerToken' = OwnerTokenAfterCompose(s, burnIds)
  BY ComposeEffect
<1>2. /\ totalMinted \in Nat /\ ownerToken \in Nat /\ ownerToken' \in Nat
      /\ \A i \in Ids : i \in Nat
  BY ConstantTypes DEF TypeOK
<1>3. /\ rec.burned = burnIds
      /\ rec.ownerTokenFrom = IF ownerToken - 1 \in burnIds THEN ownerToken ELSE 0
      /\ ownerToken' = IF ownerToken - 1 \in burnIds THEN s + 1 ELSE ownerToken
  BY <1>1 DEF RecordOf, OwnerTokenFrom, OwnerTokenAfterCompose
<1>4. /\ RecordAt(new)' = rec
      /\ HeldAt(new)' = burnIds
      /\ \A p \in Places : RecordAt(p)' = RecordAt(p) /\ HeldAt(p)' = HeldAt(p)
      /\ new[1] = s
  BY <1>1, <1>3, RecordsAfter DEF HeldAt
<1>5. SupplyCountsLiveShapes'
  <2>1. IsFiniteSet(Live) /\ IsFiniteSet(burnIds) /\ Live \cap burnIds = burnIds
    BY <1>1, IdsFinite, LiveMembers
  <2>2. Cardinality(Live \ burnIds) = Cardinality(Live) - Cardinality(burnIds)
    BY <2>1, FS_Difference
  <2> QED
    BY <1>1, <2>2 DEF Structure, SupplyCountsLiveShapes
<1>6. HeldShapesAreDeadAndUnique'
  <2>1. \A p \in Places' : \A i \in HeldAt(p)' :
            i \in Ids /\ i \notin Live' /\ i < totalMinted'
    BY <1>1, <1>3, <1>4, StructureFacts
  <2>2. \A p, q \in Places' : p # q => HeldAt(p)' \cap HeldAt(q)' = {}
    BY <1>1, <1>3, <1>4, StructureFacts
  <2> QED
    BY <2>1, <2>2, LiveMembers DEF HeldShapesAreDeadAndUnique
<1>7. FreshIdsHaveNoRecords'
  <2>1. s < totalMinted
    BY <1>1, StructureFacts
  <2> QED
    BY <1>1, <1>2, <2>1 DEF Structure, FreshIdsHaveNoRecords
<1>8. OwnerTokenLive'
  <2> SUFFICES ASSUME ownerToken' # 0
               PROVE  \E i \in Live' : ownerToken' = i + 1
    BY DEF OwnerTokenLive
  <2>1. CASE ownerToken - 1 \in burnIds
    BY <1>1, <1>3, <1>4, <2>1
  <2>2. CASE ownerToken - 1 \notin burnIds
    <3>1. PICK i \in Live : ownerToken = i + 1
      BY <1>3, <1>4, <2>2, StructureFacts
    <3>2. i \in Nat /\ i = ownerToken - 1
      BY <1>2, <3>1, StructureFacts
    <3> QED
      BY <1>1, <1>3, <1>4, <2>2, <3>1, <3>2
  <2> QED
    BY <2>1, <2>2
<1>9. OwnerReturnPath'
  <2>1. ASSUME NEW p \in Places, RecordAt(p).ownerTokenFrom # 0, p[1] \in Live
        PROVE  /\ ownerToken = p[1] + 1
               /\ ownerToken - 1 = p[1]
    BY <1>2, <2>1, StructureFacts
  <2>2. ASSUME NEW p \in Places', RecordAt(p)'.ownerTokenFrom # 0
        PROVE  /\ RecordAt(p)'.ownerTokenFrom - 1 \in HeldAt(p)'
               /\ p[1] \in Live' => ownerToken' = p[1] + 1
    <3>1. CASE p \in Places
      <4>1. p[1] \in Live' => ownerToken' = p[1] + 1
        BY <1>1, <1>3, <1>4, <2>1, <2>2, <3>1
      <4> QED
        BY <1>3, <1>4, <2>2, <3>1, <4>1, StructureFacts
    <3>2. CASE p = new
      BY <1>1, <1>3, <1>4, <2>2, <3>2
    <3> QED
      BY <1>1, <3>1, <3>2
  <2>3. ASSUME NEW p \in Places', RecordAt(p)'.ownerTokenFrom # 0,
               NEW q \in Places', q[1] = p[1], RecordAt(q)'.ownerTokenFrom # 0
        PROVE  q = p
    <3>1. CASE p \in Places /\ q \in Places
      BY <1>3, <1>4, <2>3, <3>1, StructureFacts
    <3>2. CASE p \in Places /\ q = new
      BY <1>1, <1>3, <1>4, <2>1, <2>3, <3>2
    <3>3. CASE p = new /\ q \in Places
      BY <1>1, <1>3, <1>4, <2>1, <2>3, <3>3
    <3> QED
      BY <1>1, <3>1, <3>2, <3>3
  <2>4. ASSUME NEW p \in Places', RecordAt(p)'.ownerTokenFrom # 0,
               NEW q \in Places', p[1] \in HeldAt(q)'
        PROVE  RecordAt(q)'.ownerTokenFrom = p[1] + 1
    <3>1. CASE p \in Places /\ q \in Places
      BY <1>3, <1>4, <2>4, <3>1, StructureFacts
    <3>2. CASE p \in Places /\ q = new
      BY <1>1, <1>3, <1>4, <2>1, <2>4, <3>2
    <3>3. CASE p = new
      BY <1>1, <1>3, <1>4, <2>4, <3>3, StructureFacts
    <3> QED
      BY <1>1, <3>1, <3>2, <3>3
  <2>5. \A p \in Places' : p[1] \in Ids
    BY <1>1, <1>3, <1>4, StructureFacts
  <2> QED
    BY <2>2, <2>3, <2>4, <2>5, LiveMembers DEF OwnerReturnPath
<1> QED
  BY <1>5, <1>6, <1>7, <1>8, <1>9 DEF Structure

\* What decompose does to the live tokens and the records.
LEMMA DecomposeEffect ==
    ASSUME TypeOK, NEW caller \in Accounts, NEW s \in Ids, NEW to \in Accounts,
           NEW n, n = Len(composeStack[s]), NEW rec,
           rec = Last(composeStack[s]), Decompose(caller, s, to)
    PROVE  /\ s \in Live
           /\ rec \in ComposeRecord
           /\ rec.burned \subseteq Ids /\ rec.burned \cap Live = {}
           /\ Live' = Live \cup rec.burned
           /\ <<s, n>> \in Places
           /\ RecordAt(<<s, n>>) = rec
           /\ HeldAt(<<s, n>>) = rec.burned
           /\ Places' = Places \ {<<s, n>>}
           /\ \A p \in Places' : composeStack'[p[1]][p[2]] = RecordAt(p)
           /\ \A i \in Ids \ {s} : composeStack'[i] = composeStack[i]
           /\ totalSupply' = totalSupply + Cardinality(rec.burned)
           /\ totalMinted' = totalMinted
           /\ ownerToken' = IF rec.ownerTokenFrom # 0 THEN rec.ownerTokenFrom
                            ELSE ownerToken
<1>1. /\ owners[s] = caller
      /\ composeStack[s] # <<>>
      /\ composeStack' = [composeStack EXCEPT ![s] = Front(@)]
      /\ \A i \in rec.burned : owners[i] = NoOne
      /\ to # NoOne
      /\ UpdateOwners({}, rec.burned, to)
      /\ totalSupply' = totalSupply + Cardinality(rec.burned)
      /\ totalMinted' = totalMinted
      /\ ownerToken' = IF rec.ownerTokenFrom # 0 THEN rec.ownerTokenFrom
                       ELSE ownerToken
  BY DEF Decompose, CallerOwnsLive, Mintable, OwnerTokenAfterDecompose
<1>2. rec \in ComposeRecord /\ rec.burned \subseteq Ids
  <2>1. composeStack[s] \in Seq(ComposeRecord)
    BY DEF TypeOK
  <2>2. rec \in ComposeRecord
    BY <1>1, <2>1, Popped
  <2> QED
    BY <2>2 DEF ComposeRecord
<1>3. s \in Live /\ rec.burned \cap Live = {}
  BY <1>1, AccountsAssumption DEF Live
<1>4. Live' = (Live \ {}) \cup rec.burned
  BY <1>1, <1>2, LiveAfterUpdate
<1>5. /\ <<s, n>> \in Places
      /\ RecordAt(<<s, n>>) = rec
      /\ Places' = Places \ {<<s, n>>}
      /\ \A p \in Places' : composeStack'[p[1]][p[2]] = RecordAt(p)
  BY <1>1, PlacesAfterPop
<1>6. \A i \in Ids \ {s} : composeStack'[i] = composeStack[i]
  BY <1>1 DEF TypeOK
<1> QED
  BY <1>1, <1>2, <1>3, <1>4, <1>5, <1>6 DEF HeldAt

\* A decompose keeps the structure: the popped record held the tokens it revives.
LEMMA StructureByDecompose ==
    ASSUME TypeOK, TypeOK', Structure, NEW caller \in Accounts, NEW s \in Ids,
           NEW to \in Accounts, Decompose(caller, s, to)
    PROVE  Structure'
<1> DEFINE n == Len(composeStack[s])
           rec == Last(composeStack[s])
           old == <<s, n>>
<1>1. /\ s \in Live
      /\ rec \in ComposeRecord
      /\ rec.burned \subseteq Ids /\ rec.burned \cap Live = {}
      /\ Live' = Live \cup rec.burned
      /\ old \in Places /\ RecordAt(old) = rec /\ HeldAt(old) = rec.burned
      /\ Places' = Places \ {old}
      /\ \A p \in Places' : composeStack'[p[1]][p[2]] = RecordAt(p)
      /\ \A i \in Ids \ {s} : composeStack'[i] = composeStack[i]
      /\ totalSupply' = totalSupply + Cardinality(rec.burned)
      /\ totalMinted' = totalMinted
      /\ ownerToken' = IF rec.ownerTokenFrom # 0 THEN rec.ownerTokenFrom
                       ELSE ownerToken
      /\ old[1] = s
  BY DecomposeEffect
<1>2. /\ totalMinted \in Nat /\ ownerToken \in Nat /\ ownerToken' \in Nat
      /\ \A i \in Ids : i \in Nat
  BY ConstantTypes DEF TypeOK
<1>3. \A p \in Places' : /\ p \in Places
                         /\ RecordAt(p)' = RecordAt(p)
                         /\ HeldAt(p)' = HeldAt(p)
  BY <1>1, RecordsAfter DEF HeldAt
<1> HIDE DEF n, rec, old
<1>4. SupplyCountsLiveShapes'
  <2>1. IsFiniteSet(Live) /\ IsFiniteSet(rec.burned)
    BY <1>1, IdsFinite, LiveMembers
  <2>2. Live \cap rec.burned = {} /\ Cardinality({}) = 0
    BY <1>1, FS_EmptySet
  <2>3. Cardinality(Live) \in Nat /\ Cardinality(rec.burned) \in Nat
    BY <2>1, FS_CardinalityType
  <2>4. Cardinality(Live \cup rec.burned)
            = Cardinality(Live) + Cardinality(rec.burned) - 0
    BY <2>1, <2>2, FS_Union
  <2>5. totalSupply = Cardinality(Live)
    BY DEF Structure, SupplyCountsLiveShapes
  <2>6. totalSupply' = Cardinality(Live')
    BY <1>1, <2>3, <2>4, <2>5
  <2>7. \A i \in Live' : i < totalMinted'
    BY <1>1, StructureFacts
  <2> QED
    BY <2>6, <2>7 DEF SupplyCountsLiveShapes
<1>5. HeldShapesAreDeadAndUnique'
  <2>1. \A p \in Places' : \A i \in HeldAt(p)' :
            i \in Ids /\ i \notin Live' /\ i < totalMinted'
    BY <1>1, <1>3, StructureFacts
  <2>2. \A p, q \in Places' : p # q => HeldAt(p)' \cap HeldAt(q)' = {}
    BY <1>3, StructureFacts
  <2> QED
    BY <2>1, <2>2, LiveMembers DEF HeldShapesAreDeadAndUnique
<1>6. FreshIdsHaveNoRecords'
  <2>1. s < totalMinted
    BY <1>1, StructureFacts
  <2> QED
    BY <1>1, <1>2, <2>1 DEF Structure, FreshIdsHaveNoRecords
<1>7. OwnerTokenLive'
  <2>1. rec.ownerTokenFrom \in Nat
    BY <1>1, ConstantTypes DEF ComposeRecord
  <2>2. rec.ownerTokenFrom # 0 => rec.ownerTokenFrom - 1 \in Live'
    BY <1>1, StructureFacts
  <2> QED
    BY <1>1, <2>1, <2>2, StructureFacts DEF OwnerTokenLive
<1>8. OwnerReturnPath'
  <2>1. ASSUME NEW p \in Places', RecordAt(p).ownerTokenFrom # 0, p[1] \in Live'
        PROVE  ownerToken' = p[1] + 1
    <3>1. p \in Places /\ p # old
      BY <1>1
    <3>2. CASE p[1] \in Live
      <4>1. ownerToken = p[1] + 1
        BY <2>1, <3>1, <3>2, StructureFacts
      <4>2. rec.ownerTokenFrom = 0
        <5> SUFFICES ASSUME rec.ownerTokenFrom # 0 PROVE FALSE
          OBVIOUS
        <5>1. ownerToken = s + 1
          BY <1>1, StructureFacts
        <5>2. p[1] = s
          BY <1>1, <1>2, <3>1, <4>1, <5>1, StructureFacts
        <5> QED
          BY <1>1, <2>1, <3>1, <5>2, StructureFacts
      <4> QED
        BY <1>1, <4>1, <4>2
    <3>3. CASE p[1] \in rec.burned
      <4>1. rec.ownerTokenFrom = p[1] + 1
        BY <1>1, <2>1, <3>1, <3>3, StructureFacts
      <4>2. p[1] \in Nat
        BY <1>2, <3>1, StructureFacts
      <4> QED
        BY <1>1, <4>1, <4>2
    <3> QED
      BY <1>1, <2>1, <3>2, <3>3
  <2>2. \A p \in Places' : RecordAt(p)'.ownerTokenFrom # 0 =>
            /\ RecordAt(p)'.ownerTokenFrom - 1 \in HeldAt(p)'
            /\ p[1] \in Live' => ownerToken' = p[1] + 1
            /\ \A q \in Places' :
                  /\ q[1] = p[1] /\ RecordAt(q)'.ownerTokenFrom # 0 => q = p
                  /\ p[1] \in HeldAt(q)' => RecordAt(q)'.ownerTokenFrom = p[1] + 1
    BY <1>3, <2>1, StructureFacts
  <2>3. \A p \in Places' : p[1] \in Ids
    BY <1>3, StructureFacts
  <2> QED
    BY <2>2, <2>3, LiveMembers DEF OwnerReturnPath
<1> QED
  BY <1>4, <1>5, <1>6, <1>7, <1>8 DEF Structure

-----------------------------------------------------------------------------
(* Every step keeps the structure.                                         *)

\* burnBacking changes no owner and no record.
LEMMA BurnBackingKeeps ==
    ASSUME NEW caller, NEW i \in Ids, BurnBacking(caller, i)
    PROVE  /\ UNCHANGED <<composeStack, totalSupply, totalMinted, ownerToken,
                          historyVars>>
           /\ Live' = Live
BY DEF BurnBacking, Live, erc721Vars

\* Every step is one of the kinds the lemmas of this module treat.
LEMMA StepKinds ==
    ASSUME [Next]_vars
    PROVE  \/ StillStep
           \/ \E d \in Denoms, q \in 1 .. MaxMinted, to \in Accounts :
                 MintBatch(d, q, to)
           \/ \E caller \in Accounts, S \in SUBSET Ids, allowBlack \in BOOLEAN :
                 RedeemSet(caller, S, allowBlack)
           \/ \E caller \in Accounts, i \in Ids : BurnBacking(caller, i)
           \/ \E caller \in Accounts, s \in Ids, burnIds \in SUBSET Ids :
                 Compose(caller, s, burnIds)
           \/ \E caller \in Accounts, s \in Ids, to \in Accounts :
                 Decompose(caller, s, to)
           \/ \E caller \in Accounts, i \in Ids, out \in OutputLists,
                 to \in Accounts : Split(caller, i, out, to)
<1>1. ASSUME NEW caller \in Accounts, HolderStep(caller)
      PROVE  \/ \E S \in SUBSET Ids, allowBlack \in BOOLEAN :
                   RedeemSet(caller, S, allowBlack)
             \/ \E i \in Ids : BurnBacking(caller, i)
             \/ \E s \in Ids, burnIds \in SUBSET Ids : Compose(caller, s, burnIds)
             \/ \E s \in Ids, to \in Accounts : Decompose(caller, s, to)
             \/ \E i \in Ids, out \in OutputLists, to \in Accounts :
                   Split(caller, i, out, to)
  <2>1. ASSUME NEW i \in Ids, Redeem(caller, i) \/ Burn(caller, i)
        PROVE  \E S \in SUBSET Ids, allowBlack \in BOOLEAN :
                   RedeemSet(caller, S, allowBlack)
    <3>1. {i} \in SUBSET Ids
      OBVIOUS
    <3>2. RedeemSet(caller, {i}, FALSE) \/ RedeemSet(caller, {i}, TRUE)
      BY <2>1 DEF Redeem, Burn
    <3> QED
      BY <3>1, <3>2
  <2>2. ASSUME NEW S \in SUBSET Live, RedeemBatch(caller, S)
        PROVE  \E allowBlack \in BOOLEAN : RedeemSet(caller, S, allowBlack)
    BY <2>2 DEF RedeemBatch
  <2> QED
    BY <1>1, <2>1, <2>2, LiveIds DEF HolderStep
<1>2. OpenStep => \/ StillStep
                  \/ \E d \in Denoms, q \in 1 .. MaxMinted, to \in Accounts :
                        MintBatch(d, q, to)
  BY DEF OpenStep, StillStep
<1>3. (\E caller \in Accounts : TokenStep(caller) \/ AdminStep(caller))
          \/ UNCHANGED vars => StillStep
  BY DEF StillStep
<1> QED
  BY <1>1, <1>2, <1>3 DEF Next

\* Every step keeps the structure.
LEMMA NextStructure ==
    ASSUME TypeOK, Structure, [Next]_vars
    PROVE  Structure'
<1>1. TypeOK'
  BY NextType
<1>2. CASE StillStep
  <2>1. /\ UNCHANGED <<composeStack, totalSupply, totalMinted, ownerToken>>
        /\ Live' = Live
    BY <1>2, StillStepKeeps DEF storeVars
  <2> QED
    BY <1>1, <2>1, StructureByStillness
<1>3. ASSUME NEW d \in Denoms, NEW q \in 1 .. MaxMinted, NEW to \in Accounts,
             MintBatch(d, q, to)
      PROVE  Structure'
  BY <1>1, <1>3, MintIssues, StructureByIssue
<1>4. ASSUME NEW caller \in Accounts, NEW S \in SUBSET Ids, NEW allowBlack,
             RedeemSet(caller, S, allowBlack)
      PROVE  Structure'
  BY <1>1, <1>4, RedemptionRetires, StructureByIssue
<1>5. ASSUME NEW caller \in Accounts, NEW i \in Ids, BurnBacking(caller, i)
      PROVE  Structure'
  BY <1>1, <1>5, BurnBackingKeeps, StructureByStillness
<1>6. ASSUME NEW caller \in Accounts, NEW s \in Ids, NEW burnIds \in SUBSET Ids,
             Compose(caller, s, burnIds)
      PROVE  Structure'
  <2>1. PICK n, new, rec : /\ n = Len(composeStack[s]) + 1
                           /\ new = <<s, n>>
                           /\ rec = RecordOf(s, burnIds)
    OBVIOUS
  <2> QED
    BY <1>1, <1>6, <2>1, StructureByCompose
<1>7. ASSUME NEW caller \in Accounts, NEW s \in Ids, NEW to \in Accounts,
             Decompose(caller, s, to)
      PROVE  Structure'
  BY <1>1, <1>7, StructureByDecompose
<1>8. ASSUME NEW caller \in Accounts, NEW i \in Ids, NEW out \in OutputLists,
             NEW to \in Accounts, Split(caller, i, out, to)
      PROVE  Structure'
  BY <1>1, <1>8, SplitIssues, StructureByIssue
<1> QED
  BY <1>2, <1>3, <1>4, <1>5, <1>6, <1>7, <1>8, StepKinds

\* The structure holds when the contract has been constructed: the deployer
\* holds token 0, which is the owner token, and there are no records.
LEMMA InitStructure == Init => Structure
<1> SUFFICES ASSUME Init PROVE Structure
  OBVIOUS
<1>1. /\ totalSupply = 1 /\ totalMinted = 1 /\ ownerToken = 1
      /\ \A i \in Ids : composeStack[i] = <<>>
      /\ \A i \in Ids : owners[i] = IF i = 0 THEN Deployer ELSE NoOne
  BY DEF Init
<1>2. Live = {0}
  BY <1>1, ConstantTypes, AccountsAssumption DEF Live
<1>3. Places = {}
  <2>1. ASSUME NEW p \in Places
        PROVE  FALSE
    <3>1. PICK s \in Ids : p \in {s} \X (1 .. Len(composeStack[s]))
      BY DEF Places
    <3>2. Len(composeStack[s]) = 0
      BY <1>1
    <3> QED
      BY <3>1, <3>2
  <2> QED
    BY <2>1
<1>4. Cardinality({0}) = 1
  BY FS_Singleton
<1>5. SupplyCountsLiveShapes
  BY <1>1, <1>2, <1>4 DEF SupplyCountsLiveShapes
<1> QED
  BY <1>1, <1>2, <1>3, <1>5
     DEF Structure, HeldShapesAreDeadAndUnique, FreshIdsHaveNoRecords,
         OwnerTokenLive, OwnerReturnPath

\* The structure always holds.
LEMMA StructureAlways == Spec => [](TypeOK /\ Structure)
<1>1. Init => TypeOK /\ Structure
  BY InitType, InitStructure
<1>2. TypeOK /\ Structure /\ [Next]_vars => (TypeOK /\ Structure)'
  BY NextType, NextStructure
<1> QED
  BY <1>1, <1>2, PTL DEF Spec

\* totalSupply is always the number of tokens with an owner, and the counter is
\* always past every one of them.
THEOREM SupplyAlwaysCounts == Spec => []SupplyCountsLiveShapes
<1>1. Structure => SupplyCountsLiveShapes
  BY DEF Structure
<1> QED
  BY <1>1, StructureAlways, PTL

\* A token that a record would re-mint is always dead and held by that record
\* alone, so decompose can always mint it.
THEOREM HeldAlwaysDeadAndUnique == Spec => []HeldShapesAreDeadAndUnique
<1>1. Structure => HeldShapesAreDeadAndUnique
  BY DEF Structure
<1> QED
  BY <1>1, StructureAlways, PTL

\* The owner token is always live or gone, and every record that took ownership
\* from an input can always give it back.
THEOREM OwnerTokenAlwaysPlaced == Spec => [](OwnerTokenLive /\ OwnerReturnPath)
<1>1. Structure => OwnerTokenLive /\ OwnerReturnPath
  BY DEF Structure
<1> QED
  BY <1>1, StructureAlways, PTL

\* An id that was redeemed or split never has an owner again: mint and split
\* issue ids the counter has not passed, and decompose only ids a record holds.
LEMMA DeadEndsStep ==
    ASSUME TypeOK, Structure, [Next]_vars, NEW i \in Ids, i < totalMinted,
           ~IsLive(i), i \notin HeldIds
    PROVE  owners'[i] = NoOne
<1>1. i \notin Live /\ (i \notin Live' => owners'[i] = NoOne)
  BY LiveMembers DEF Live, IsLive
<1>2. \A Out, In : Issued(Out, In) => i \notin Live'
  <2> SUFFICES ASSUME NEW Out, NEW In, Issued(Out, In) PROVE i \notin Live'
    OBVIOUS
  <2>1. i \notin In
    BY ConstantTypes DEF Issued, TypeOK
  <2> QED
    BY <1>1, <2>1 DEF Issued
<1>3. CASE StillStep
  BY <1>1, <1>3, StillStepKeeps
<1>4. ASSUME NEW d \in Denoms, NEW q \in 1 .. MaxMinted, NEW to \in Accounts,
             MintBatch(d, q, to)
      PROVE  i \notin Live'
  BY <1>2, <1>4, MintIssues
<1>5. ASSUME NEW caller \in Accounts, NEW S \in SUBSET Ids, NEW allowBlack,
             RedeemSet(caller, S, allowBlack)
      PROVE  i \notin Live'
  BY <1>2, <1>5, RedemptionRetires
<1>6. ASSUME NEW caller \in Accounts, NEW t \in Ids, BurnBacking(caller, t)
      PROVE  i \notin Live'
  BY <1>1, <1>6, BurnBackingKeeps
<1>7. ASSUME NEW caller \in Accounts, NEW s \in Ids, NEW burnIds \in SUBSET Ids,
             Compose(caller, s, burnIds)
      PROVE  i \notin Live'
  BY <1>1, <1>7, ComposeBurns
<1>8. ASSUME NEW caller \in Accounts, NEW s \in Ids, NEW to \in Accounts,
             Decompose(caller, s, to)
      PROVE  i \notin Live'
  <2>1. PICK n, rec : n = Len(composeStack[s]) /\ rec = Last(composeStack[s])
    OBVIOUS
  <2>2. /\ Live' = Live \cup rec.burned
        /\ <<s, n>> \in Places /\ HeldAt(<<s, n>>) = rec.burned
    BY <1>8, <2>1, DecomposeEffect
  <2> QED
    BY <1>1, <2>2 DEF HeldIds
<1>9. ASSUME NEW caller \in Accounts, NEW t \in Ids, NEW out \in OutputLists,
             NEW to \in Accounts, Split(caller, t, out, to)
      PROVE  i \notin Live'
  BY <1>2, <1>9, SplitIssues
<1> QED
  BY <1>1, <1>3, <1>4, <1>5, <1>6, <1>7, <1>8, <1>9, StepKinds

\* An id that was redeemed or split never has an owner again.
THEOREM DeadEndsNeverReturn == Spec => DeadEndsStayDead
<1>1. TypeOK /\ Structure /\ [Next]_vars =>
          [\A i \in Ids : i < totalMinted /\ ~IsLive(i) /\ i \notin HeldIds
               => owners'[i] = NoOne]_vars
  BY DeadEndsStep
<1> QED
  BY <1>1, StructureAlways, PTL DEF Spec, DeadEndsStayDead

\* No step brings an owner token back: the record popped by decompose has no
\* claim left once the owner token is gone.
LEMMA OwnerEndStep ==
    ASSUME TypeOK, Structure, [Next]_vars, ownerToken = 0
    PROVE  ownerToken' = 0
<1>1. \A S \in SUBSET Ids : ownerToken - 1 \notin S
  BY ConstantTypes
<1>2. ASSUME NEW Out, NEW In, Issued(Out, In), OwnerFollows(Out, In)
      PROVE  ownerToken' = 0
  BY <1>1, <1>2, LiveMembers DEF Issued, OwnerFollows
<1>3. CASE StillStep
  BY <1>3, StillStepKeeps
<1>4. ASSUME NEW d \in Denoms, NEW q \in 1 .. MaxMinted, NEW to \in Accounts,
             MintBatch(d, q, to)
      PROVE  ownerToken' = 0
  BY <1>2, <1>4, MintIssues
<1>5. ASSUME NEW caller \in Accounts, NEW S \in SUBSET Ids, NEW allowBlack,
             RedeemSet(caller, S, allowBlack)
      PROVE  ownerToken' = 0
  BY <1>2, <1>5, RedemptionRetires
<1>6. ASSUME NEW caller \in Accounts, NEW t \in Ids, BurnBacking(caller, t)
      PROVE  ownerToken' = 0
  BY <1>6, BurnBackingKeeps
<1>7. ASSUME NEW caller \in Accounts, NEW s \in Ids, NEW burnIds \in SUBSET Ids,
             Compose(caller, s, burnIds)
      PROVE  ownerToken' = 0
  BY <1>1, <1>7, ComposeBurns DEF OwnerTokenAfterCompose
<1>8. ASSUME NEW caller \in Accounts, NEW s \in Ids, NEW to \in Accounts,
             Decompose(caller, s, to)
      PROVE  ownerToken' = 0
  <2>1. PICK n, rec, p : /\ n = Len(composeStack[s])
                         /\ rec = Last(composeStack[s])
                         /\ p = <<s, n>>
    OBVIOUS
  <2>2. /\ s \in Live /\ p \in Places /\ RecordAt(p) = rec /\ p[1] = s
        /\ ownerToken' = IF rec.ownerTokenFrom # 0 THEN rec.ownerTokenFrom
                         ELSE ownerToken
    BY <1>8, <2>1, DecomposeEffect
  <2>3. s \in Nat
    BY ConstantTypes
  <2> QED
    BY <2>2, <2>3, StructureFacts
<1>9. ASSUME NEW caller \in Accounts, NEW t \in Ids, NEW out \in OutputLists,
             NEW to \in Accounts, Split(caller, t, out, to)
      PROVE  ownerToken' = 0
  BY <1>2, <1>9, SplitIssues
<1> QED
  BY <1>3, <1>4, <1>5, <1>6, <1>7, <1>8, <1>9, StepKinds

\* Redeeming the owner token ends collection ownership for good.
THEOREM OwnerEndsForGood == Spec => OwnerTokenEndIsFinal
<1>1. TypeOK /\ Structure /\ [Next]_vars => [ownerToken = 0 => ownerToken' = 0]_vars
  BY OwnerEndStep
<1> QED
  BY <1>1, StructureAlways, PTL DEF Spec, OwnerTokenEndIsFinal

-----------------------------------------------------------------------------
(* The balance.                                                            *)

\* Every step moves the balance by what it moves the reserve, the fees owed and
\* the forced ETH.
LEMMA BalanceStep ==
    ASSUME TypeOK, BalanceCoversObligations, [Next]_vars
    PROVE  BalanceCoversObligations'
<1>1. /\ ethBalance \in Nat /\ redeemableBacking \in Nat
      /\ totalFeesOwed \in Nat /\ forcedEth \in Nat
      /\ ethBalance = redeemableBacking + totalFeesOwed + forcedEth
  BY DEF TypeOK, BalanceCoversObligations
<1>2. CASE StillStep
  <2>1. ASSUME NEW caller \in Accounts, TokenStep(caller) \/ AdminStep(caller)
        PROVE  UNCHANGED <<ethBalance, redeemableBacking, totalFeesOwed, forcedEth>>
    BY <2>1 DEF TokenStep, TransferFrom, Approve, SetApprovalForAll, AdminStep,
                TransferAdmin, RenounceAdmin, SetFeeRecipient, SetMintFee,
                reserveVars, feeVars
  <2>2. ASSUME NEW recipient \in Accounts, WithdrawFees(recipient)
        PROVE  ethBalance' = redeemableBacking' + totalFeesOwed' + forcedEth'
    <3>1. feesOwed[recipient] \in Nat
      BY DEF TypeOK
    <3> QED
      BY <1>1, <2>2, <3>1 DEF WithdrawFees
  <2>3. ASSUME OpenMint \/ UNCHANGED vars
        PROVE  UNCHANGED <<ethBalance, redeemableBacking, totalFeesOwed, forcedEth>>
    BY <2>3 DEF OpenMint, vars, reserveVars, feeVars
  <2>4. ASSUME ForceEth
        PROVE  ethBalance' = redeemableBacking' + totalFeesOwed' + forcedEth'
    BY <1>1, <2>4 DEF ForceEth, feeVars
  <2> QED
    BY <1>1, <1>2, <2>1, <2>2, <2>3, <2>4 DEF StillStep, BalanceCoversObligations
<1>3. ASSUME NEW d \in Denoms, NEW q \in 1 .. MaxMinted, NEW to \in Accounts,
             MintBatch(d, q, to)
      PROVE  BalanceCoversObligations'
  <2>1. PICK backing, fees :
            /\ backing = SumOver([i \in Ids |-> Units[d]], NextIds(q))
            /\ fees = mintFee * q
    OBVIOUS
  <2>2. /\ redeemableBacking' = redeemableBacking + backing
        /\ ethBalance' = ethBalance + backing + fees
        /\ totalFeesOwed' = totalFeesOwed + fees
        /\ forcedEth' = forcedEth
    BY <1>3, <2>1 DEF MintBatch, AccrueFees
  <2>3. backing \in Nat
    <3>1. NextIds(q) \subseteq Ids
      BY <1>3, NextIdsFresh, ConstantTypes DEF MintBatch
    <3>2. [i \in Ids |-> Units[d]] \in [Ids -> Nat]
      BY ConstantTypes
    <3> QED
      BY <2>1, <3>1, <3>2, IdSumNat
  <2>4. fees \in Nat
    <3>1. mintFee \in Nat /\ q \in Nat
      BY BoundsAssumption, ConstantTypes DEF TypeOK
    <3> QED
      BY <2>1, <3>1
  <2> QED
    BY <1>1, <2>2, <2>3, <2>4 DEF BalanceCoversObligations
<1>4. ASSUME NEW caller \in Accounts, NEW S \in SUBSET Ids, NEW allowBlack,
             RedeemSet(caller, S, allowBlack)
      PROVE  BalanceCoversObligations'
  <2>1. PICK amount : amount = SumOver(Backings, S)
    OBVIOUS
  <2>2. amount \in Nat
    BY <2>1, SummandTypes, IdSumNat
  <2>3. /\ redeemableBacking' = redeemableBacking - amount
        /\ ethBalance' = ethBalance - amount
        /\ totalFeesOwed' = totalFeesOwed /\ forcedEth' = forcedEth
    BY <1>4, <2>1 DEF RedeemSet, feeVars
  <2> QED
    BY <1>1, <2>2, <2>3 DEF BalanceCoversObligations
<1>5. ASSUME NEW caller \in Accounts, NEW i \in Ids, BurnBacking(caller, i)
      PROVE  BalanceCoversObligations'
  <2>1. PICK amount : amount = Units[Apex]
    OBVIOUS
  <2>2. amount \in Nat
    BY <2>1, ConstantTypes
  <2>3. /\ redeemableBacking' = redeemableBacking - amount
        /\ ethBalance' = ethBalance - amount
        /\ totalFeesOwed' = totalFeesOwed /\ forcedEth' = forcedEth
    BY <1>5, <2>1 DEF BurnBacking, feeVars
  <2> QED
    BY <1>1, <2>2, <2>3 DEF BalanceCoversObligations
<1>6. ASSUME NEW caller \in Accounts, NEW s \in Ids,
             \/ \E burnIds \in SUBSET Ids : Compose(caller, s, burnIds)
             \/ \E to \in Accounts : Decompose(caller, s, to)
             \/ \E out \in OutputLists, to \in Accounts : Split(caller, s, out, to)
      PROVE  BalanceCoversObligations'
  BY <1>1, <1>6 DEF Compose, Decompose, Split, reserveVars, feeVars,
                    BalanceCoversObligations
<1> QED
  BY <1>2, <1>3, <1>4, <1>5, <1>6, StepKinds

\* The contract's ETH is always the reserve, the fees owed and what was forced
\* in, for every ladder and every fee.
THEOREM BalanceAlwaysCovers == Spec => []BalanceCoversObligations
<1>1. Init => BalanceCoversObligations
  BY ConstantTypes DEF Init, BalanceCoversObligations
<1>2. TypeOK /\ BalanceCoversObligations /\ [Next]_vars
          => BalanceCoversObligations'
  BY BalanceStep
<1> QED
  BY <1>1, <1>2, TypeCorrect, PTL DEF Spec

-----------------------------------------------------------------------------
(* Fees.                                                                   *)

\* Every fee a recipient is owed was added to the sum, and only finitely many
\* recipients are owed any, whatever the set of accounts.
FeesKept ==
    /\ FeesOwedAddUp
    /\ \E F \in SUBSET Accounts :
          IsFiniteSet(F) /\ \A a \in Accounts \ F : feesOwed[a] = 0

\* One recipient's balance moves from x to y: the sum moves by as much.
LEMMA OwedMoves ==
    ASSUME TypeOK, FeesKept, NEW r \in Accounts, NEW y \in Nat,
           feesOwed' = [feesOwed EXCEPT ![r] = y],
           totalFeesOwed' = totalFeesOwed + y - feesOwed[r]
    PROVE  FeesKept'
<1>1. PICK G \in SUBSET Accounts :
          IsFiniteSet(G) /\ \A a \in Accounts \ G : feesOwed[a] = 0
  BY DEF FeesKept
<1> DEFINE F == G \cup {r}
<1>2. /\ F \in SUBSET Accounts /\ IsFiniteSet(F) /\ r \in F
      /\ \A a \in Accounts \ F : feesOwed[a] = 0
  BY <1>1, FS_AddElement
<1> HIDE DEF F
<1>3. PICK f, g : f = feesOwed /\ g = feesOwed'
  OBVIOUS
<1>4. /\ f \in [Accounts -> Nat] /\ g \in [Accounts -> Nat] /\ g[r] = y
      /\ \A a \in Accounts \ {r} : g[a] = f[a]
  BY <1>3 DEF TypeOK
<1>5. /\ SumOver(f, Accounts) = SumOver(f, F)
      /\ SumOver(g, Accounts) = SumOver(g, F)
  <2>1. \A a \in Accounts \ F : f[a] = 0 /\ g[a] = 0
    BY <1>2, <1>3, <1>4
  <2> QED
    BY <1>2, <2>1, SumSupport
<1>6. /\ SumOver(f, F) = f[r] + SumOver(f, F \ {r})
      /\ SumOver(g, F) = g[r] + SumOver(g, F \ {r})
  BY <1>2, <1>4, SumRemove
<1>7. SumOver(f, F \ {r}) = SumOver(g, F \ {r})
  BY <1>2, <1>4, SumSame
<1>8. SumOver(f, F \ {r}) \in Nat
  BY <1>2, <1>4, FS_RemoveElement, SumNat
<1>9. totalFeesOwed = SumOver(f, Accounts) /\ totalFeesOwed \in Nat
  BY <1>3 DEF FeesKept, FeesOwedAddUp, TypeOK
<1>10. totalFeesOwed' = SumOver(g, Accounts)
  BY <1>3, <1>4, <1>5, <1>6, <1>7, <1>8, <1>9
<1>11. \A a \in Accounts \ F : g[a] = 0
  BY <1>2, <1>3, <1>4
<1> QED
  BY <1>2, <1>3, <1>10, <1>11 DEF FeesKept, FeesOwedAddUp

\* A step that is neither a mint nor a withdrawal leaves the fees alone.
LEMMA FeesMoves ==
    ASSUME TypeOK, [Next]_vars
    PROVE  \/ UNCHANGED feeVars
           \/ \E d \in Denoms, q \in 1 .. MaxMinted, to \in Accounts :
                 MintBatch(d, q, to)
           \/ \E recipient \in Accounts : WithdrawFees(recipient)
<1>1. ASSUME NEW caller \in Accounts, TokenStep(caller) \/ AdminStep(caller)
      PROVE  UNCHANGED feeVars
  BY <1>1 DEF TokenStep, TransferFrom, Approve, SetApprovalForAll, AdminStep,
              TransferAdmin, RenounceAdmin, SetFeeRecipient, SetMintFee
<1>2. OpenMint \/ ForceEth \/ UNCHANGED vars => UNCHANGED feeVars
  BY DEF OpenMint, ForceEth, vars
<1>3. StillStep => \/ UNCHANGED feeVars
                   \/ \E recipient \in Accounts : WithdrawFees(recipient)
  BY <1>1, <1>2 DEF StillStep
<1>4. ASSUME NEW caller, NEW S, NEW allowBlack, RedeemSet(caller, S, allowBlack)
      PROVE  UNCHANGED feeVars
  BY <1>4 DEF RedeemSet
<1>5. ASSUME NEW caller, NEW i,
             \/ BurnBacking(caller, i)
             \/ \E burnIds \in SUBSET Ids : Compose(caller, i, burnIds)
             \/ \E to \in Accounts : Decompose(caller, i, to)
             \/ \E out \in OutputLists, to \in Accounts :
                   Split(caller, i, out, to)
      PROVE  UNCHANGED feeVars
  BY <1>5 DEF BurnBacking, Compose, Decompose, Split
<1> QED
  BY <1>3, <1>4, <1>5, StepKinds

\* What a mint adds to the fees is a natural number, owed to an account.
LEMMA MintFees ==
    ASSUME TypeOK, NEW d \in Denoms, NEW q \in 1 .. MaxMinted,
           NEW to \in Accounts, MintBatch(d, q, to), NEW fees,
           fees = mintFee * q
    PROVE  /\ fees \in Nat
           /\ feesOwed' = [feesOwed EXCEPT ![feeRecipient] = @ + fees]
           /\ totalFeesOwed' = totalFeesOwed + fees
<1>1. mintFee \in Nat /\ q \in Nat
  BY BoundsAssumption, ConstantTypes DEF TypeOK
<1>2. fees \in Nat
  BY <1>1
<1> QED
  BY <1>2 DEF MintBatch, AccrueFees

\* Every step keeps the fees.
LEMMA FeesStep ==
    ASSUME TypeOK, FeesKept, [Next]_vars
    PROVE  FeesKept'
<1>1. CASE UNCHANGED feeVars
  BY <1>1 DEF FeesKept, FeesOwedAddUp, feeVars
<1>2. ASSUME NEW d \in Denoms, NEW q \in 1 .. MaxMinted, NEW to \in Accounts,
             MintBatch(d, q, to)
      PROVE  FeesKept'
  <2>1. PICK fees, r, y : /\ fees = mintFee * q
                          /\ r = feeRecipient
                          /\ y = feesOwed[r] + fees
    OBVIOUS
  <2>2. /\ fees \in Nat
        /\ feesOwed' = [feesOwed EXCEPT ![r] = y]
        /\ totalFeesOwed' = totalFeesOwed + fees
    BY <1>2, <2>1, MintFees
  <2>3. r \in Accounts /\ feesOwed[r] \in Nat /\ totalFeesOwed \in Nat
    BY <2>1 DEF TypeOK
  <2>4. y \in Nat /\ totalFeesOwed' = totalFeesOwed + y - feesOwed[r]
    BY <2>1, <2>2, <2>3
  <2> QED
    BY <2>2, <2>3, <2>4, OwedMoves
<1>3. ASSUME NEW r \in Accounts, WithdrawFees(r)
      PROVE  FeesKept'
  <2>1. /\ feesOwed' = [feesOwed EXCEPT ![r] = 0]
        /\ totalFeesOwed' = totalFeesOwed - feesOwed[r]
    BY <1>3 DEF WithdrawFees
  <2>2. feesOwed[r] \in Nat /\ totalFeesOwed \in Nat
    BY DEF TypeOK
  <2>3. totalFeesOwed' = totalFeesOwed + 0 - feesOwed[r]
    BY <2>1, <2>2
  <2> QED
    BY <2>1, <2>3, OwedMoves
<1> QED
  BY <1>1, <1>2, <1>3, FeesMoves

\* pendingFees is always the sum of what each recipient is owed, for any set of
\* accounts and any sequence of fees and recipients.
THEOREM FeesAlwaysAddUp == Spec => []FeesOwedAddUp
<1>1. Init => FeesKept
  <2> SUFFICES ASSUME Init PROVE FeesKept
    OBVIOUS
  <2>1. /\ \A a \in Accounts : feesOwed[a] = 0
        /\ totalFeesOwed = 0
    BY DEF Init
  <2>2. SumOver(feesOwed, Accounts) = SumOver(feesOwed, {})
    BY <2>1, SumSupport
  <2>3. IsFiniteSet({})
    BY FS_EmptySet
  <2> QED
    BY <2>1, <2>2, <2>3, SumEmpty DEF FeesKept, FeesOwedAddUp
<1>2. TypeOK /\ FeesKept /\ [Next]_vars => FeesKept'
  BY FeesStep
<1>3. FeesKept => FeesOwedAddUp
  BY DEF FeesKept
<1> QED
  BY <1>1, <1>2, <1>3, TypeCorrect, PTL DEF Spec

\* What a recipient is owed falls only in a withdrawal to it.
LEMMA FeesFallStep ==
    ASSUME TypeOK, [Next]_vars, NEW r \in Accounts, feesOwed'[r] < feesOwed[r]
    PROVE  /\ feesOwed' = [feesOwed EXCEPT ![r] = 0]
           /\ ethBalance' = ethBalance - feesOwed[r]
<1>1. feesOwed \in [Accounts -> Nat] /\ feeRecipient \in Accounts
  BY DEF TypeOK
<1>2. CASE UNCHANGED feeVars
  BY <1>1, <1>2 DEF feeVars
<1>3. ASSUME NEW d \in Denoms, NEW q \in 1 .. MaxMinted, NEW to \in Accounts,
             MintBatch(d, q, to)
      PROVE  FALSE
  <2>1. PICK fees : fees = mintFee * q
    OBVIOUS
  <2>2. /\ fees \in Nat
        /\ feesOwed' = [feesOwed EXCEPT ![feeRecipient] = @ + fees]
    BY <1>3, <2>1, MintFees
  <2>3. feesOwed'[r] = feesOwed[r] + fees \/ feesOwed'[r] = feesOwed[r]
    BY <1>1, <2>2
  <2> QED
    BY <1>1, <2>2, <2>3
<1>4. ASSUME NEW t \in Accounts, WithdrawFees(t)
      PROVE  /\ feesOwed' = [feesOwed EXCEPT ![r] = 0]
             /\ ethBalance' = ethBalance - feesOwed[r]
  <2>1. /\ feesOwed' = [feesOwed EXCEPT ![t] = 0]
        /\ ethBalance' = ethBalance - feesOwed[t]
    BY <1>4 DEF WithdrawFees
  <2>2. r = t
    BY <1>1, <2>1
  <2> QED
    BY <2>1, <2>2
<1> QED
  BY <1>2, <1>3, <1>4, FeesMoves

\* A recipient's fees only ever leave by being paid to it whole.
THEOREM FeesAlwaysPaidWhole == Spec => FeesPaidWhole
<1>1. TypeOK /\ [Next]_vars =>
          [\A r \in Accounts : feesOwed'[r] < feesOwed[r] =>
              /\ feesOwed' = [feesOwed EXCEPT ![r] = 0]
              /\ ethBalance' = ethBalance - feesOwed[r]]_vars
  BY FeesFallStep
<1> QED
  BY <1>1, TypeCorrect, PTL DEF Spec, FeesPaidWhole

-----------------------------------------------------------------------------
(* Approvals and authority.                                                *)

\* _update clears the approval of what it burns, and mints to an account.
LEMMA ApprovalsAfterUpdate ==
    ASSUME NoApprovalOnDeadId, NEW Out, NEW In, NEW to,
           to # NoOne \/ In = {}, UpdateOwners(Out, In, to)
    PROVE  NoApprovalOnDeadId'
<1> SUFFICES ASSUME NEW i \in Ids, ~IsLive(i)'
             PROVE  approvals'[i] = NoOne
  BY DEF NoApprovalOnDeadId
<1>1. owners'[i] = NoOne
  BY DEF IsLive
<1>2. /\ approvals'[i] = IF i \in Out THEN NoOne ELSE approvals[i]
      /\ owners'[i] = IF i \in In THEN to ELSE IF i \in Out THEN NoOne
                      ELSE owners[i]
  BY DEF UpdateOwners
<1> QED
  BY <1>1, <1>2 DEF NoApprovalOnDeadId, IsLive

\* Every step keeps approvals to the tokens that have an owner.
LEMMA ApprovalsStep ==
    ASSUME TypeOK, NoApprovalOnDeadId, [Next]_vars
    PROVE  NoApprovalOnDeadId'
<1>1. NoOne \notin Accounts
  BY AccountsAssumption
<1>2. UNCHANGED <<owners, approvals>> => NoApprovalOnDeadId'
  BY DEF NoApprovalOnDeadId, IsLive
<1>3. CASE StillStep
  <2>1. ASSUME NEW caller \in Accounts, NEW i \in Ids, NEW to \in Accounts,
               TransferFrom(caller, i, to)
        PROVE  NoApprovalOnDeadId'
    <3>1. /\ owners' = [owners EXCEPT ![i] = to]
          /\ approvals' = [approvals EXCEPT ![i] = NoOne]
      BY <2>1 DEF TransferFrom
    <3> QED
      BY <1>1, <3>1 DEF TypeOK, NoApprovalOnDeadId, IsLive
  <2>2. ASSUME NEW caller \in Accounts, NEW i \in Ids,
               NEW operator \in Operators \cup {NoOne},
               Approve(caller, i, operator)
        PROVE  NoApprovalOnDeadId'
    <3>1. /\ IsLive(i) /\ owners' = owners
          /\ approvals' = [approvals EXCEPT ![i] = operator]
      BY <2>2 DEF Approve
    <3> QED
      BY <3>1 DEF TypeOK, NoApprovalOnDeadId, IsLive
  <2>3. ASSUME NEW caller \in Accounts,
               \/ \E operator \in Operators, approved \in BOOLEAN :
                     SetApprovalForAll(caller, operator, approved)
               \/ AdminStep(caller)
        PROVE  UNCHANGED <<owners, approvals>>
    BY <2>3 DEF SetApprovalForAll, AdminStep, TransferAdmin, RenounceAdmin,
                SetFeeRecipient, SetMintFee, erc721Vars
  <2>4. ASSUME NEW recipient \in Accounts, WithdrawFees(recipient)
        PROVE  UNCHANGED <<owners, approvals>>
    BY <2>4 DEF WithdrawFees, erc721Vars
  <2>5. OpenMint \/ ForceEth \/ UNCHANGED vars
            => UNCHANGED <<owners, approvals>>
    BY DEF OpenMint, ForceEth, vars, erc721Vars
  <2> QED
    BY <1>2, <1>3, <2>1, <2>2, <2>3, <2>4, <2>5 DEF StillStep, TokenStep
<1>4. ASSUME NEW d \in Denoms, NEW q \in 1 .. MaxMinted, NEW to \in Accounts,
             MintBatch(d, q, to)
      PROVE  NoApprovalOnDeadId'
  <2>1. UpdateOwners({}, NextIds(q), to)
    BY <1>4 DEF MintBatch
  <2> QED
    BY <1>1, <2>1, ApprovalsAfterUpdate
<1>5. ASSUME NEW caller \in Accounts, NEW S \in SUBSET Ids, NEW allowBlack,
             RedeemSet(caller, S, allowBlack)
      PROVE  NoApprovalOnDeadId'
  <2>1. UpdateOwners(S, {}, NoOne)
    BY <1>5 DEF RedeemSet
  <2> QED
    BY <2>1, ApprovalsAfterUpdate
<1>6. ASSUME NEW caller \in Accounts, NEW i \in Ids, BurnBacking(caller, i)
      PROVE  NoApprovalOnDeadId'
  BY <1>2, <1>6 DEF BurnBacking, erc721Vars
<1>7. ASSUME NEW caller \in Accounts, NEW s \in Ids, NEW burnIds \in SUBSET Ids,
             Compose(caller, s, burnIds)
      PROVE  NoApprovalOnDeadId'
  <2>1. UpdateOwners(burnIds, {}, NoOne)
    BY <1>7 DEF Compose
  <2> QED
    BY <2>1, ApprovalsAfterUpdate
<1>8. ASSUME NEW caller \in Accounts, NEW s \in Ids, NEW to \in Accounts,
             Decompose(caller, s, to)
      PROVE  NoApprovalOnDeadId'
  <2>1. UpdateOwners({}, Last(composeStack[s]).burned, to)
    BY <1>8 DEF Decompose
  <2> QED
    BY <1>1, <2>1, ApprovalsAfterUpdate
<1>9. ASSUME NEW caller \in Accounts, NEW i \in Ids, NEW out \in OutputLists,
             NEW to \in Accounts, Split(caller, i, out, to)
      PROVE  NoApprovalOnDeadId'
  <2>1. UpdateOwners({i}, NextIds(Len(out)), to)
    BY <1>9 DEF Split
  <2> QED
    BY <1>1, <2>1, ApprovalsAfterUpdate
<1> QED
  BY <1>3, <1>4, <1>5, <1>6, <1>7, <1>8, <1>9, StepKinds

\* An approval never outlives its token, so an input that decompose re-mints
\* always comes back with none.
THEOREM ApprovalsAlwaysOnLive == Spec => []NoApprovalOnDeadId
<1>1. Init => NoApprovalOnDeadId
  BY DEF Init, NoApprovalOnDeadId
<1>2. TypeOK /\ NoApprovalOnDeadId /\ [Next]_vars => NoApprovalOnDeadId'
  BY ApprovalsStep
<1> QED
  BY <1>1, <1>2, TypeCorrect, PTL DEF Spec

\* A live token whose owner, state and stack a step leaves alone.
LEMMA Undisturbed ==
    ASSUME NEW i, owners'[i] = owners[i], shapes'[i] = shapes[i],
           composeStack'[i] = composeStack[i]
    PROVE  ~Disturbed(i)
BY DEF Disturbed

\* No recomposition and no redemption disturbs a live token that is not its
\* caller's: what is burned is the caller's, and what is minted has no owner.
LEMMA HolderDisturbsOwn ==
    ASSUME TypeOK, NEW caller \in Accounts, HolderStep(caller), NEW i \in Live,
           owners[i] # caller
    PROVE  ~Disturbed(i)
<1>1. i \in Ids /\ owners[i] # NoOne
  BY DEF Live
<1>2. ASSUME NEW S, NEW allowBlack, RedeemSet(caller, S, allowBlack)
      PROVE  ~Disturbed(i)
  <2>1. i \notin S
    BY <1>2 DEF RedeemSet, MayRedeem
  <2>2. /\ shapes'[i] = shapes[i] /\ composeStack' = composeStack
        /\ UpdateOwners(S, {}, NoOne)
    BY <1>1, <1>2, <2>1 DEF RedeemSet
  <2>3. owners'[i] = owners[i]
    BY <1>1, <2>1, <2>2 DEF UpdateOwners
  <2> QED
    BY <2>2, <2>3, Undisturbed
<1>3. ASSUME NEW t \in Ids, BurnBacking(caller, t)
      PROVE  ~Disturbed(i)
  <2>1. t # i
    BY <1>3 DEF BurnBacking, CallerOwnsLive
  <2>2. /\ shapes' = [shapes EXCEPT ![t].black = TRUE]
        /\ composeStack' = composeStack /\ owners' = owners
    BY <1>3 DEF BurnBacking, erc721Vars
  <2>3. shapes'[i] = shapes[i]
    BY <1>1, <2>1, <2>2 DEF TypeOK
  <2> QED
    BY <2>2, <2>3, Undisturbed
<1>4. ASSUME NEW s \in Ids, NEW burnIds \in SUBSET Ids,
             Compose(caller, s, burnIds)
      PROVE  ~Disturbed(i)
  <2>1. i # s /\ i \notin burnIds
    BY <1>4 DEF Compose, MayCompose, CallerOwnsLive
  <2>2. shapes'[i] = shapes[i]
    BY <1>1, <1>4, <2>1 DEF Compose
  <2>3. composeStack'[i] = composeStack[i]
    BY <1>1, <1>4, <2>1 DEF Compose, TypeOK
  <2>4. UpdateOwners(burnIds, {}, NoOne)
    BY <1>4 DEF Compose
  <2>5. owners'[i] = owners[i]
    BY <1>1, <2>1, <2>4 DEF UpdateOwners
  <2> QED
    BY <2>2, <2>3, <2>5, Undisturbed
<1>5. ASSUME NEW s \in Ids, NEW to \in Accounts, Decompose(caller, s, to)
      PROVE  ~Disturbed(i)
  <2>1. PICK rec : rec = Last(composeStack[s])
    OBVIOUS
  <2>2. /\ CallerOwnsLive(caller, s) /\ Mintable(rec.burned, to)
        /\ shapes' = Uncomposed(s, rec)
        /\ composeStack' = [composeStack EXCEPT ![s] = Front(@)]
        /\ UpdateOwners({}, rec.burned, to)
    BY <1>5, <2>1 DEF Decompose
  <2>3. i # s /\ i \notin rec.burned
    BY <1>1, <2>2 DEF CallerOwnsLive, Mintable
  <2>4. shapes'[i] = shapes[i]
    BY <1>1, <2>2, <2>3 DEF Uncomposed
  <2>5. composeStack'[i] = composeStack[i]
    BY <1>1, <2>2, <2>3 DEF TypeOK
  <2>6. owners'[i] = owners[i]
    BY <1>1, <2>2, <2>3 DEF UpdateOwners
  <2> QED
    BY <2>4, <2>5, <2>6, Undisturbed
<1>6. ASSUME NEW t \in Ids, NEW out \in OutputLists, NEW to \in Accounts,
             Split(caller, t, out, to)
      PROVE  ~Disturbed(i)
  <2>1. PICK children : children = NextIds(Len(out))
    OBVIOUS
  <2>2. /\ CallerOwnsLive(caller, t) /\ Mintable(children, to)
        /\ shapes' = [c \in Ids |-> IF c \in children THEN ChildShape(t, out, c)
                                    ELSE IF c = t THEN Blank
                                    ELSE shapes[c]]
        /\ composeStack' = composeStack
        /\ UpdateOwners({t}, children, to)
    BY <1>6, <2>1 DEF Split
  <2>3. i # t /\ i \notin children
    BY <1>1, <2>2 DEF CallerOwnsLive, Mintable
  <2>4. shapes'[i] = shapes[i]
    BY <1>1, <2>2, <2>3
  <2>5. owners'[i] = owners[i]
    BY <1>1, <2>2, <2>3 DEF UpdateOwners
  <2> QED
    BY <2>2, <2>4, <2>5, Undisturbed
<1> QED
  BY <1>2, <1>3, <1>4, <1>5, <1>6, LiveIds
     DEF HolderStep, Redeem, Burn, RedeemBatch

\* The ERC-721 calls disturb only a token its caller is authorised for.
LEMMA TokenDisturbsAuthorised ==
    ASSUME TypeOK, NEW caller \in Accounts, TokenStep(caller), NEW i \in Live,
           ~Authorised(caller, i)
    PROVE  ~Disturbed(i)
<1>1. i \in Ids
  BY DEF Live
<1>2. ASSUME NEW t \in Ids, NEW to \in Accounts, TransferFrom(caller, t, to)
      PROVE  ~Disturbed(i)
  <2>1. t # i
    BY <1>2 DEF TransferFrom
  <2>2. owners'[i] = owners[i] /\ UNCHANGED <<shapes, composeStack>>
    BY <1>1, <1>2, <2>1 DEF TransferFrom, storeVars, TypeOK
  <2> QED
    BY <2>2, Undisturbed
<1>3. ASSUME \/ \E t \in Ids, operator \in Operators \cup {NoOne} :
                   Approve(caller, t, operator)
             \/ \E operator \in Operators, approved \in BOOLEAN :
                   SetApprovalForAll(caller, operator, approved)
      PROVE  ~Disturbed(i)
  <2>1. UNCHANGED <<owners, shapes, composeStack>>
    BY <1>3 DEF Approve, SetApprovalForAll, storeVars
  <2> QED
    BY <2>1, Undisturbed
<1> QED
  BY <1>2, <1>3 DEF TokenStep

\* Nobody but its holder, or an operator the holder or an approval names, ever
\* makes a live token change hands, state or stack.
THEOREM AlwaysOnlyTheAuthorised == Spec => OnlyTheAuthorisedDisturb
<1>1. ASSUME TypeOK, NEW i \in Live, Disturbed(i), NEW caller \in Accounts
      PROVE  Authorised(caller, i) \/ ~(HolderStep(caller) \/ TokenStep(caller))
  BY <1>1, HolderDisturbsOwn, TokenDisturbsAuthorised DEF Authorised
<1>2. TypeOK /\ [Next]_vars =>
          [\A i \in Live : Disturbed(i) =>
              \A caller \in Accounts :
                  Authorised(caller, i)
                  \/ ~(HolderStep(caller) \/ TokenStep(caller))]_vars
  BY <1>1
<1> QED
  BY <1>2, TypeCorrect, PTL DEF Spec, OnlyTheAuthorisedDisturb

\* A record that took collection ownership from an input can always give it
\* back, however deep the survivor is nested and whatever was split or redeemed
\* since.
THEOREM OwnerReturnAlwaysOpen == Spec => []OwnerReturnPath
<1>1. Structure => OwnerReturnPath
  BY DEF Structure
<1> QED
  BY <1>1, StructureAlways, PTL

-----------------------------------------------------------------------------
(* The records.                                                            *)

\* A step that touches no record, no live token that has one, and revives none
\* keeps the records exact.
LEMMA RecordsByStillness ==
    ASSUME TypeOK, RecordsConserve, composeStack' = composeStack,
           \A s \in Live' : composeStack[s] # <<>> =>
               /\ s \in Live
               /\ shapes'[s].denom = shapes[s].denom
               /\ shapes'[s].origins = shapes[s].origins
    PROVE  RecordsConserve'
<1>1. /\ Places' = Places
      /\ \A p : RecordAt(p)' = RecordAt(p) /\ HeldAt(p)' = HeldAt(p)
  BY SamePlaces
<1>2. \A s \in Live' : composeStack'[s] # <<>> =>
          Undoes(Last(composeStack'[s]), shapes'[s].denom, shapes'[s].origins)
  BY DEF RecordsConserve
<1>3. \A p \in Places' : \A i \in HeldAt(p)' : composeStack'[i] # <<>> =>
          Undoes(Last(composeStack'[i]), RecordAt(p)'.inputs[i].denom,
                 RecordAt(p)'.inputs[i].origins)
  BY <1>1 DEF RecordsConserve
<1>4. \A s \in Ids : \A k \in 1 .. Len(composeStack'[s]) - 1 :
          Undoes(composeStack'[s][k], composeStack'[s][k + 1].denom,
                                      composeStack'[s][k + 1].origins)
  BY DEF RecordsConserve
<1> QED
  BY <1>2, <1>3, <1>4 DEF RecordsConserve

\* Retiring live tokens and issuing fresh ids keeps the records exact, if it
\* leaves the other tokens as they were.
LEMMA RecordsByIssue ==
    ASSUME TypeOK, Structure, RecordsConserve, NEW Out, NEW In,
           Issued(Out, In), \A i \in Live \ Out : shapes'[i] = shapes[i]
    PROVE  RecordsConserve'
<1>1. /\ In \subseteq Ids /\ Live' = (Live \ Out) \cup In
      /\ composeStack' = composeStack
      /\ \A c \in In : totalMinted <= c
  BY DEF Issued
<1>2. \A c \in In : composeStack[c] = <<>>
  BY <1>1, ConstantTypes DEF Structure, FreshIdsHaveNoRecords, TypeOK
<1> QED
  BY <1>1, <1>2, RecordsByStillness

\* The record of a compose hands back what its donors are worth.
LEMMA RecordOfUndoes ==
    ASSUME TypeOK, NEW s \in Ids, NEW burnIds \in SUBSET Ids, s \notin burnIds,
           NEW rec, rec = RecordOf(s, burnIds)
    PROVE  /\ rec.burned = burnIds
           /\ rec.denom = shapes[s].denom /\ rec.origins = shapes[s].origins
           /\ \A b \in burnIds : /\ rec.inputs[b].denom = shapes[b].denom
                                 /\ rec.inputs[b].origins = shapes[b].origins
           /\ RecordUnits(rec) = SumOver(FaceUnits, burnIds \cup {s})
           /\ RecordOrigins(rec) = SumOver(OriginCounts, burnIds \cup {s})
<1>1. /\ rec.burned = burnIds
      /\ rec.denom = shapes[s].denom /\ rec.origins = shapes[s].origins
      /\ \A b \in burnIds : /\ rec.inputs[b].denom = shapes[b].denom
                            /\ rec.inputs[b].origins = shapes[b].origins
  BY DEF RecordOf, SnapshotOf
<1>2. /\ FaceUnits \in [Ids -> Nat] /\ OriginCounts \in [Ids -> Nat]
      /\ IsFiniteSet(burnIds \cup {s})
      /\ (burnIds \cup {s}) \ {s} = burnIds
  BY SummandTypes, IdsFinite
<1>3. SumOver(FaceUnits, burnIds \cup {s})
          = FaceUnits[s] + SumOver(FaceUnits, burnIds)
  <2>1. \A y \in burnIds \cup {s} : FaceUnits[y] \in Nat
    BY <1>2
  <2>2. SumOver(FaceUnits, burnIds \cup {s})
            = FaceUnits[s] + SumOver(FaceUnits, (burnIds \cup {s}) \ {s})
    BY <1>2, <2>1, SumRemove
  <2> QED
    BY <1>2, <2>2
<1>4. SumOver(OriginCounts, burnIds \cup {s})
          = OriginCounts[s] + SumOver(OriginCounts, burnIds)
  <2>1. \A y \in burnIds \cup {s} : OriginCounts[y] \in Nat
    BY <1>2
  <2>2. SumOver(OriginCounts, burnIds \cup {s})
            = OriginCounts[s] + SumOver(OriginCounts, (burnIds \cup {s}) \ {s})
    BY <1>2, <2>1, SumRemove
  <2> QED
    BY <1>2, <2>2
<1>5. SumOver(InputUnits(rec), burnIds) = SumOver(FaceUnits, burnIds)
  <2>1. \A b \in burnIds : InputUnits(rec)[b] = FaceUnits[b]
    BY <1>1 DEF InputUnits, FaceUnits
  <2> QED
    BY <2>1, SumSame
<1>6. SumOver(InputOrigins(rec), burnIds) = SumOver(OriginCounts, burnIds)
  <2>1. \A b \in burnIds : InputOrigins(rec)[b] = OriginCounts[b]
    BY <1>1 DEF InputOrigins, OriginCounts
  <2> QED
    BY <2>1, SumSame
<1>7. FaceUnits[s] = Units[shapes[s].denom] /\ OriginCounts[s] = shapes[s].origins
  BY DEF FaceUnits, OriginCounts
<1> QED
  BY <1>1, <1>3, <1>4, <1>5, <1>6, <1>7 DEF RecordUnits, RecordOrigins

\* A compose keeps the records exact: the one it pushes undoes the new survivor,
\* the one below it undoes the survivor it snapshots, and so do those of the
\* inputs it buries.
LEMMA RecordsByCompose ==
    ASSUME TypeOK, Structure, RecordsConserve, NEW caller \in Accounts,
           NEW s \in Ids, NEW burnIds \in SUBSET Ids,
           Compose(caller, s, burnIds),
           NEW n, n = Len(composeStack[s]) + 1, NEW new, new = <<s, n>>,
           NEW rec, rec = RecordOf(s, burnIds)
    PROVE  RecordsConserve'
<1>1. /\ s \in Live /\ s \notin burnIds /\ burnIds \subseteq Live
      /\ Live' = Live \ burnIds
      /\ new \notin Places /\ Places' = Places \cup {new}
      /\ composeStack'[s][n] = rec
      /\ \A p \in Places : composeStack'[p[1]][p[2]] = RecordAt(p)
      /\ \A i \in Ids \ {s} : composeStack'[i] = composeStack[i]
      /\ totalSupply' = totalSupply - Cardinality(burnIds)
      /\ totalMinted' = totalMinted
      /\ ownerToken' = OwnerTokenAfterCompose(s, burnIds)
  BY ComposeEffect
<1>2. /\ rec.burned = burnIds
      /\ rec.denom = shapes[s].denom /\ rec.origins = shapes[s].origins
      /\ \A b \in burnIds : /\ rec.inputs[b].denom = shapes[b].denom
                            /\ rec.inputs[b].origins = shapes[b].origins
      /\ RecordUnits(rec) = SumOver(FaceUnits, burnIds \cup {s})
      /\ RecordOrigins(rec) = SumOver(OriginCounts, burnIds \cup {s})
  BY <1>1, RecordOfUndoes
<1>3. /\ Undoes(rec, shapes'[s].denom, shapes'[s].origins)
      /\ \A i \in Ids : i # s /\ i \notin burnIds => shapes'[i] = shapes[i]
  <2>1. PICK d \in Denoms :
            /\ Units[d] = SumOver(FaceUnits, burnIds \cup {s})
            /\ shapes' = [i \in Ids |-> IF i = s THEN Composed(s, burnIds, d)
                                        ELSE IF i \in burnIds THEN Blank
                                        ELSE shapes[i]]
    BY DEF Compose
  <2>2. shapes'[s].denom = d
        /\ shapes'[s].origins = SumOver(OriginCounts, burnIds \cup {s})
    BY <2>1 DEF Composed, TypeOK, ShapeData
  <2> QED
    BY <1>2, <2>1, <2>2 DEF Undoes
<1>4. /\ RecordAt(new)' = rec
      /\ HeldAt(new)' = burnIds
      /\ \A p \in Places : RecordAt(p)' = RecordAt(p) /\ HeldAt(p)' = HeldAt(p)
  BY <1>1, <1>2, RecordsAfter DEF HeldAt
<1>5. /\ composeStack[s] \in Seq(ComposeRecord)
      /\ Len(composeStack[s]) \in Nat
      /\ composeStack'[s] = Append(composeStack[s], rec)
      /\ rec \in ComposeRecord
  <2>1. rec \in ComposeRecord
    BY RecordType
  <2>2. composeStack' = [composeStack EXCEPT ![s] = Append(@, rec)]
    BY DEF Compose
  <2> QED
    BY <2>1, <2>2, LenProperties DEF TypeOK
<1>6. /\ Len(composeStack'[s]) = n
      /\ \A k \in 1 .. n - 1 : composeStack'[s][k] = composeStack[s][k]
  BY <1>5, Pushed
<1>7. \A t \in Live' : composeStack'[t] # <<>> =>
          Undoes(Last(composeStack'[t]), shapes'[t].denom, shapes'[t].origins)
  <2>1. Last(composeStack'[s]) = rec
    BY <1>1, <1>6 DEF Last
  <2> QED
    BY <1>1, <1>3, <2>1, LiveMembers DEF RecordsConserve
<1>8. \A t \in Ids : \A k \in 1 .. Len(composeStack'[t]) - 1 :
          Undoes(composeStack'[t][k], composeStack'[t][k + 1].denom,
                                      composeStack'[t][k + 1].origins)
  <2>1. ASSUME NEW k \in 1 .. n - 1
        PROVE  Undoes(composeStack'[s][k], composeStack'[s][k + 1].denom,
                                           composeStack'[s][k + 1].origins)
    <3>1. k \in Nat /\ n \in Nat /\ composeStack'[s][k] = composeStack[s][k]
      BY <1>5, <1>6
    <3>2. CASE k + 1 = n
      <4>1. composeStack[s][k] = Last(composeStack[s]) /\ composeStack[s] # <<>>
        BY <1>5, <2>1, <3>1, <3>2 DEF Last
      <4>2. Undoes(Last(composeStack[s]), shapes[s].denom, shapes[s].origins)
        BY <1>1, <4>1 DEF RecordsConserve
      <4> QED
        BY <1>1, <1>2, <3>1, <3>2, <4>1, <4>2
    <3>3. CASE k + 1 # n
      <4>1. /\ k \in 1 .. Len(composeStack[s]) - 1
            /\ composeStack'[s][k + 1] = composeStack[s][k + 1]
        BY <1>5, <1>6, <2>1, <3>1, <3>3
      <4> QED
        BY <3>1, <4>1 DEF RecordsConserve
    <3> QED
      BY <3>2, <3>3
  <2> QED
    BY <1>1, <1>6, <2>1 DEF RecordsConserve
<1>9. \A p \in Places' : \A i \in HeldAt(p)' : composeStack'[i] # <<>> =>
          Undoes(Last(composeStack'[i]), RecordAt(p)'.inputs[i].denom,
                 RecordAt(p)'.inputs[i].origins)
  <2>1. ASSUME NEW p \in Places, NEW i \in HeldAt(p), composeStack'[i] # <<>>
        PROVE  Undoes(Last(composeStack'[i]), RecordAt(p).inputs[i].denom,
                      RecordAt(p).inputs[i].origins)
    <3>1. i \in Ids /\ i # s
      BY <1>1, <2>1, StructureFacts
    <3> QED
      BY <1>1, <2>1, <3>1 DEF RecordsConserve
  <2>2. ASSUME NEW i \in burnIds, composeStack'[i] # <<>>
        PROVE  Undoes(Last(composeStack'[i]), rec.inputs[i].denom,
                      rec.inputs[i].origins)
    <3>1. composeStack'[i] = composeStack[i] /\ i \in Live
      BY <1>1, <2>2
    <3> QED
      BY <1>2, <2>2, <3>1 DEF RecordsConserve
  <2> QED
    BY <1>1, <1>4, <2>1, <2>2
<1> QED
  BY <1>7, <1>8, <1>9 DEF RecordsConserve

\* A decompose keeps the records exact: what the popped record gives back is
\* what the records below it and of the revived inputs undo.
LEMMA RecordsByDecompose ==
    ASSUME TypeOK, Structure, RecordsConserve, NEW caller \in Accounts,
           NEW s \in Ids, NEW to \in Accounts, Decompose(caller, s, to),
           NEW n, n = Len(composeStack[s]), NEW old, old = <<s, n>>,
           NEW rec, rec = Last(composeStack[s])
    PROVE  RecordsConserve'
<1>1. /\ s \in Live
      /\ rec \in ComposeRecord
      /\ rec.burned \subseteq Ids /\ rec.burned \cap Live = {}
      /\ Live' = Live \cup rec.burned
      /\ old \in Places /\ RecordAt(old) = rec /\ HeldAt(old) = rec.burned
      /\ Places' = Places \ {old}
      /\ \A p \in Places' : composeStack'[p[1]][p[2]] = RecordAt(p)
      /\ \A i \in Ids \ {s} : composeStack'[i] = composeStack[i]
  BY DecomposeEffect
<1>2. /\ composeStack[s] \in Seq(ComposeRecord) /\ composeStack[s] # <<>>
      /\ composeStack'[s] = Front(composeStack[s])
      /\ shapes' = Uncomposed(s, rec)
  BY DEF Decompose, TypeOK
<1>3. /\ n \in Nat \ {0}
      /\ Len(composeStack'[s]) = n - 1
      /\ \A k \in 1 .. n - 1 : composeStack'[s][k] = composeStack[s][k]
  BY <1>2, Popped
<1>4. /\ shapes'[s].denom = rec.denom /\ shapes'[s].origins = rec.origins
      /\ \A i \in rec.burned : /\ shapes'[i].denom = rec.inputs[i].denom
                               /\ shapes'[i].origins = rec.inputs[i].origins
      /\ \A i \in Live : i # s => shapes'[i] = shapes[i]
  <2>1. s \in Ids /\ s \notin rec.burned /\ Live \subseteq Ids
    BY <1>1, LiveMembers
  <2>2. shapes[s] \in ShapeData
    BY DEF TypeOK
  <2>3. \A i \in Live : i # s => i \notin rec.burned
    BY <1>1
  <2> QED
    BY <1>1, <1>2, <2>1, <2>2, <2>3 DEF Uncomposed, Revived, ShapeData
<1>5. \A t \in Live' : composeStack'[t] # <<>> =>
          Undoes(Last(composeStack'[t]), shapes'[t].denom, shapes'[t].origins)
  <2>1. ASSUME composeStack'[s] # <<>>
        PROVE  Undoes(Last(composeStack'[s]), rec.denom, rec.origins)
    <3>1. composeStack'[s] \in Seq(ComposeRecord)
      BY <1>2, Popped
    <3>2. n - 1 # 0
      BY <1>3, <2>1, <3>1, EmptySeq
    <3>3. n - 1 \in 1 .. n - 1 /\ n - 1 + 1 = n
      <4>1. \A m \in Nat \ {0} :
                m - 1 # 0 => m - 1 \in 1 .. m - 1 /\ m - 1 + 1 = m
        OBVIOUS
      <4> QED
        BY <1>3, <3>2, <4>1
    <3>4. Last(composeStack'[s]) = composeStack[s][n - 1]
      BY <1>3, <3>3 DEF Last
    <3>5. composeStack[s][n - 1 + 1] = rec
      BY <3>3 DEF Last
    <3> QED
      BY <3>3, <3>4, <3>5 DEF RecordsConserve
  <2>2. ASSUME NEW t \in rec.burned, composeStack'[t] # <<>>
        PROVE  Undoes(Last(composeStack'[t]), rec.inputs[t].denom,
                      rec.inputs[t].origins)
    <3>1. t \in Ids /\ composeStack'[t] = composeStack[t]
      BY <1>1
    <3> QED
      BY <1>1, <2>2, <3>1 DEF RecordsConserve
  <2>3. ASSUME NEW t \in Live, t # s, composeStack'[t] # <<>>
        PROVE  Undoes(Last(composeStack'[t]), shapes[t].denom, shapes[t].origins)
    <3>1. t \in Ids /\ composeStack'[t] = composeStack[t]
      BY <1>1, <2>3, LiveMembers
    <3> QED
      BY <2>3, <3>1 DEF RecordsConserve
  <2> QED
    BY <1>1, <1>4, <2>1, <2>2, <2>3
<1>6. \A t \in Ids : \A k \in 1 .. Len(composeStack'[t]) - 1 :
          Undoes(composeStack'[t][k], composeStack'[t][k + 1].denom,
                                      composeStack'[t][k + 1].origins)
  <2>1. ASSUME NEW k \in 1 .. n - 1 - 1
        PROVE  Undoes(composeStack'[s][k], composeStack'[s][k + 1].denom,
                                           composeStack'[s][k + 1].origins)
    <3>1. /\ k \in 1 .. Len(composeStack[s]) - 1
          /\ composeStack'[s][k] = composeStack[s][k]
          /\ composeStack'[s][k + 1] = composeStack[s][k + 1]
      BY <1>3, <2>1
    <3> QED
      BY <3>1 DEF RecordsConserve
  <2> QED
    BY <1>1, <1>3, <2>1 DEF RecordsConserve
<1>7. \A p \in Places' : \A i \in HeldAt(p)' : composeStack'[i] # <<>> =>
          Undoes(Last(composeStack'[i]), RecordAt(p)'.inputs[i].denom,
                 RecordAt(p)'.inputs[i].origins)
  <2>1. \A p \in Places' : /\ p \in Places
                           /\ RecordAt(p)' = RecordAt(p)
                           /\ HeldAt(p)' = HeldAt(p)
    BY <1>1, RecordsAfter DEF HeldAt
  <2>2. ASSUME NEW p \in Places, NEW i \in HeldAt(p)
        PROVE  i \in Ids /\ composeStack'[i] = composeStack[i]
    BY <1>1, <2>2, StructureFacts
  <2> QED
    BY <2>1, <2>2 DEF RecordsConserve
<1> QED
  BY <1>5, <1>6, <1>7 DEF RecordsConserve

-----------------------------------------------------------------------------
(* The reserve and the origins.                                            *)

\* A step exchanges the tokens A for the tokens B and leaves the rest R alone.
Exchange(A, B, R) ==
    /\ A \subseteq Ids /\ B \subseteq Ids /\ R \subseteq Ids
    /\ A \cap R = {} /\ B \cap R = {}
    /\ Live = A \cup R
    /\ Live' = B \cup R
    /\ \A i \in R : shapes'[i] = shapes[i]

\* Such a step changes the worth of the live tokens by what B is worth more
\* than A.
LEMMA WorthByExchange ==
    ASSUME TypeOK, TypeOK', NEW A, NEW B, NEW R, Exchange(A, B, R)
    PROVE  /\ SumOver(Backings', Live') + SumOver(Backings, A)
                  = SumOver(Backings, Live) + SumOver(Backings', B)
           /\ SumOver(OriginCounts', Live') + SumOver(OriginCounts, A)
                  = SumOver(OriginCounts, Live) + SumOver(OriginCounts', B)
<1>1. PICK f, g, h, k : /\ f = Backings /\ g = Backings'
                        /\ h = OriginCounts /\ k = OriginCounts'
  OBVIOUS
<1>2. /\ f \in [Ids -> Nat] /\ g \in [Ids -> Nat]
      /\ h \in [Ids -> Nat] /\ k \in [Ids -> Nat]
  <2>1. /\ Backings \in [Ids -> Nat] /\ OriginCounts \in [Ids -> Nat]
    BY SummandTypes
  <2>2. /\ Backings' \in [Ids -> Nat] /\ OriginCounts' \in [Ids -> Nat]
    BY ConstantTypes
       DEF TypeOK, ShapeData, Backings, BackingOf, OriginCounts
  <2> QED
    BY <1>1, <2>1, <2>2
<1>3. \A x \in R : f[x] = g[x] /\ h[x] = k[x]
  BY <1>1 DEF Exchange, Backings, BackingOf, OriginCounts
<1>4. /\ A \subseteq Ids /\ B \subseteq Ids /\ R \subseteq Ids
      /\ A \cap R = {} /\ B \cap R = {}
      /\ Live = A \cup R /\ Live' = B \cup R
      /\ IsFiniteSet(A) /\ IsFiniteSet(B) /\ IsFiniteSet(R)
  BY IdsFinite DEF Exchange
<1>5. SumOver(g, B \cup R) + SumOver(f, A) = SumOver(f, A \cup R) + SumOver(g, B)
  BY <1>2, <1>3, <1>4, SumExchange
<1>6. SumOver(k, B \cup R) + SumOver(h, A) = SumOver(h, A \cup R) + SumOver(k, B)
  BY <1>2, <1>3, <1>4, SumExchange
<1> QED
  BY <1>1, <1>4, <1>5, <1>6

\* The reserve and the origins stay exact when the counters move by the worth
\* of what was exchanged.
LEMMA WorthKept ==
    ASSUME TypeOK, TypeOK', ReserveBacksLiveShapes, OriginsConserved,
           NEW A, NEW B, NEW R, Exchange(A, B, R),
           NEW b, b = SumOver(Backings, A), NEW c, c = SumOver(Backings', B),
           NEW o, o = SumOver(OriginCounts, A),
           NEW p, p = SumOver(OriginCounts', B),
           redeemableBacking' + b = redeemableBacking + c,
           p + originsRedeemed' + directMints
               = o + originsRedeemed + directMints'
    PROVE  ReserveBacksLiveShapes' /\ OriginsConserved'
<1>1. PICK v, w, x, y :
          /\ v = SumOver(Backings, Live) /\ w = SumOver(Backings', Live')
          /\ x = SumOver(OriginCounts, Live) /\ y = SumOver(OriginCounts', Live')
  OBVIOUS
<1>2. w + b = v + c /\ y + o = x + p
  BY <1>1, WorthByExchange
<1>3. /\ b \in Nat /\ c \in Nat /\ o \in Nat /\ p \in Nat
      /\ v \in Nat /\ w \in Nat /\ x \in Nat /\ y \in Nat
  <2>1. /\ A \in SUBSET Ids /\ B \in SUBSET Ids
        /\ Live \in SUBSET Ids /\ Live' \in SUBSET Ids
    BY LiveMembers DEF Exchange
  <2>2. /\ Backings \in [Ids -> Nat] /\ OriginCounts \in [Ids -> Nat]
    BY SummandTypes
  <2>3. /\ Backings' \in [Ids -> Nat] /\ OriginCounts' \in [Ids -> Nat]
    BY ConstantTypes
       DEF TypeOK, ShapeData, Backings, BackingOf, OriginCounts
  <2> QED
    BY <1>1, <2>1, <2>2, <2>3, IdSumNat
<1>4. redeemableBacking = v /\ x + originsRedeemed = directMints
  BY <1>1 DEF ReserveBacksLiveShapes, OriginsConserved
<1>5. /\ redeemableBacking \in Nat /\ redeemableBacking' \in Nat
      /\ originsRedeemed \in Nat /\ originsRedeemed' \in Nat
      /\ directMints \in Nat /\ directMints' \in Nat
  BY DEF TypeOK
<1>6. redeemableBacking' = w
  BY <1>2, <1>3, <1>4, <1>5
<1>7. y + originsRedeemed' = directMints'
  <2>1. PICK r, t, m, n : /\ r = originsRedeemed /\ t = originsRedeemed'
                          /\ m = directMints /\ n = directMints'
    OBVIOUS
  <2>2. /\ r \in Nat /\ t \in Nat /\ m \in Nat /\ n \in Nat
        /\ p + t + m = o + r + n
        /\ x + r = m
    BY <1>4, <1>5, <2>1
  <2>3. p + t = o + n - x
    BY <1>3, <2>2
  <2>4. y + t = n
    BY <1>2, <1>3, <2>2, <2>3
  <2> QED
    BY <2>1, <2>4
<1> QED
  BY <1>1, <1>6, <1>7 DEF ReserveBacksLiveShapes, OriginsConserved

\* A mint adds its backing and one origin per token.
LEMMA WorthByMint ==
    ASSUME TypeOK, TypeOK', Structure, ReserveBacksLiveShapes, OriginsConserved,
           NEW d \in Denoms, NEW q \in 1 .. MaxMinted, NEW to \in Accounts,
           MintBatch(d, q, to), NEW ids, ids = NextIds(q)
    PROVE  ReserveBacksLiveShapes' /\ OriginsConserved'
<1>1. /\ ids \subseteq Ids /\ ids \cap Live = {}
      /\ Live' = (Live \ {}) \cup ids
      /\ q \in Nat \ {0} /\ Cardinality(ids) = q
  <2>1. q \in Nat \ {0} /\ totalMinted + q <= MaxMinted
    BY ConstantTypes DEF MintBatch
  <2> QED
    BY <2>1, MintIssues, NextIdsFresh DEF Issued
<1>2. /\ redeemableBacking'
             = redeemableBacking + SumOver([i \in Ids |-> Units[d]], ids)
      /\ directMints' = directMints + q
      /\ originsRedeemed' = originsRedeemed
      /\ \A i \in Ids : shapes'[i] = IF i \in ids THEN MintedShape(i, d)
                                     ELSE shapes[i]
  BY DEF MintBatch
<1>3. Exchange({}, ids, Live)
  BY <1>1, <1>2, LiveMembers DEF Exchange
<1>4. SumOver(Backings, {}) = 0 /\ SumOver(OriginCounts, {}) = 0
  BY SumEmpty
<1>5. PICK c : c = SumOver([i \in Ids |-> Units[d]], ids)
  OBVIOUS
<1>6. c \in Nat
  <2>1. [i \in Ids |-> Units[d]] \in [Ids -> Nat]
    BY ConstantTypes
  <2> QED
    BY <1>1, <1>5, <2>1, IdSumNat
<1>7. \A i \in ids : /\ i \in Ids /\ shapes'[i].denom = d
                      /\ shapes'[i].black = FALSE /\ shapes'[i].origins = 1
  <2> SUFFICES ASSUME NEW i \in ids
               PROVE  /\ i \in Ids /\ shapes'[i].denom = d
                      /\ shapes'[i].black = FALSE /\ shapes'[i].origins = 1
    OBVIOUS
  <2>1. i \in Ids /\ shapes'[i] = MintedShape(i, d)
    BY <1>1, <1>2
  <2> QED
    BY <2>1 DEF MintedShape
<1>8. SumOver(Backings', ids) = c
  <2>1. \A i \in ids : Backings'[i] = [j \in Ids |-> Units[d]][i]
    BY <1>7 DEF Backings, BackingOf
  <2> QED
    BY <1>5, <2>1, SumSame
<1>9. SumOver(OriginCounts', ids) = q
  <2>1. \A i \in ids : OriginCounts'[i] = 1
    BY <1>7 DEF OriginCounts
  <2>2. IsFiniteSet(ids)
    BY <1>1, IdsFinite
  <2> QED
    BY <1>1, <2>1, <2>2, SumOnes
<1>10. PICK z : z = 0
  OBVIOUS
<1>11. redeemableBacking' + z = redeemableBacking + c
  BY <1>2, <1>5, <1>6, <1>10 DEF TypeOK
<1>12. q + originsRedeemed' + directMints = z + originsRedeemed + directMints'
  BY <1>1, <1>2, <1>10 DEF TypeOK
<1> QED
  BY <1>3, <1>4, <1>8, <1>9, <1>10, <1>11, <1>12, WorthKept

\* A redemption pays out what its tokens are worth and counts their origins.
LEMMA WorthByRedemption ==
    ASSUME TypeOK, TypeOK', ReserveBacksLiveShapes, OriginsConserved,
           NEW caller \in Accounts, NEW S \in SUBSET Ids, NEW allowBlack,
           RedeemSet(caller, S, allowBlack)
    PROVE  ReserveBacksLiveShapes' /\ OriginsConserved'
<1>1. S \subseteq Live /\ Live' = (Live \ S) \cup {}
  BY RedemptionRetires DEF Issued
<1>2. PICK b, o, z : /\ b = SumOver(Backings, S) /\ o = SumOver(OriginCounts, S)
                     /\ z = 0
  OBVIOUS
<1>3. /\ redeemableBacking' = redeemableBacking - b
      /\ originsRedeemed' = originsRedeemed + o
      /\ directMints' = directMints
      /\ \A i \in Ids : i \notin S => shapes'[i] = shapes[i]
  BY <1>2 DEF RedeemSet
<1>4. b \in Nat /\ o \in Nat
  BY <1>2, SummandTypes, IdSumNat
<1>5. PICK R : R = Live \ S
  OBVIOUS
<1>6. Exchange(S, {}, R)
  BY <1>1, <1>3, <1>5, LiveMembers DEF Exchange
<1>7. z = SumOver(Backings', {}) /\ z = SumOver(OriginCounts', {})
  BY <1>2, SumEmpty
<1>8. redeemableBacking' + b = redeemableBacking + z
  <2>1. redeemableBacking \in Nat
    BY DEF TypeOK
  <2>2. z = 0
    BY <1>2
  <2> QED
    BY <1>3, <1>4, <2>1, <2>2
<1>9. z + originsRedeemed' + directMints = o + originsRedeemed + directMints'
  BY <1>2, <1>3, <1>4 DEF TypeOK
<1> QED
  BY <1>2, <1>6, <1>7, <1>8, <1>9, WorthKept

\* burnBacking takes the backing of one token, which turns Black, and leaves its
\* origins with it.
LEMMA WorthByBurnBacking ==
    ASSUME TypeOK, TypeOK', ReserveBacksLiveShapes, OriginsConserved,
           NEW caller \in Accounts, NEW i \in Ids, BurnBacking(caller, i)
    PROVE  ReserveBacksLiveShapes' /\ OriginsConserved'
<1>1. /\ Live' = Live /\ directMints' = directMints
      /\ originsRedeemed' = originsRedeemed
  BY BurnBackingKeeps DEF historyVars
<1>2. /\ owners[i] = caller /\ ~shapes[i].black /\ shapes[i].denom = Apex
      /\ redeemableBacking' = redeemableBacking - Units[Apex]
      /\ shapes' = [shapes EXCEPT ![i].black = TRUE]
  BY DEF BurnBacking, CallerOwnsLive
<1>3. i \in Live
  BY <1>2, AccountsAssumption DEF Live
<1>4. /\ shapes'[i].black /\ shapes'[i].origins = shapes[i].origins
      /\ \A j \in Ids : j # i => shapes'[j] = shapes[j]
  BY <1>2 DEF TypeOK, ShapeData
<1>5. PICK b, o, R, z : /\ b = Units[Apex] /\ o = shapes[i].origins
                        /\ R = Live \ {i} /\ z = 0
  OBVIOUS
<1>6. b \in Nat /\ o \in Nat /\ z \in Nat
  BY <1>5, ConstantTypes DEF TypeOK, ShapeData
<1>7. Exchange({i}, {i}, R)
  BY <1>1, <1>3, <1>4, <1>5, LiveMembers DEF Exchange
<1>8. /\ Backings[i] = b /\ Backings'[i] = z
      /\ OriginCounts[i] = o /\ OriginCounts'[i] = o
  BY <1>2, <1>4, <1>5 DEF Backings, BackingOf, OriginCounts
<1>9. /\ b = SumOver(Backings, {i}) /\ z = SumOver(Backings', {i})
      /\ o = SumOver(OriginCounts, {i}) /\ o = SumOver(OriginCounts', {i})
  BY <1>6, <1>8, SumSingleton
<1>10. redeemableBacking' + b = redeemableBacking + z
  <2>1. redeemableBacking \in Nat
    BY DEF TypeOK
  <2>2. z = 0 /\ redeemableBacking' = redeemableBacking - b
    BY <1>2, <1>5
  <2> QED
    BY <1>6, <2>1, <2>2
<1>11. o + originsRedeemed' + directMints = o + originsRedeemed + directMints'
  BY <1>1
<1> QED
  BY <1>7, <1>9, <1>10, <1>11, WorthKept

\* A compose moves the worth of its donors into the survivor.
LEMMA WorthByCompose ==
    ASSUME TypeOK, TypeOK', ReserveBacksLiveShapes, OriginsConserved,
           NEW caller \in Accounts, NEW s \in Ids, NEW burnIds \in SUBSET Ids,
           Compose(caller, s, burnIds)
    PROVE  ReserveBacksLiveShapes' /\ OriginsConserved'
<1>1. Live' = Live \ burnIds
  BY ComposeBurns
<1>2. /\ owners[s] = caller /\ ~shapes[s].black /\ s \notin burnIds
      /\ \A t \in burnIds : owners[t] = caller /\ ~shapes[t].black
  BY DEF Compose, MayCompose, CallerOwnsLive
<1>3. s \in Live /\ burnIds \subseteq Live
  BY <1>2, AccountsAssumption DEF Live
<1>4. PICK A, R, b, o : /\ A = burnIds \cup {s} /\ R = Live \ A
                        /\ b = SumOver(FaceUnits, A)
                        /\ o = SumOver(OriginCounts, A)
  OBVIOUS
<1>5. /\ Backings'[s] = b /\ OriginCounts'[s] = o
      /\ \A i \in R : shapes'[i] = shapes[i]
  <2>1. PICK d \in Denoms :
            /\ Units[d] = SumOver(FaceUnits, burnIds \cup {s})
            /\ shapes' = [i \in Ids |-> IF i = s THEN Composed(s, burnIds, d)
                                        ELSE IF i \in burnIds THEN Blank
                                        ELSE shapes[i]]
    BY DEF Compose
  <2>2. /\ shapes'[s].denom = d /\ ~shapes'[s].black
        /\ shapes'[s].origins = SumOver(OriginCounts, burnIds \cup {s})
    BY <1>2, <2>1 DEF Composed, TypeOK, ShapeData
  <2>3. \A i \in R : shapes'[i] = shapes[i]
    BY <1>4, <2>1, LiveMembers
  <2> QED
    BY <1>4, <2>1, <2>2, <2>3 DEF Backings, BackingOf, OriginCounts
<1>6. Exchange(A, {s}, R)
  BY <1>1, <1>2, <1>3, <1>4, <1>5, LiveMembers DEF Exchange
<1>7. b \in Nat /\ o \in Nat
  BY <1>4, SummandTypes, IdSumNat
<1>8. b = SumOver(Backings, A)
  <2>1. \A i \in A : Backings[i] = FaceUnits[i]
    BY <1>2, <1>4 DEF Backings, BackingOf, FaceUnits
  <2> QED
    BY <1>4, <2>1, SumSame
<1>9. b = SumOver(Backings', {s}) /\ o = SumOver(OriginCounts', {s})
  BY <1>5, <1>7, SumSingleton
<1>10. redeemableBacking' + b = redeemableBacking + b
  BY DEF Compose, reserveVars
<1>11. o + originsRedeemed' + directMints = o + originsRedeemed + directMints'
  BY DEF Compose, historyVars
<1> QED
  BY <1>4, <1>6, <1>8, <1>9, <1>10, <1>11, WorthKept

\* A decompose takes the survivor apart exactly, because its record undoes it.
LEMMA WorthByDecompose ==
    ASSUME TypeOK, TypeOK', RecordsConserve,
           ReserveBacksLiveShapes, OriginsConserved,
           NEW caller \in Accounts, NEW s \in Ids, NEW to \in Accounts,
           Decompose(caller, s, to),
           NEW n, n = Len(composeStack[s]), NEW rec,
           rec = Last(composeStack[s])
    PROVE  ReserveBacksLiveShapes' /\ OriginsConserved'
<1>1. /\ s \in Live /\ rec.burned \subseteq Ids /\ rec.burned \cap Live = {}
      /\ Live' = Live \cup rec.burned
  BY DecomposeEffect
<1>2. /\ ~shapes[s].black /\ composeStack[s] # <<>>
      /\ shapes' = Uncomposed(s, rec)
  BY DEF Decompose, CallerOwnsLive
<1>3. /\ RecordUnits(rec) = Units[shapes[s].denom]
      /\ RecordOrigins(rec) = shapes[s].origins
  BY <1>1, <1>2 DEF RecordsConserve, Undoes
<1>4. PICK B, R, b, o : /\ B = {s} \cup rec.burned /\ R = Live \ {s}
                        /\ b = Units[shapes[s].denom]
                        /\ o = shapes[s].origins
  OBVIOUS
<1>5. /\ shapes'[s].denom = rec.denom /\ shapes'[s].origins = rec.origins
      /\ ~shapes'[s].black
      /\ \A i \in rec.burned : /\ shapes'[i].denom = rec.inputs[i].denom
                               /\ shapes'[i].origins = rec.inputs[i].origins
                               /\ ~shapes'[i].black
      /\ \A i \in R : shapes'[i] = shapes[i]
  <2>1. /\ s \notin rec.burned /\ Live \subseteq Ids
        /\ \A i \in R : i \notin rec.burned
    BY <1>1, <1>4, LiveMembers
  <2>2. shapes[s] \in ShapeData
    BY DEF TypeOK
  <2> QED
    BY <1>1, <1>2, <1>4, <2>1, <2>2 DEF Uncomposed, Revived, ShapeData
<1>6. Exchange({s}, B, R)
  BY <1>1, <1>4, <1>5, LiveMembers DEF Exchange
<1>7. b \in Nat /\ o \in Nat
  BY <1>4, ConstantTypes DEF TypeOK, ShapeData
<1>8. b = SumOver(Backings, {s}) /\ o = SumOver(OriginCounts, {s})
  <2>1. Backings[s] = b /\ OriginCounts[s] = o
    BY <1>2, <1>4 DEF Backings, BackingOf, OriginCounts
  <2> QED
    BY <1>7, <2>1, SumSingleton
<1>9. /\ B \subseteq Ids /\ IsFiniteSet(B) /\ s \in B /\ B \ {s} = rec.burned
  BY <1>1, <1>4, IdsFinite
<1>10. PICK f, g : f = Backings' /\ g = OriginCounts'
  OBVIOUS
<1>11. f \in [Ids -> Nat] /\ g \in [Ids -> Nat]
  BY <1>10, ConstantTypes
     DEF TypeOK, ShapeData, Backings, BackingOf, OriginCounts
<1>12. /\ SumOver(f, B) = f[s] + SumOver(f, rec.burned)
       /\ SumOver(g, B) = g[s] + SumOver(g, rec.burned)
  <2>1. \A i \in B : f[i] \in Nat /\ g[i] \in Nat
    BY <1>9, <1>11
  <2> QED
    BY <1>9, <2>1, SumRemove
<1>13. /\ f[s] = Units[rec.denom] /\ g[s] = rec.origins
       /\ \A i \in rec.burned : /\ f[i] = InputUnits(rec)[i]
                                /\ g[i] = InputOrigins(rec)[i]
  BY <1>1, <1>5, <1>10
     DEF Backings, BackingOf, OriginCounts, InputUnits, InputOrigins
<1>14. /\ SumOver(f, rec.burned) = SumOver(InputUnits(rec), rec.burned)
       /\ SumOver(g, rec.burned) = SumOver(InputOrigins(rec), rec.burned)
  BY <1>13, SumSame
<1>15. b = SumOver(Backings', B) /\ o = SumOver(OriginCounts', B)
  BY <1>3, <1>4, <1>10, <1>12, <1>13, <1>14 DEF RecordUnits, RecordOrigins
<1>16. redeemableBacking' + b = redeemableBacking + b
  BY DEF Decompose, reserveVars
<1>17. o + originsRedeemed' + directMints = o + originsRedeemed + directMints'
  BY DEF Decompose, historyVars
<1> QED
  BY <1>6, <1>8, <1>15, <1>16, <1>17, WorthKept

\* The outputs of a split are its children, in order.
LEMMA ChildIndexing ==
    ASSUME NEW m \in Nat, NEW q \in Nat,
           NEW h, h = [c \in m .. m + q - 1 |-> c - m + 1]
    PROVE  h \in Bijection(m .. m + q - 1, 1 .. q)
<1>1. \A c \in m .. m + q - 1 : h[c] = c - m + 1 /\ h[c] \in 1 .. q
  OBVIOUS
<1>2. \A c, d \in m .. m + q - 1 : h[c] = h[d] => c = d
  BY <1>1
<1>3. \A k \in 1 .. q : k + m - 1 \in m .. m + q - 1 /\ h[k + m - 1] = k
  OBVIOUS
<1>4. h \in [m .. m + q - 1 -> 1 .. q]
  BY <1>1
<1> QED
  BY <1>2, <1>3, <1>4 DEF Bijection, Injection, Surjection, IsInjective

\* A split divides the worth and the origins of its parent among its children:
\* the denominations add up, and the origins are all handed out.
LEMMA WorthBySplit ==
    ASSUME TypeOK, TypeOK', Structure, ReserveBacksLiveShapes, OriginsConserved,
           NEW caller \in Accounts, NEW i \in Ids, NEW out \in OutputLists,
           NEW to \in Accounts, Split(caller, i, out, to),
           NEW children, children = NextIds(Len(out)), NEW m, m = totalMinted
    PROVE  ReserveBacksLiveShapes' /\ OriginsConserved'
<1>1. /\ totalMinted + Len(out) <= MaxMinted
      /\ owners[i] = caller /\ ~shapes[i].black
      /\ SumOver(Capacities(out), DOMAIN out) = Units[shapes[i].denom]
      /\ SumOver(AllocateSplitOrigins(shapes[i].origins, out), DOMAIN out)
             = shapes[i].origins
      /\ \A c \in Ids : shapes'[c] = IF c \in children THEN ChildShape(i, out, c)
                                     ELSE IF c = i THEN Blank ELSE shapes[c]
  BY DEF Split, CallerOwnsLive, SplitSumMatches, SplitExhausts
<1>2. PICK q, alloc : /\ q = Len(out)
                      /\ alloc = AllocateSplitOrigins(shapes[i].origins, out)
  OBVIOUS
<1>3. /\ m \in Nat /\ q \in Nat /\ DOMAIN out = 1 .. q
      /\ out \in [1 .. q -> Denoms]
      /\ children = m .. m + q - 1
  <2>1. PICK k \in 1 .. MaxMinted - totalMinted : out \in [1 .. k -> Denoms]
    BY DEF OutputLists
  <2>2. k \in Nat /\ m \in Nat
    BY ConstantTypes DEF TypeOK
  <2>3. Len(out) = k
    BY <2>1, <2>2
  <2> QED
    BY <1>2, <2>1, <2>2, <2>3 DEF NextIds
<1>4. /\ children \subseteq Ids /\ children \cap Live = {} /\ i \in Live
      /\ Live' = (Live \ {i}) \cup children
      /\ IsFiniteSet(children)
  <2>1. /\ Live' = (Live \ {i}) \cup children /\ children \subseteq Ids
        /\ i \in Live /\ children \cap Live = {}
    BY SplitIssues DEF Issued
  <2> QED
    BY <2>1, IdsFinite
<1>5. PICK R, b, o : /\ R = Live \ {i} /\ b = Units[shapes[i].denom]
                     /\ o = shapes[i].origins
  OBVIOUS
<1>6. Exchange({i}, children, R)
  BY <1>1, <1>4, <1>5, LiveMembers DEF Exchange
<1>7. b \in Nat /\ o \in Nat
  BY <1>5, ConstantTypes DEF TypeOK, ShapeData
<1>8. b = SumOver(Backings, {i}) /\ o = SumOver(OriginCounts, {i})
  <2>1. Backings[i] = b /\ OriginCounts[i] = o
    BY <1>1, <1>5 DEF Backings, BackingOf, OriginCounts
  <2> QED
    BY <1>7, <2>1, SumSingleton
<1>9. PICK f, g, h : /\ f = Backings' /\ g = OriginCounts'
                     /\ h = [c \in m .. m + q - 1 |-> c - m + 1]
  OBVIOUS
<1>10. /\ h \in Bijection(children, 1 .. q)
       /\ \A c \in children : h[c] = c - m + 1 /\ h[c] \in 1 .. q
  BY <1>3, <1>9, ChildIndexing
<1>11. \A c \in children : f[c] \in Nat /\ g[c] \in Nat
  BY <1>4, <1>9, ConstantTypes
     DEF TypeOK, ShapeData, Backings, BackingOf, OriginCounts
<1>12. \A c \in children : /\ f[c] = Capacities(out)[h[c]]
                           /\ g[c] = alloc[h[c]]
  <2> SUFFICES ASSUME NEW c \in children
               PROVE  f[c] = Capacities(out)[h[c]] /\ g[c] = alloc[h[c]]
    OBVIOUS
  <2>1. c \in Ids /\ shapes'[c] = ChildShape(i, out, c)
    BY <1>1, <1>4
  <2>2. c - totalMinted + 1 = h[c] /\ h[c] \in 1 .. q
    BY <1>10
  <2>3. /\ shapes'[c].denom = out[h[c]] /\ shapes'[c].black = FALSE
        /\ shapes'[c].origins = alloc[h[c]]
    BY <1>2, <2>1, <2>2 DEF ChildShape
  <2>4. Capacities(out)[h[c]] = Units[out[h[c]]]
    BY <1>3, <2>2 DEF Capacities
  <2> QED
    BY <1>9, <2>1, <2>3, <2>4 DEF Backings, BackingOf, OriginCounts
<1>13. /\ SumOver(f, children) = SumOver(Capacities(out), 1 .. q)
       /\ SumOver(g, children) = SumOver(alloc, 1 .. q)
  <2>1. PICK cap, T : cap = Capacities(out) /\ T = 1 .. q
    OBVIOUS
  <2>2. IsFiniteSet(children) /\ h \in Bijection(children, T)
    BY <1>4, <1>10, <2>1
  <2>3. \A c \in children : f[c] \in Nat /\ f[c] = cap[h[c]]
    BY <1>11, <1>12, <2>1
  <2>4. \A c \in children : g[c] \in Nat /\ g[c] = alloc[h[c]]
    BY <1>11, <1>12
  <2>5. SumOver(f, children) = SumOver(cap, T)
    BY <2>2, <2>3, SumReindex
  <2>6. SumOver(g, children) = SumOver(alloc, T)
    BY <2>2, <2>4, SumReindex
  <2> QED
    BY <2>1, <2>5, <2>6
<1>14. b = SumOver(Backings', children) /\ o = SumOver(OriginCounts', children)
  BY <1>1, <1>2, <1>3, <1>5, <1>9, <1>13
<1>15. redeemableBacking' + b = redeemableBacking + b
  BY DEF Split, reserveVars
<1>16. o + originsRedeemed' + directMints = o + originsRedeemed + directMints'
  BY DEF Split, historyVars
<1> QED
  BY <1>6, <1>8, <1>14, <1>15, <1>16, WorthKept

-----------------------------------------------------------------------------
(* The inductive invariant and the theorems.                               *)

\* Every step keeps the records, the reserve and the origins exact.
LEMMA NextConservation ==
    ASSUME TypeOK, Inductive, [Next]_vars
    PROVE  Conservation'
<1>1. /\ TypeOK' /\ Structure /\ RecordsConserve
      /\ ReserveBacksLiveShapes /\ OriginsConserved
  BY NextType DEF Inductive, Conservation
<1>2. CASE StillStep
  <2>1. /\ Live' = Live /\ shapes' = shapes /\ composeStack' = composeStack
        /\ redeemableBacking' = redeemableBacking
        /\ directMints' = directMints /\ originsRedeemed' = originsRedeemed
    BY <1>2, StillStepKeeps DEF storeVars, historyVars
  <2>2. RecordsConserve'
    BY <1>1, <2>1, RecordsByStillness
  <2>3. Backings' = Backings /\ OriginCounts' = OriginCounts
    BY <2>1 DEF Backings, BackingOf, OriginCounts
  <2>4. ReserveBacksLiveShapes' /\ OriginsConserved'
    BY <1>1, <2>1, <2>3 DEF ReserveBacksLiveShapes, OriginsConserved
  <2> QED
    BY <2>2, <2>4 DEF Conservation
<1>3. ASSUME NEW d \in Denoms, NEW q \in 1 .. MaxMinted, NEW to \in Accounts,
             MintBatch(d, q, to)
      PROVE  Conservation'
  <2>1. PICK ids : ids = NextIds(q)
    OBVIOUS
  <2>2. ReserveBacksLiveShapes' /\ OriginsConserved'
    BY <1>1, <1>3, <2>1, WorthByMint
  <2>3. Issued({}, ids) /\ ids \cap Live = {}
    BY <1>1, <1>3, <2>1, MintIssues
  <2>4. \A i \in Live \ {} : shapes'[i] = shapes[i]
    BY <1>3, <2>1, <2>3, LiveMembers DEF MintBatch
  <2>5. RecordsConserve'
    BY <1>1, <2>3, <2>4, RecordsByIssue
  <2> QED
    BY <2>2, <2>5 DEF Conservation
<1>4. ASSUME NEW caller \in Accounts, NEW S \in SUBSET Ids, NEW allowBlack,
             RedeemSet(caller, S, allowBlack)
      PROVE  Conservation'
  <2>1. ReserveBacksLiveShapes' /\ OriginsConserved'
    BY <1>1, <1>4, WorthByRedemption
  <2>2. Issued(S, {})
    BY <1>4, RedemptionRetires
  <2>3. \A i \in Live \ S : shapes'[i] = shapes[i]
    BY <1>4, LiveMembers DEF RedeemSet
  <2>4. RecordsConserve'
    BY <1>1, <2>2, <2>3, RecordsByIssue
  <2> QED
    BY <2>1, <2>4 DEF Conservation
<1>5. ASSUME NEW caller \in Accounts, NEW i \in Ids, BurnBacking(caller, i)
      PROVE  Conservation'
  <2>1. ReserveBacksLiveShapes' /\ OriginsConserved'
    BY <1>1, <1>5, WorthByBurnBacking
  <2>2. /\ Live' = Live /\ composeStack' = composeStack
        /\ \A j \in Ids : /\ shapes'[j].denom = shapes[j].denom
                          /\ shapes'[j].origins = shapes[j].origins
    BY <1>5, BurnBackingKeeps DEF BurnBacking, TypeOK, ShapeData
  <2>3. RecordsConserve'
    BY <1>1, <2>2, LiveMembers, RecordsByStillness
  <2> QED
    BY <2>1, <2>3 DEF Conservation
<1>6. ASSUME NEW caller \in Accounts, NEW s \in Ids, NEW burnIds \in SUBSET Ids,
             Compose(caller, s, burnIds)
      PROVE  Conservation'
  <2>1. PICK n, new, rec : /\ n = Len(composeStack[s]) + 1
                           /\ new = <<s, n>>
                           /\ rec = RecordOf(s, burnIds)
    OBVIOUS
  <2>2. RecordsConserve'
    BY <1>1, <1>6, <2>1, RecordsByCompose
  <2>3. ReserveBacksLiveShapes' /\ OriginsConserved'
    BY <1>1, <1>6, WorthByCompose
  <2> QED
    BY <2>2, <2>3 DEF Conservation
<1>7. ASSUME NEW caller \in Accounts, NEW s \in Ids, NEW to \in Accounts,
             Decompose(caller, s, to)
      PROVE  Conservation'
  <2>1. PICK n, old, rec : /\ n = Len(composeStack[s])
                           /\ old = <<s, n>>
                           /\ rec = Last(composeStack[s])
    OBVIOUS
  <2>2. RecordsConserve'
    BY <1>1, <1>7, <2>1, RecordsByDecompose
  <2>3. ReserveBacksLiveShapes' /\ OriginsConserved'
    BY <1>1, <1>7, <2>1, WorthByDecompose
  <2> QED
    BY <2>2, <2>3 DEF Conservation
<1>8. ASSUME NEW caller \in Accounts, NEW i \in Ids, NEW out \in OutputLists,
             NEW to \in Accounts, Split(caller, i, out, to)
      PROVE  Conservation'
  <2>1. PICK children, m : children = NextIds(Len(out)) /\ m = totalMinted
    OBVIOUS
  <2>2. ReserveBacksLiveShapes' /\ OriginsConserved'
    BY <1>1, <1>8, <2>1, WorthBySplit
  <2>3. Issued({i}, children) /\ children \cap Live = {}
    BY <1>1, <1>8, <2>1, SplitIssues
  <2>4. \A j \in Live \ {i} : shapes'[j] = shapes[j]
    BY <1>8, <2>1, <2>3, LiveMembers DEF Split
  <2>5. RecordsConserve'
    BY <1>1, <2>3, <2>4, RecordsByIssue
  <2> QED
    BY <2>2, <2>5 DEF Conservation
<1> QED
  BY <1>2, <1>3, <1>4, <1>5, <1>6, <1>7, <1>8, StepKinds

\* After construction the reserve is one unit, that of token 0, and there are no
\* records.
LEMMA InitConservation == Init => Conservation
<1> SUFFICES ASSUME Init PROVE Conservation
  OBVIOUS
<1>1. /\ redeemableBacking = Units[0] /\ directMints = 1 /\ originsRedeemed = 0
      /\ \A i \in Ids : composeStack[i] = <<>>
      /\ \A i \in Ids : owners[i] = IF i = 0 THEN Deployer ELSE NoOne
      /\ shapes[0] = GenesisShape
  BY ConstantTypes DEF Init
<1>2. Live = {0}
  BY <1>1, ConstantTypes, AccountsAssumption DEF Live
<1>3. TypeOK
  BY InitType
<1>4. Backings[0] = 1 /\ OriginCounts[0] = 1
  BY <1>1, ConstantTypes DEF Backings, BackingOf, OriginCounts, GenesisShape
<1>5. SumOver(Backings, {0}) = 1 /\ SumOver(OriginCounts, {0}) = 1
  BY <1>4, SumSingleton
<1>6. ReserveBacksLiveShapes /\ OriginsConserved
  BY <1>1, <1>2, <1>5, ConstantTypes DEF ReserveBacksLiveShapes, OriginsConserved
<1>7. RecordsConserve
  <2>1. \A p \in Places : FALSE
    BY <1>1, <1>3, PlaceFacts
  <2>2. \A s \in Ids : Len(composeStack[s]) = 0
    BY <1>1
  <2>3. \A s \in Ids : \A k \in 1 .. Len(composeStack[s]) - 1 : FALSE
    BY <2>2
  <2> QED
    BY <1>1, <1>2, <2>1, <2>3, ConstantTypes DEF RecordsConserve
<1> QED
  BY <1>6, <1>7 DEF Conservation

\* The inductive invariant always holds.
THEOREM InductiveAlways == Spec => [](TypeOK /\ Inductive)
<1>1. Init => TypeOK /\ Inductive
  BY InitType, InitStructure, InitConservation DEF Inductive
<1>2. TypeOK /\ Inductive /\ [Next]_vars => (TypeOK /\ Inductive)'
  BY NextType, NextStructure, NextConservation DEF Inductive
<1> QED
  BY <1>1, <1>2, PTL DEF Spec

\* redeemableBacking is always exactly what the live Shapes redeem for, on every
\* ladder and after any sequence of reshapings.
THEOREM ReserveAlwaysBacks == Spec => []ReserveBacksLiveShapes
<1>1. Inductive => ReserveBacksLiveShapes
  BY DEF Inductive, Conservation
<1> QED
  BY <1>1, InductiveAlways, PTL

\* Direct mints are never created or lost: live and redeemed origins always add
\* up to the ShapeMinted events.
THEOREM OriginsAlwaysConserved == Spec => []OriginsConserved
<1>1. Inductive => OriginsConserved
  BY DEF Inductive, Conservation
<1> QED
  BY <1>1, InductiveAlways, PTL

\* Every compose record, however deeply buried, always undoes exactly what lies
\* above it.
THEOREM RecordsAlwaysConserve == Spec => []RecordsConserve
<1>1. Inductive => RecordsConserve
  BY DEF Inductive, Conservation
<1> QED
  BY <1>1, InductiveAlways, PTL

-----------------------------------------------------------------------------
(* What each step does to the shapes, and the tokens it is about.          *)

\* A mint writes its ids and leaves the live tokens as they are.
LEMMA MintShapes ==
    ASSUME TypeOK, Structure, NEW d \in Denoms, NEW q \in 1 .. MaxMinted,
           NEW to \in Accounts, MintBatch(d, q, to), NEW ids, ids = NextIds(q)
    PROVE  /\ Exchange({}, ids, Live)
           /\ \A i \in ids : /\ shapes'[i] = MintedShape(i, d)
                             /\ totalMinted <= i /\ i < totalMinted'
           /\ totalMinted <= totalMinted'
           /\ UNCHANGED <<composeStack, splitRecords, splitOriginRef>>
<1>1. Issued({}, ids) /\ ids \cap Live = {}
  BY MintIssues
<1>2. \A i \in Ids : shapes'[i] = IF i \in ids THEN MintedShape(i, d)
                                  ELSE shapes[i]
  BY DEF MintBatch
<1>3. Exchange({}, ids, Live)
  BY <1>1, <1>2, LiveMembers DEF Exchange, Issued
<1>4. UNCHANGED <<composeStack, splitRecords, splitOriginRef>>
  BY DEF MintBatch
<1>5. ids \subseteq Ids
  BY <1>1 DEF Issued
<1> QED
  BY <1>1, <1>2, <1>3, <1>4, <1>5 DEF Issued

\* A redemption retires its tokens.
LEMMA RedeemShapes ==
    ASSUME TypeOK, NEW caller \in Accounts, NEW S \in SUBSET Ids,
           NEW allowBlack, RedeemSet(caller, S, allowBlack)
    PROVE  /\ S \subseteq Live
           /\ Exchange(S, {}, Live \ S)
           /\ UNCHANGED <<composeStack, splitRecords, splitOriginRef,
                          totalMinted>>
<1>1. Issued(S, {})
  BY RedemptionRetires
<1>2. \A i \in Ids : i \notin S => shapes'[i] = shapes[i]
  BY DEF RedeemSet
<1>3. Exchange(S, {}, Live \ S)
  BY <1>1, <1>2, LiveMembers DEF Exchange, Issued
<1> QED
  BY <1>1, <1>3 DEF RedeemSet, Issued

\* burnBacking turns one live token Black and leaves the rest of it alone.
LEMMA BurnBackingShapes ==
    ASSUME TypeOK, NEW caller \in Accounts, NEW i \in Ids,
           BurnBacking(caller, i)
    PROVE  /\ i \in Live /\ ~shapes[i].black /\ shapes'[i].black
           /\ shapes[i].denom = Apex /\ shapes[i].origins = Units[Apex]
           /\ \A j \in Ids : /\ j # i => shapes'[j] = shapes[j]
                             /\ shapes'[j].seed = shapes[j].seed
                             /\ shapes'[j].denom = shapes[j].denom
                             /\ shapes'[j].origins = shapes[j].origins
                             /\ shapes'[j].art = shapes[j].art
           /\ Live' = Live
           /\ UNCHANGED <<composeStack, splitRecords, splitOriginRef,
                          totalMinted>>
<1>1. /\ owners[i] = caller /\ ~shapes[i].black /\ shapes[i].denom = Apex
      /\ shapes[i].origins = Units[Apex]
      /\ shapes' = [shapes EXCEPT ![i].black = TRUE]
      /\ UNCHANGED <<composeStack, splitRecords, splitOriginRef, totalMinted>>
  BY DEF BurnBacking, CallerOwnsLive
<1>2. i \in Live
  BY <1>1, AccountsAssumption DEF Live
<1>3. \A j \in Ids : /\ j # i => shapes'[j] = shapes[j]
                     /\ shapes'[j].seed = shapes[j].seed
                     /\ shapes'[j].denom = shapes[j].denom
                     /\ shapes'[j].origins = shapes[j].origins
                     /\ shapes'[j].art = shapes[j].art
  BY <1>1 DEF TypeOK, ShapeData
<1>4. shapes'[i].black
  BY <1>1 DEF TypeOK, ShapeData
<1> QED
  BY <1>1, <1>2, <1>3, <1>4, BurnBackingKeeps

\* A compose retires its inputs and reshapes the survivor, which keeps its seed.
LEMMA ComposeShapes ==
    ASSUME TypeOK, NEW caller \in Accounts, NEW s \in Ids,
           NEW burnIds \in SUBSET Ids, Compose(caller, s, burnIds)
    PROVE  /\ s \in Live /\ s \notin burnIds /\ burnIds \subseteq Live
           /\ Exchange(burnIds \cup {s}, {s}, Live \ (burnIds \cup {s}))
           /\ \A i \in burnIds \cup {s} : ~shapes[i].black
           /\ ~shapes'[s].black
           /\ shapes'[s].seed = shapes[s].seed
           /\ Units[shapes'[s].denom] = SumOver(FaceUnits, burnIds \cup {s})
           /\ shapes'[s].origins = SumOver(OriginCounts, burnIds \cup {s})
           /\ shapes'[s].art = Resampled(RecordOf(s, burnIds), shapes'[s].denom)
           /\ UNCHANGED <<splitRecords, splitOriginRef, totalMinted>>
<1>1. /\ owners[s] = caller /\ ~shapes[s].black /\ s \notin burnIds
      /\ \A t \in burnIds : owners[t] = caller /\ ~shapes[t].black
  BY DEF Compose, MayCompose, CallerOwnsLive
<1>2. s \in Live /\ burnIds \subseteq Live
  BY <1>1, AccountsAssumption DEF Live
<1>3. PICK d \in Denoms :
          /\ Units[d] = SumOver(FaceUnits, burnIds \cup {s})
          /\ shapes' = [i \in Ids |-> IF i = s THEN Composed(s, burnIds, d)
                                      ELSE IF i \in burnIds THEN Blank
                                      ELSE shapes[i]]
  BY DEF Compose
<1>4. /\ shapes'[s] = Composed(s, burnIds, d)
      /\ \A i \in Ids : i # s /\ i \notin burnIds => shapes'[i] = shapes[i]
  BY <1>3
<1>5. /\ shapes'[s].denom = d /\ shapes'[s].seed = shapes[s].seed
      /\ shapes'[s].black = shapes[s].black
      /\ shapes'[s].origins = SumOver(OriginCounts, burnIds \cup {s})
      /\ shapes'[s].art = ComposeArt[<<shapes[s].art,
                                       {shapes[b].art : b \in burnIds}, d>>]
  BY <1>4 DEF Composed, TypeOK, ShapeData
<1>6. shapes'[s].art = Resampled(RecordOf(s, burnIds), d)
  <2>1. PICK rec : rec = RecordOf(s, burnIds)
    OBVIOUS
  <2>2. /\ rec.art = shapes[s].art /\ rec.burned = burnIds
        /\ \A b \in burnIds : rec.inputs[b].art = shapes[b].art
    BY <2>1 DEF RecordOf, SnapshotOf
  <2>3. {rec.inputs[b].art : b \in rec.burned} = {shapes[b].art : b \in burnIds}
    BY <2>2
  <2> QED
    BY <1>5, <2>1, <2>2, <2>3 DEF Resampled
<1>7. Live' = Live \ burnIds
  BY ComposeBurns
<1>8. Exchange(burnIds \cup {s}, {s}, Live \ (burnIds \cup {s}))
  BY <1>1, <1>2, <1>4, <1>7, LiveMembers DEF Exchange
<1>9. UNCHANGED <<splitRecords, splitOriginRef, totalMinted>>
  BY DEF Compose
<1> QED
  BY <1>1, <1>2, <1>3, <1>5, <1>6, <1>8, <1>9

\* A decompose gives the survivor the state its record kept and revives the
\* inputs as they were.
LEMMA DecomposeShapes ==
    ASSUME TypeOK, NEW caller \in Accounts, NEW s \in Ids, NEW to \in Accounts,
           Decompose(caller, s, to), NEW rec, rec = Last(composeStack[s])
    PROVE  /\ s \in Live /\ composeStack[s] # <<>>
           /\ rec.burned \subseteq Ids /\ rec.burned \cap Live = {}
           /\ Exchange({s}, rec.burned \cup {s}, Live \ {s})
           /\ ~shapes[s].black /\ ~shapes'[s].black
           /\ shapes'[s].seed = shapes[s].seed
           /\ shapes'[s].denom = rec.denom
           /\ shapes'[s].origins = rec.origins
           /\ shapes'[s].art = rec.art
           /\ \A i \in rec.burned : shapes'[i] = Revived(rec.inputs[i])
           /\ UNCHANGED <<splitRecords, splitOriginRef, totalMinted>>
<1>1. PICK n : n = Len(composeStack[s])
  OBVIOUS
<1>2. /\ s \in Live /\ rec.burned \subseteq Ids /\ rec.burned \cap Live = {}
      /\ Live' = Live \cup rec.burned
  BY <1>1, DecomposeEffect
<1>3. /\ ~shapes[s].black /\ composeStack[s] # <<>>
      /\ shapes' = Uncomposed(s, rec)
      /\ UNCHANGED <<splitRecords, splitOriginRef, totalMinted>>
  BY DEF Decompose, CallerOwnsLive
<1>4. /\ shapes'[s] = [shapes[s] EXCEPT !.denom = rec.denom,
                                        !.origins = rec.origins,
                                        !.art = rec.art]
      /\ \A i \in rec.burned : shapes'[i] = Revived(rec.inputs[i])
      /\ \A i \in Live \ {s} : shapes'[i] = shapes[i]
  BY <1>2, <1>3, LiveMembers DEF Uncomposed
<1>5. Exchange({s}, rec.burned \cup {s}, Live \ {s})
  BY <1>2, <1>4, LiveMembers DEF Exchange
<1>6. shapes[s] \in ShapeData
  BY DEF TypeOK
<1>7. /\ shapes'[s].seed = shapes[s].seed /\ shapes'[s].denom = rec.denom
      /\ shapes'[s].origins = rec.origins /\ shapes'[s].art = rec.art
      /\ shapes'[s].black = shapes[s].black
  BY <1>4, <1>6 DEF ShapeData
<1> QED
  BY <1>2, <1>3, <1>4, <1>5, <1>7

\* A split retires its parent and issues its children, which refer to the record
\* it appends.
LEMMA SplitShapesAndRefs ==
    ASSUME TypeOK, Structure, NEW caller \in Accounts, NEW i \in Ids,
           NEW out \in OutputLists, NEW to \in Accounts,
           Split(caller, i, out, to), NEW children,
           children = NextIds(Len(out))
    PROVE  /\ i \in Live /\ ~shapes[i].black
           /\ Exchange({i}, children, Live \ {i})
           /\ \A c \in children : /\ shapes'[c] = ChildShape(i, out, c)
                                  /\ splitOriginRef'[c] = ChildRef(c)
                                  /\ totalMinted <= c /\ c < totalMinted'
                                  /\ c - totalMinted + 1 \in DOMAIN out
           /\ \A c \in Ids : c \notin children =>
                 splitOriginRef'[c] = splitOriginRef[c]
           /\ splitRecords' = Append(splitRecords, SplitRecordOf(i))
           /\ totalMinted <= totalMinted'
           /\ UNCHANGED composeStack
<1>1. Issued({i}, children) /\ children \cap Live = {}
  BY SplitIssues
<1>2. /\ ~shapes[i].black
      /\ shapes' = [c \in Ids |-> IF c \in children THEN ChildShape(i, out, c)
                                  ELSE IF c = i THEN Blank
                                  ELSE shapes[c]]
      /\ splitRecords' = Append(splitRecords, SplitRecordOf(i))
      /\ splitOriginRef' = [c \in Ids |-> IF c \in children THEN ChildRef(c)
                                          ELSE splitOriginRef[c]]
      /\ UNCHANGED composeStack
  BY DEF Split, CallerOwnsLive
<1>3. children \subseteq Ids /\ i \in Live
  BY <1>1 DEF Issued
<1>4. \A c \in Live \ {i} : shapes'[c] = shapes[c]
  BY <1>1, <1>2, LiveMembers
<1>5. Exchange({i}, children, Live \ {i})
  BY <1>1, <1>3, <1>4, LiveMembers DEF Exchange, Issued
<1>6. \A c \in children : c - totalMinted + 1 \in DOMAIN out
  <2>1. PICK k \in 1 .. MaxMinted - totalMinted : out \in [1 .. k -> Denoms]
    BY DEF OutputLists
  <2>2. k \in Nat /\ totalMinted \in Nat
    BY ConstantTypes DEF TypeOK
  <2>3. Len(out) = k /\ DOMAIN out = 1 .. k
    BY <2>1, <2>2
  <2>4. children = totalMinted .. totalMinted + k - 1
    BY <2>3 DEF NextIds
  <2> QED
    BY <2>2, <2>3, <2>4
<1>7. \A c \in children : /\ shapes'[c] = ChildShape(i, out, c)
                          /\ splitOriginRef'[c] = ChildRef(c)
  BY <1>2, <1>3
<1>8. \A c \in Ids \ children : splitOriginRef'[c] = splitOriginRef[c]
  BY <1>2
<1> QED
  BY <1>1, <1>2, <1>3, <1>5, <1>6, <1>7, <1>8 DEF Issued

\* What a compose does to the places: one is added, at the top of its survivor's
\* stack.
LEMMA ComposePlaces ==
    ASSUME TypeOK, NEW caller \in Accounts, NEW s \in Ids,
           NEW burnIds \in SUBSET Ids, Compose(caller, s, burnIds),
           NEW n, n = Len(composeStack[s]) + 1, NEW new, new = <<s, n>>,
           NEW rec, rec = RecordOf(s, burnIds)
    PROVE  /\ new \notin Places /\ new[1] = s /\ new[2] = n
           /\ Places' = Places \cup {new}
           /\ RecordAt(new)' = rec /\ HeldAt(new)' = burnIds
           /\ \A p \in Places : /\ RecordAt(p)' = RecordAt(p)
                                /\ HeldAt(p)' = HeldAt(p)
           /\ \A i \in Ids \ {s} : composeStack'[i] = composeStack[i]
           /\ composeStack'[s] = Append(composeStack[s], rec)
<1>1. /\ new \notin Places /\ Places' = Places \cup {new}
      /\ composeStack'[s][n] = rec
      /\ \A p \in Places : composeStack'[p[1]][p[2]] = RecordAt(p)
      /\ \A i \in Ids \ {s} : composeStack'[i] = composeStack[i]
  BY ComposeEffect
<1>2. new[1] = s /\ new[2] = n /\ rec.burned = burnIds
  BY DEF RecordOf
<1>3. RecordAt(new)' = rec /\ HeldAt(new)' = burnIds
  BY <1>1, <1>2, RecordsAfter
<1>4. \A p \in Places : RecordAt(p)' = RecordAt(p) /\ HeldAt(p)' = HeldAt(p)
  BY <1>1, RecordsAfter DEF HeldAt
<1>5. composeStack'[s] = Append(composeStack[s], rec)
  BY DEF Compose, TypeOK
<1> QED
  BY <1>1, <1>2, <1>3, <1>4, <1>5

\* What a decompose does to the places: the one at the top of its token's stack
\* goes.
LEMMA DecomposePlaces ==
    ASSUME TypeOK, NEW caller \in Accounts, NEW s \in Ids, NEW to \in Accounts,
           Decompose(caller, s, to), NEW n, n = Len(composeStack[s]),
           NEW old, old = <<s, n>>, NEW rec, rec = Last(composeStack[s])
    PROVE  /\ old \in Places /\ old[1] = s /\ old[2] = n
           /\ RecordAt(old) = rec /\ HeldAt(old) = rec.burned
           /\ Places' = Places \ {old}
           /\ \A p \in Places' : /\ RecordAt(p)' = RecordAt(p)
                                 /\ HeldAt(p)' = HeldAt(p)
           /\ \A i \in Ids \ {s} : composeStack'[i] = composeStack[i]
           /\ composeStack'[s] = Front(composeStack[s])
<1>1. /\ old \in Places /\ RecordAt(old) = rec /\ HeldAt(old) = rec.burned
      /\ Places' = Places \ {old}
      /\ \A p \in Places' : composeStack'[p[1]][p[2]] = RecordAt(p)
      /\ \A i \in Ids \ {s} : composeStack'[i] = composeStack[i]
  BY DecomposeEffect
<1>2. old[1] = s /\ old[2] = n
  OBVIOUS
<1>3. \A p \in Places' : RecordAt(p)' = RecordAt(p) /\ HeldAt(p)' = HeldAt(p)
  BY <1>1, RecordsAfter DEF HeldAt
<1>4. composeStack'[s] = Front(composeStack[s])
  BY DEF Decompose, TypeOK
<1> QED
  BY <1>1, <1>2, <1>3, <1>4

-----------------------------------------------------------------------------
(* Black Shapes.                                                           *)

Blacks == {i \in Live : shapes[i].black}

\* The Black Shapes are finitely many ids, before and after a step.
LEMMA BlacksFinite ==
    /\ Blacks \in SUBSET Ids /\ IsFiniteSet(Blacks)
    /\ Cardinality(Blacks) \in Nat
    /\ Blacks' \in SUBSET Ids
<1>1. Blacks \in SUBSET Ids /\ Blacks' \in SUBSET Ids
  BY LiveMembers DEF Blacks
<1> QED
  BY <1>1, IdsFinite, FS_CardinalityType

\* The account of Black Shapes in terms of that set.
BlackAccount ==
    /\ blackShapeCount = Cardinality(Blacks)
    /\ \A i \in Blacks : /\ shapes[i].denom = Apex
                         /\ shapes[i].origins = Units[Apex]
    /\ burnedBacking >= Units[Apex] * blackShapeCount

\* It is the property.
LEMMA BlackAccountIs == BlackShapesAccounted <=> BlackAccount
BY DEF BlackShapesAccounted, BlackAccount, Blacks

\* A step that leaves the live tokens and what the account says of them alone
\* keeps it.
LEMMA BlacksByStillness ==
    ASSUME BlackAccount, Live' = Live, shapes' = shapes,
           UNCHANGED <<burnedBacking, blackShapeCount>>
    PROVE  BlackAccount'
BY DEF BlackAccount, Blacks

\* Retiring tokens that are not Black and issuing tokens that are not keeps the
\* account.
LEMMA BlacksByExchange ==
    ASSUME BlackAccount, NEW A, NEW B, NEW R, Exchange(A, B, R),
           \A i \in A : ~shapes[i].black, \A i \in B : ~shapes'[i].black,
           UNCHANGED <<burnedBacking, blackShapeCount>>
    PROVE  BlackAccount'
<1>1. Blacks' = Blacks
  BY DEF Blacks, Exchange
<1>2. \A i \in Blacks : shapes'[i] = shapes[i]
  BY DEF Blacks, Exchange
<1> QED
  BY <1>1, <1>2 DEF BlackAccount

\* A redemption retires the Black Shapes among its tokens; the backing they gave
\* up stays burned.
LEMMA BlacksByRedemption ==
    ASSUME TypeOK, BlackAccount, NEW caller \in Accounts, NEW S \in SUBSET Ids,
           NEW allowBlack, RedeemSet(caller, S, allowBlack)
    PROVE  BlackAccount'
<1>1. PICK T, k : T = {i \in S : shapes[i].black} /\ k = Cardinality(T)
  OBVIOUS
<1>2. /\ blackShapeCount' = blackShapeCount - k
      /\ burnedBacking' = burnedBacking
  BY <1>1 DEF RedeemSet
<1>3. S \subseteq Live /\ Exchange(S, {}, Live \ S)
  BY RedeemShapes
<1>4. T \in SUBSET Blacks /\ Blacks' = Blacks \ T
  BY <1>1, <1>3 DEF Blacks, Exchange
<1>5. \A i \in Blacks' : shapes'[i] = shapes[i] /\ i \in Blacks
  BY <1>1, <1>3, <1>4 DEF Blacks, Exchange
<1>6. Cardinality(Blacks') = Cardinality(Blacks) - k /\ k \in Nat
  <2>1. Blacks \cap T = T
    BY <1>4
  <2>2. T \in SUBSET Ids /\ IsFiniteSet(T)
    BY <1>1, IdsFinite
  <2>3. k \in Nat
    BY <1>1, <2>2, FS_CardinalityType
  <2>4. Cardinality(Blacks \ T)
            = Cardinality(Blacks) - Cardinality(Blacks \cap T)
    BY BlacksFinite, FS_Difference
  <2> QED
    BY <1>1, <1>4, <2>1, <2>3, <2>4
<1>7. burnedBacking' >= Units[Apex] * blackShapeCount'
  <2>1. PICK u, b, c : /\ u = Units[Apex]
                       /\ b = blackShapeCount
                       /\ c = burnedBacking
    OBVIOUS
  <2>2. u \in Nat /\ b \in Nat /\ c \in Nat /\ c >= u * b
    BY <2>1, ConstantTypes DEF TypeOK, BlackAccount
  <2>3. u * (b - k) = u * b - u * k /\ u * k \in Nat /\ u * b \in Nat
    BY <1>6, <2>2
  <2>4. c >= u * (b - k)
    BY <2>2, <2>3
  <2> QED
    BY <1>2, <2>1, <2>4
<1>8. \A i \in Blacks : /\ shapes[i].denom = Apex
                        /\ shapes[i].origins = Units[Apex]
  BY DEF BlackAccount
<1>9. \A i \in Blacks' : /\ shapes'[i].denom = Apex
                         /\ shapes'[i].origins = Units[Apex]
  BY <1>5, <1>8
<1>10. blackShapeCount' = Cardinality(Blacks')
  BY <1>2, <1>6 DEF BlackAccount
<1> QED
  BY <1>7, <1>9, <1>10 DEF BlackAccount

\* burnBacking adds one Black Shape and its backing.
LEMMA BlacksByBurnBacking ==
    ASSUME TypeOK, BlackAccount, NEW caller \in Accounts, NEW i \in Ids,
           BurnBacking(caller, i)
    PROVE  BlackAccount'
<1>1. /\ i \in Live /\ ~shapes[i].black /\ shapes'[i].black
      /\ shapes[i].denom = Apex /\ shapes[i].origins = Units[Apex]
      /\ \A j \in Ids : /\ j # i => shapes'[j] = shapes[j]
                        /\ shapes'[j].denom = shapes[j].denom
                        /\ shapes'[j].origins = shapes[j].origins
      /\ Live' = Live
  BY BurnBackingShapes
<1>2. Blacks' = Blacks \cup {i} /\ i \notin Blacks
  BY <1>1, LiveMembers DEF Blacks
<1>3. /\ blackShapeCount' = blackShapeCount + 1
      /\ burnedBacking' = burnedBacking + Units[Apex]
  BY DEF BurnBacking
<1>4. blackShapeCount' = Cardinality(Blacks')
  BY <1>2, <1>3, BlacksFinite, FS_AddElement DEF BlackAccount
<1>5. \A j \in Blacks' : /\ shapes'[j].denom = Apex
                         /\ shapes'[j].origins = Units[Apex]
  BY <1>1, <1>2, BlacksFinite DEF BlackAccount
<1>6. burnedBacking' >= Units[Apex] * blackShapeCount'
  <2>1. PICK u, b, c : /\ u = Units[Apex]
                       /\ b = blackShapeCount
                       /\ c = burnedBacking
    OBVIOUS
  <2>2. u \in Nat /\ b \in Nat /\ c \in Nat /\ c >= u * b
    BY <2>1, ConstantTypes DEF TypeOK, BlackAccount
  <2>3. u * (b + 1) = u * b + u /\ u * b \in Nat
    BY <2>2
  <2>4. c + u >= u * (b + 1)
    BY <2>2, <2>3
  <2> QED
    BY <1>3, <2>1, <2>4
<1> QED
  BY <1>4, <1>5, <1>6 DEF BlackAccount

\* Every step keeps the account.
LEMMA BlacksStep ==
    ASSUME TypeOK, Structure, BlackAccount, [Next]_vars
    PROVE  BlackAccount'
<1>1. CASE StillStep
  <2>1. ASSUME NEW caller \in Accounts, TokenStep(caller) \/ AdminStep(caller)
        PROVE  UNCHANGED <<burnedBacking, blackShapeCount>>
    BY <2>1 DEF TokenStep, TransferFrom, Approve, SetApprovalForAll, AdminStep,
                TransferAdmin, RenounceAdmin, SetFeeRecipient, SetMintFee,
                reserveVars
  <2>2. ASSUME NEW recipient \in Accounts, WithdrawFees(recipient)
        PROVE  UNCHANGED <<burnedBacking, blackShapeCount>>
    BY <2>2 DEF WithdrawFees
  <2>3. OpenMint \/ ForceEth \/ UNCHANGED vars
            => UNCHANGED <<burnedBacking, blackShapeCount>>
    BY DEF OpenMint, ForceEth, vars, reserveVars
  <2>4. UNCHANGED <<burnedBacking, blackShapeCount>>
    BY <1>1, <2>1, <2>2, <2>3 DEF StillStep
  <2>5. Live' = Live /\ shapes' = shapes
    BY <1>1, StillStepKeeps DEF storeVars
  <2> QED
    BY <2>4, <2>5, BlacksByStillness
<1>2. ASSUME NEW d \in Denoms, NEW q \in 1 .. MaxMinted, NEW to \in Accounts,
             MintBatch(d, q, to)
      PROVE  BlackAccount'
  <2>1. PICK ids : ids = NextIds(q)
    OBVIOUS
  <2>2. /\ Exchange({}, ids, Live)
        /\ \A i \in ids : shapes'[i] = MintedShape(i, d)
    BY <1>2, <2>1, MintShapes
  <2>3. \A i \in ids : MintedShape(i, d).black = FALSE
    BY DEF MintedShape
  <2>4. \A i \in ids : ~shapes'[i].black
    BY <2>2, <2>3
  <2>5. UNCHANGED <<burnedBacking, blackShapeCount>>
    BY <1>2 DEF MintBatch
  <2> QED
    BY <2>2, <2>4, <2>5, BlacksByExchange
<1>3. ASSUME NEW caller \in Accounts, NEW S \in SUBSET Ids, NEW allowBlack,
             RedeemSet(caller, S, allowBlack)
      PROVE  BlackAccount'
  BY <1>3, BlacksByRedemption
<1>4. ASSUME NEW caller \in Accounts, NEW i \in Ids, BurnBacking(caller, i)
      PROVE  BlackAccount'
  BY <1>4, BlacksByBurnBacking
<1>5. ASSUME NEW caller \in Accounts, NEW s \in Ids, NEW burnIds \in SUBSET Ids,
             Compose(caller, s, burnIds)
      PROVE  BlackAccount'
  <2>1. UNCHANGED <<burnedBacking, blackShapeCount>>
    BY <1>5 DEF Compose, reserveVars
  <2>2. /\ Exchange(burnIds \cup {s}, {s}, Live \ (burnIds \cup {s}))
        /\ \A i \in burnIds \cup {s} : ~shapes[i].black
        /\ \A i \in {s} : ~shapes'[i].black
    BY <1>5, ComposeShapes
  <2> QED
    BY <2>1, <2>2, BlacksByExchange
<1>6. ASSUME NEW caller \in Accounts, NEW s \in Ids, NEW to \in Accounts,
             Decompose(caller, s, to)
      PROVE  BlackAccount'
  <2>1. PICK rec : rec = Last(composeStack[s])
    OBVIOUS
  <2>2. /\ Exchange({s}, rec.burned \cup {s}, Live \ {s})
        /\ ~shapes[s].black /\ ~shapes'[s].black
        /\ \A i \in rec.burned : shapes'[i] = Revived(rec.inputs[i])
    BY <1>6, <2>1, DecomposeShapes
  <2>3. \A i \in rec.burned : Revived(rec.inputs[i]).black = FALSE
    BY DEF Revived
  <2>4. \A i \in rec.burned \cup {s} : ~shapes'[i].black
    BY <2>2, <2>3
  <2>5. UNCHANGED <<burnedBacking, blackShapeCount>>
    BY <1>6 DEF Decompose, reserveVars
  <2> QED
    BY <2>2, <2>4, <2>5, BlacksByExchange
<1>7. ASSUME NEW caller \in Accounts, NEW i \in Ids, NEW out \in OutputLists,
             NEW to \in Accounts, Split(caller, i, out, to)
      PROVE  BlackAccount'
  <2>1. PICK children : children = NextIds(Len(out))
    OBVIOUS
  <2>2. /\ Exchange({i}, children, Live \ {i}) /\ ~shapes[i].black
        /\ \A c \in children : shapes'[c] = ChildShape(i, out, c)
    BY <1>7, <2>1, SplitShapesAndRefs
  <2>3. \A c \in children : ChildShape(i, out, c).black = FALSE
    BY DEF ChildShape
  <2>5. \A c \in children : ~shapes'[c].black
    BY <2>2, <2>3
  <2>4. UNCHANGED <<burnedBacking, blackShapeCount>>
    BY <1>7 DEF Split, reserveVars
  <2> QED
    BY <2>2, <2>4, <2>5, BlacksByExchange
<1> QED
  BY <1>1, <1>2, <1>3, <1>4, <1>5, <1>6, <1>7, StepKinds

\* There is no Black Shape at construction.
LEMMA InitBlacks == Init => BlackAccount
<1> SUFFICES ASSUME Init PROVE BlackAccount
  OBVIOUS
<1>1. /\ blackShapeCount = 0 /\ burnedBacking = 0
      /\ shapes = [i \in Ids |-> IF i = 0 THEN GenesisShape ELSE Blank]
  BY DEF Init
<1>2. \A i \in Ids : ~shapes[i].black
  BY <1>1 DEF GenesisShape, Blank
<1>3. Blacks = {}
  BY <1>2, LiveMembers DEF Blacks
<1>4. Units[Apex] * 0 = 0
  BY ConstantTypes
<1> QED
  BY <1>1, <1>3, <1>4, FS_EmptySet DEF BlackAccount

\* Types, structure and the account of Black Shapes always hold together.
LEMMA BlackAccountAlways == Spec => [](TypeOK /\ Structure /\ BlackAccount)
<1>1. Init => TypeOK /\ Structure /\ BlackAccount
  BY InitType, InitStructure, InitBlacks
<1>2. TypeOK /\ Structure /\ BlackAccount /\ [Next]_vars
          => (TypeOK /\ Structure /\ BlackAccount)'
  BY NextType, NextStructure, BlacksStep
<1> QED
  BY <1>1, <1>2, PTL DEF Spec

\* blackShapeCount always counts the live Black Shapes, each of which was
\* Complete at the apex, and at least their backing has been burned.
THEOREM BlacksAlwaysAccounted == Spec => []BlackShapesAccounted
<1>1. BlackAccount => BlackShapesAccounted
  BY BlackAccountIs
<1> QED
  BY <1>1, BlackAccountAlways, PTL

-----------------------------------------------------------------------------
(* Ways out.                                                               *)

\* What _redeemTo, _redeemBatchTo and burn require of the counters.
ExitCovered(S) ==
    /\ Cardinality({i \in S : shapes[i].black}) <= blackShapeCount
    /\ Cardinality(S) <= totalSupply
    /\ SumOver(Backings, S) <= redeemableBacking
    /\ SumOver(Backings, S) <= ethBalance

\* No counter is short for any set of live tokens.
ExitsCovered == \A S \in SUBSET Live : ExitCovered(S)

\* This follows from the reserve, the balance, the supply and the Black Shapes.
LEMMA ExitsFollow ==
    ASSUME TypeOK, Structure, ReserveBacksLiveShapes, BalanceCoversObligations,
           BlackAccount
    PROVE  ExitsCovered
<1> SUFFICES ASSUME NEW S \in SUBSET Live PROVE ExitCovered(S)
  BY DEF ExitsCovered
<1>1. /\ Live \in SUBSET Ids /\ IsFiniteSet(Live)
      /\ S \in SUBSET Ids /\ IsFiniteSet(S)
  BY LiveMembers, IdsFinite
<1>2. Cardinality(S) <= totalSupply
  BY <1>1, FS_Subset DEF Structure, SupplyCountsLiveShapes
<1>3. Cardinality({i \in S : shapes[i].black}) <= blackShapeCount
  <2>1. {i \in S : shapes[i].black} \in SUBSET Blacks
    BY DEF Blacks
  <2> QED
    BY <2>1, BlacksFinite, FS_Subset DEF BlackAccount
<1>4. PICK f, a, b, c : /\ f = Backings /\ a = SumOver(f, S)
                        /\ b = SumOver(f, Live) /\ c = SumOver(f, Live \ S)
  OBVIOUS
<1>5. f \in [Ids -> Nat] /\ Live \ S \in SUBSET Ids
  BY <1>1, <1>4, SummandTypes
<1>6. a \in Nat /\ b \in Nat /\ c \in Nat
  BY <1>1, <1>4, <1>5, IdSumNat
<1>7. b = a + c
  <2>1. \A y \in Live : f[y] \in Nat
    BY <1>1, <1>5
  <2> QED
    BY <1>1, <1>4, <2>1, SumDifference
<1>8. redeemableBacking = b
  BY <1>4 DEF ReserveBacksLiveShapes
<1>9. a <= redeemableBacking
  BY <1>6, <1>7, <1>8
<1>10. redeemableBacking <= ethBalance
  BY DEF BalanceCoversObligations, TypeOK
<1>11. a <= ethBalance
  BY <1>6, <1>9, <1>10 DEF TypeOK
<1> QED
  BY <1>2, <1>3, <1>4, <1>9, <1>11 DEF ExitCovered

\* No counter is ever short for a redemption or a burn of any set of live
\* tokens: every guard of RedeemSet but the caller's right to the tokens always
\* holds.  This is ExitAlwaysOpen without the successor state, for whole
\* batches.
THEOREM ExitsAlwaysCovered == Spec => []ExitsCovered
<1>1. TypeOK /\ Inductive /\ BalanceCoversObligations /\ BlackAccount
          => ExitsCovered
  BY ExitsFollow DEF Inductive, Conservation
<1> QED
  BY <1>1, InductiveAlways, BalanceAlwaysCovers, BlackAccountAlways, PTL

\* What decompose requires of a token with a record, for its own holder.
UndoClear ==
    \A s \in Live : ~shapes[s].black /\ composeStack[s] # <<>> =>
        /\ CallerOwnsLive(owners[s], s)
        /\ owners[s] \in Accounts
        /\ Mintable(Last(composeStack[s]).burned, owners[s])

\* The guards of decompose always hold for the holder of a composed Shape that
\* is not Black: no input of its newest record can have come back meanwhile.
\* This is UndoAlwaysOpen without the successor state.
THEOREM UndoAlwaysClear == Spec => []UndoClear
<1>1. ASSUME TypeOK, Structure, NEW s \in Live, ~shapes[s].black,
             composeStack[s] # <<>>
      PROVE  /\ CallerOwnsLive(owners[s], s)
             /\ owners[s] \in Accounts
             /\ Mintable(Last(composeStack[s]).burned, owners[s])
  <2>1. s \in Ids /\ owners[s] # NoOne
    BY DEF Live
  <2>2. owners[s] \in Accounts
    BY <1>1, <2>1 DEF TypeOK
  <2>3. PICK n, p : n = Len(composeStack[s]) /\ p = <<s, n>>
    OBVIOUS
  <2>4. n \in 1 .. Len(composeStack[s])
    <3>1. composeStack[s] \in Seq(ComposeRecord)
      BY <1>1, <2>1 DEF TypeOK
    <3> QED
      BY <1>1, <2>3, <3>1, Popped
  <2>5. p \in Places /\ HeldAt(p) = Last(composeStack[s]).burned
    BY <2>1, <2>3, <2>4, PlaceIntro DEF HeldAt, RecordAt, Last
  <2>6. \A i \in HeldAt(p) : owners[i] = NoOne
    BY <1>1, <2>5 DEF Structure, HeldShapesAreDeadAndUnique, IsLive
  <2> QED
    BY <1>1, <2>1, <2>2, <2>5, <2>6 DEF CallerOwnsLive, Mintable
<1>2. TypeOK /\ Structure => UndoClear
  BY <1>1 DEF UndoClear
<1> QED
  BY <1>2, StructureAlways, PTL

-----------------------------------------------------------------------------
(* The assertion of allocateSplitOrigins.                                  *)

\* A record keeps no more origins for a token than its denomination has units.
RecordFits(rec) ==
    /\ rec.origins <= Units[rec.denom]
    /\ \A i \in rec.burned : rec.inputs[i].origins <= Units[rec.inputs[i].denom]

\* No token, live or recorded, has more origins than its denomination has units.
\* The recorded ones matter because decompose brings them back.
OriginsFit ==
    /\ \A i \in Live : shapes[i].origins <= Units[shapes[i].denom]
    /\ \A p \in Places : RecordFits(RecordAt(p))

\* A step that leaves the records alone and issues only tokens that fit.
LEMMA FitByExchange ==
    ASSUME OriginsFit, NEW A, NEW B, NEW R, Exchange(A, B, R),
           composeStack' = composeStack,
           \A i \in B : shapes'[i].origins <= Units[shapes'[i].denom]
    PROVE  OriginsFit'
<1>1. \A i \in Live' : shapes'[i].origins <= Units[shapes'[i].denom]
  BY DEF OriginsFit, Exchange
<1>2. \A p \in Places' : RecordFits(RecordAt(p))'
  BY SamePlaces DEF OriginsFit, RecordFits
<1> QED
  BY <1>1, <1>2 DEF OriginsFit

\* A compose adds up the origins of its donors, and their units.
LEMMA FitByCompose ==
    ASSUME TypeOK, OriginsFit, NEW caller \in Accounts, NEW s \in Ids,
           NEW burnIds \in SUBSET Ids, Compose(caller, s, burnIds),
           NEW n, n = Len(composeStack[s]) + 1, NEW new, new = <<s, n>>,
           NEW rec, rec = RecordOf(s, burnIds)
    PROVE  OriginsFit'
<1>1. PICK A : A = burnIds \cup {s}
  OBVIOUS
<1>2. /\ s \in Live /\ burnIds \subseteq Live
      /\ Exchange(A, {s}, Live \ A)
      /\ Units[shapes'[s].denom] = SumOver(FaceUnits, A)
      /\ shapes'[s].origins = SumOver(OriginCounts, A)
  BY <1>1, ComposeShapes
<1>3. shapes'[s].origins <= Units[shapes'[s].denom]
  <2>1. PICK f, g : f = OriginCounts /\ g = FaceUnits
    OBVIOUS
  <2>2. A \in SUBSET Ids /\ IsFiniteSet(A)
    BY <1>1, IdsFinite
  <2>3. f \in [Ids -> Nat] /\ g \in [Ids -> Nat]
    BY <2>1, SummandTypes
  <2>4. \A x \in A : f[x] <= g[x]
    BY <1>1, <1>2, <2>1, <2>2 DEF OriginsFit, OriginCounts, FaceUnits
  <2>5. \A x \in A : f[x] \in Nat /\ g[x] \in Nat /\ f[x] <= g[x]
    BY <2>2, <2>3, <2>4
  <2>6. SumOver(f, A) <= SumOver(g, A)
    BY <2>2, <2>5, SumLe
  <2> QED
    BY <1>2, <2>1, <2>6
<1>4. \A i \in Live' : shapes'[i].origins <= Units[shapes'[i].denom]
  BY <1>2, <1>3 DEF OriginsFit, Exchange
<1>5. RecordFits(rec)
  <2>1. /\ rec.burned = burnIds
        /\ rec.denom = shapes[s].denom /\ rec.origins = shapes[s].origins
        /\ \A b \in burnIds : /\ rec.inputs[b].denom = shapes[b].denom
                              /\ rec.inputs[b].origins = shapes[b].origins
    BY DEF RecordOf, SnapshotOf
  <2> QED
    BY <1>2, <2>1 DEF OriginsFit, RecordFits
<1>6. /\ Places' = Places \cup {new} /\ RecordAt(new)' = rec
      /\ \A p \in Places : RecordAt(p)' = RecordAt(p)
  BY ComposePlaces
<1>7. \A p \in Places' : RecordFits(RecordAt(p)')
  BY <1>5, <1>6 DEF OriginsFit
<1>8. \A p \in Places' : RecordFits(RecordAt(p))'
  BY <1>7 DEF RecordFits
<1> QED
  BY <1>4, <1>8 DEF OriginsFit

\* A decompose brings back what the record kept.
LEMMA FitByDecompose ==
    ASSUME TypeOK, OriginsFit, NEW caller \in Accounts, NEW s \in Ids,
           NEW to \in Accounts, Decompose(caller, s, to)
    PROVE  OriginsFit'
<1>1. PICK n, rec, p : /\ n = Len(composeStack[s])
                       /\ rec = Last(composeStack[s])
                       /\ p = <<s, n>>
  OBVIOUS
<1>2. /\ p \in Places /\ RecordAt(p) = rec
      /\ Places' = Places \ {p}
      /\ \A q \in Places' : RecordAt(q)' = RecordAt(q)
  BY <1>1, DecomposePlaces
<1>3. RecordFits(rec)
  BY <1>2 DEF OriginsFit
<1>4. /\ Exchange({s}, rec.burned \cup {s}, Live \ {s})
      /\ shapes'[s].denom = rec.denom /\ shapes'[s].origins = rec.origins
      /\ \A i \in rec.burned : shapes'[i] = Revived(rec.inputs[i])
  BY <1>1, DecomposeShapes
<1>5. \A i \in rec.burned : /\ shapes'[i].denom = rec.inputs[i].denom
                            /\ shapes'[i].origins = rec.inputs[i].origins
  <2>1. \A i \in rec.burned :
            /\ Revived(rec.inputs[i]).denom = rec.inputs[i].denom
            /\ Revived(rec.inputs[i]).origins = rec.inputs[i].origins
    BY DEF Revived
  <2> QED
    BY <1>4, <2>1
<1>6. \A i \in rec.burned \cup {s} :
          shapes'[i].origins <= Units[shapes'[i].denom]
  BY <1>3, <1>4, <1>5 DEF RecordFits
<1>7. \A i \in Live' : shapes'[i].origins <= Units[shapes'[i].denom]
  BY <1>4, <1>6 DEF OriginsFit, Exchange
<1>8. \A q \in Places' : RecordFits(RecordAt(q)')
  BY <1>2 DEF OriginsFit
<1>9. \A q \in Places' : RecordFits(RecordAt(q))'
  BY <1>8 DEF RecordFits
<1> QED
  BY <1>7, <1>9 DEF OriginsFit

\* A child gets no more origins than its capacity.
LEMMA AllocationFits ==
    ASSUME NEW origins \in Nat, NEW n \in Nat, NEW out \in [1 .. n -> Denoms],
           NEW k \in 1 .. n
    PROVE  AllocateSplitOrigins(origins, out)[k] <= Units[out[k]]
<1>1. \A j \in 1 .. n : /\ Capacities(out)[j] = Units[out[j]]
                       /\ Units[out[j]] \in Nat
  BY ConstantTypes DEF Capacities
<1>2. PICK filled : filled = SumOver(Capacities(out), 1 .. k - 1)
  OBVIOUS
<1>3. filled \in Nat
  <2>1. IsFiniteSet(1 .. k - 1)
    BY FS_Interval
  <2>2. \A j \in 1 .. k - 1 : Capacities(out)[j] \in Nat
    BY <1>1
  <2> QED
    BY <1>2, <2>1, <2>2, SumNat
<1>4. AllocateSplitOrigins(origins, out)[k]
          = IF filled >= origins THEN 0
            ELSE IF origins - filled < Units[out[k]] THEN origins - filled
            ELSE Units[out[k]]
  BY <1>2 DEF AllocateSplitOrigins
<1>5. Units[out[k]] \in Nat
  BY <1>1
<1> QED
  BY <1>3, <1>4, <1>5

\* Every step keeps the origins of every token within its denomination.
LEMMA FitStep ==
    ASSUME TypeOK, Structure, OriginsFit, [Next]_vars
    PROVE  OriginsFit'
<1>1. CASE StillStep
  <2>1. Live' = Live /\ shapes' = shapes /\ composeStack' = composeStack
    BY <1>1, StillStepKeeps DEF storeVars
  <2>2. \A p \in Places' : RecordFits(RecordAt(p))'
    BY <2>1, SamePlaces DEF OriginsFit, RecordFits
  <2> QED
    BY <2>1, <2>2 DEF OriginsFit
<1>2. ASSUME NEW d \in Denoms, NEW q \in 1 .. MaxMinted, NEW to \in Accounts,
             MintBatch(d, q, to)
      PROVE  OriginsFit'
  <2>1. PICK ids : ids = NextIds(q)
    OBVIOUS
  <2>2. /\ Exchange({}, ids, Live) /\ composeStack' = composeStack
        /\ \A i \in ids : shapes'[i] = MintedShape(i, d)
    BY <1>2, <2>1, MintShapes
  <2>3. \A i \in ids : /\ MintedShape(i, d).origins = 1
                      /\ MintedShape(i, d).denom = d
    BY DEF MintedShape
  <2>4. Units[d] >= 1
    BY ConstantTypes
  <2>5. \A i \in ids : shapes'[i].origins <= Units[shapes'[i].denom]
    BY <2>2, <2>3, <2>4
  <2> QED
    BY <2>2, <2>5, FitByExchange
<1>3. ASSUME NEW caller \in Accounts, NEW S \in SUBSET Ids, NEW allowBlack,
             RedeemSet(caller, S, allowBlack)
      PROVE  OriginsFit'
  <2>1. Exchange(S, {}, Live \ S) /\ composeStack' = composeStack
    BY <1>3, RedeemShapes
  <2> QED
    BY <2>1, FitByExchange
<1>4. ASSUME NEW caller \in Accounts, NEW i \in Ids, BurnBacking(caller, i)
      PROVE  OriginsFit'
  <2>1. /\ \A j \in Ids : /\ shapes'[j].denom = shapes[j].denom
                          /\ shapes'[j].origins = shapes[j].origins
        /\ Live' = Live /\ composeStack' = composeStack
    BY <1>4, BurnBackingShapes
  <2>2. \A p \in Places' : RecordFits(RecordAt(p))'
    BY <2>1, SamePlaces DEF OriginsFit, RecordFits
  <2> QED
    BY <2>1, <2>2, LiveMembers DEF OriginsFit
<1>5. ASSUME NEW caller \in Accounts, NEW s \in Ids, NEW burnIds \in SUBSET Ids,
             Compose(caller, s, burnIds)
      PROVE  OriginsFit'
  <2>1. PICK n, new, rec : /\ n = Len(composeStack[s]) + 1
                           /\ new = <<s, n>>
                           /\ rec = RecordOf(s, burnIds)
    OBVIOUS
  <2> QED
    BY <1>5, <2>1, FitByCompose
<1>6. ASSUME NEW caller \in Accounts, NEW s \in Ids, NEW to \in Accounts,
             Decompose(caller, s, to)
      PROVE  OriginsFit'
  BY <1>6, FitByDecompose
<1>7. ASSUME NEW caller \in Accounts, NEW i \in Ids, NEW out \in OutputLists,
             NEW to \in Accounts, Split(caller, i, out, to)
      PROVE  OriginsFit'
  <2>1. PICK children : children = NextIds(Len(out))
    OBVIOUS
  <2>2. /\ Exchange({i}, children, Live \ {i}) /\ composeStack' = composeStack
        /\ \A c \in children : /\ shapes'[c] = ChildShape(i, out, c)
                               /\ c - totalMinted + 1 \in DOMAIN out
    BY <1>7, <2>1, SplitShapesAndRefs
  <2>3. PICK n \in 1 .. MaxMinted - totalMinted : out \in [1 .. n -> Denoms]
    BY <1>7 DEF OutputLists
  <2>4. n \in Nat /\ DOMAIN out = 1 .. n
    BY <2>3
  <2>5. PICK o : o = shapes[i].origins
    OBVIOUS
  <2>6. o \in Nat
    BY <2>5 DEF TypeOK, ShapeData
  <2>7. ASSUME NEW c \in children
        PROVE  shapes'[c].origins <= Units[shapes'[c].denom]
    <3>1. PICK k : k = c - totalMinted + 1
      OBVIOUS
    <3>2. /\ ChildShape(i, out, c).denom = out[k]
          /\ ChildShape(i, out, c).origins = AllocateSplitOrigins(o, out)[k]
      BY <2>5, <3>1 DEF ChildShape
    <3>3. k \in 1 .. n
      BY <2>2, <2>4, <3>1
    <3>4. AllocateSplitOrigins(o, out)[k] <= Units[out[k]]
      BY <2>3, <2>4, <2>6, <3>3, AllocationFits
    <3> QED
      BY <2>2, <3>2, <3>4
  <2> QED
    BY <2>2, <2>7, FitByExchange
<1> QED
  BY <1>1, <1>2, <1>3, <1>4, <1>5, <1>6, <1>7, StepKinds

\* At construction the one token has one origin, and a unit at least.
LEMMA InitFit == Init => OriginsFit
<1> SUFFICES ASSUME Init PROVE OriginsFit
  OBVIOUS
<1>1. /\ shapes = [i \in Ids |-> IF i = 0 THEN GenesisShape ELSE Blank]
      /\ composeStack = [i \in Ids |-> <<>>]
      /\ owners = [i \in Ids |-> IF i = 0 THEN Deployer ELSE NoOne]
  BY DEF Init
<1>2. \A i \in Live : i \in Ids /\ i = 0
  BY <1>1 DEF Live
<1>3. GenesisShape.origins = 1 /\ GenesisShape.denom = 0
  BY DEF GenesisShape
<1>4. \A i \in Live : shapes[i].origins <= Units[shapes[i].denom]
  BY <1>1, <1>2, <1>3, ConstantTypes
<1>5. \A p \in Places : FALSE
  BY <1>1 DEF Places
<1> QED
  BY <1>4, <1>5 DEF OriginsFit

\* Types, structure and fitting origins always hold together.
LEMMA FitAlways == Spec => [](TypeOK /\ OriginsFit)
<1>1. Init => OriginsFit
  BY InitFit
<1>2. TypeOK /\ Structure /\ OriginsFit /\ [Next]_vars => OriginsFit'
  BY FitStep
<1> QED
  BY <1>1, <1>2, StructureAlways, PTL DEF Spec

\* The outputs of a split take all the origins of their parent: filled in turn
\* to capacities that add up to the parent's units, they hold whatever fits in
\* the parent.
LEMMA AllocationExhausts ==
    ASSUME TypeOK, OriginsFit, NEW i \in Live, NEW out \in OutputLists,
           SplitSumMatches(i, out)
    PROVE  SplitExhausts(i, out)
<1>1. i \in Ids
  BY DEF Live
<1>2. PICK n \in 1 .. MaxMinted - totalMinted : out \in [1 .. n -> Denoms]
  BY DEF OutputLists
<1>3. n \in Nat /\ DOMAIN out = 1 .. n
  BY <1>2
<1>4. PICK o, c, a : /\ o = shapes[i].origins
                     /\ c = Capacities(out)
                     /\ a = AllocateSplitOrigins(o, out)
  OBVIOUS
<1>5. o \in Nat /\ o <= Units[shapes[i].denom]
  BY <1>1, <1>4 DEF TypeOK, ShapeData, OriginsFit
<1>6. c \in [1 .. n -> Nat] /\ \A k \in 1 .. n : c[k] = Units[out[k]]
  BY <1>2, <1>3, <1>4, ConstantTypes DEF Capacities
<1>7. SumOver(c, 1 .. n) = Units[shapes[i].denom]
  BY <1>3, <1>4 DEF SplitSumMatches
<1>8. FilledInTurn(a, c, o, n)
  BY <1>3, <1>4, <1>6 DEF AllocateSplitOrigins, FilledInTurn
<1>9. o <= SumOver(c, 1 .. n)
  BY <1>5, <1>7
<1>10. SumOver(a, 1 .. n) = o
  BY <1>3, <1>5, <1>6, <1>8, <1>9, GreedyFill
<1> QED
  BY <1>3, <1>4, <1>10 DEF SplitExhausts

\* The assertion that ends allocateSplitOrigins can never fail, for any ladder,
\* any live token and any output list whose units add up.
THEOREM SplitAlwaysExhausts == Spec => []SplitNeverPanics
<1>1. TypeOK /\ OriginsFit => SplitNeverPanics
  BY AllocationExhausts DEF SplitNeverPanics
<1> QED
  BY <1>1, FitAlways, PTL
=============================================================================
