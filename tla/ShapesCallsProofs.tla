------------------------- MODULE ShapesCallsProofs -------------------------
(***************************************************************************)
(* A call of Shapes, callbacks included, is one step of module Shapes, and *)
(* no callback sees an owner token that does not exist.  The invariant of  *)
(* Shapes is used as proved there, over what the calls amount to: the      *)
(* tokens a call owes counted as handed out, the owner token as moved.     *)
(***************************************************************************)
EXTENDS ShapesCallsProperties, SumLemmas, FiniteSetTheorems, TLAPS

\* Module Shapes, with its proved lemmas, over what the calls amount to.
Settled == INSTANCE ShapesProofs WITH owners <- SettledOwners,
                                      ownerToken <- SettledOwnerToken

\* A step of Shapes over what the calls amount to is a step of the module its
\* proofs are about: both instances substitute the same state.
LEMMA AtomicIsSettled ==
    ASSUME [Atomic!Next]_(Atomic!vars)
    PROVE  [Settled!Next]_(Settled!vars)
<1>1. CASE Atomic!Next
  <2>1. Settled!Next
    BY <1>1 DEF
       Atomic!Next, Settled!Next, Atomic!HolderStep,
       Settled!HolderStep, Atomic!TokenStep, Settled!TokenStep,
       Atomic!AdminStep, Settled!AdminStep, Atomic!OpenStep,
       Settled!OpenStep, Atomic!OutputLists, Settled!OutputLists,
       Atomic!Redeem, Settled!Redeem, Atomic!Burn, Settled!Burn,
       Atomic!RedeemBatch, Settled!RedeemBatch, Atomic!RedeemSet,
       Settled!RedeemSet, Atomic!BurnBacking, Settled!BurnBacking,
       Atomic!Compose, Settled!Compose, Atomic!Decompose,
       Settled!Decompose, Atomic!Split, Settled!Split,
       Atomic!TransferFrom, Settled!TransferFrom, Atomic!Approve,
       Settled!Approve, Atomic!SetApprovalForAll,
       Settled!SetApprovalForAll, Atomic!TransferAdmin,
       Settled!TransferAdmin, Atomic!RenounceAdmin,
       Settled!RenounceAdmin, Atomic!SetFeeRecipient,
       Settled!SetFeeRecipient, Atomic!SetMintFee, Settled!SetMintFee,
       Atomic!OpenMint, Settled!OpenMint, Atomic!ForceEth,
       Settled!ForceEth, Atomic!WithdrawFees, Settled!WithdrawFees,
       Atomic!MintBatch, Settled!MintBatch, Atomic!MayRedeem,
       Settled!MayRedeem, Atomic!OwnerTokenAfterRedeeming,
       Settled!OwnerTokenAfterRedeeming, Atomic!Backings,
       Settled!Backings, Atomic!BackingOf, Settled!BackingOf,
       Atomic!OriginCounts, Settled!OriginCounts, Atomic!Blank,
       Settled!Blank, Atomic!UpdateOwners, Settled!UpdateOwners,
       Atomic!CallerOwnsLive, Settled!CallerOwnsLive,
       Atomic!MayCompose, Settled!MayCompose, Atomic!FaceUnits,
       Settled!FaceUnits, Atomic!Composed, Settled!Composed,
       Atomic!RecordOf, Settled!RecordOf, Atomic!SnapshotOf,
       Settled!SnapshotOf, Atomic!OwnerTokenFrom,
       Settled!OwnerTokenFrom, Atomic!OwnerTokenAfterCompose,
       Settled!OwnerTokenAfterCompose, Atomic!BlankInput,
       Settled!BlankInput, Atomic!Mintable, Settled!Mintable,
       Atomic!Uncomposed, Settled!Uncomposed, Atomic!Revived,
       Settled!Revived, Atomic!OwnerTokenAfterDecompose,
       Settled!OwnerTokenAfterDecompose, Atomic!Last, Settled!Last,
       Atomic!Front, Settled!Front, Atomic!NextIds, Settled!NextIds,
       Atomic!SplitSumMatches, Settled!SplitSumMatches,
       Atomic!SplitExhausts, Settled!SplitExhausts, Atomic!Capacities,
       Settled!Capacities, Atomic!AllocateSplitOrigins,
       Settled!AllocateSplitOrigins, Atomic!ChildShape,
       Settled!ChildShape, Atomic!SplitPool, Settled!SplitPool,
       Atomic!SplitRecordOf, Settled!SplitRecordOf,
       Atomic!OriginDenom, Settled!OriginDenom, Atomic!ChildRef,
       Settled!ChildRef, Atomic!OwnerTokenAfterSplit,
       Settled!OwnerTokenAfterSplit, Atomic!IsLive, Settled!IsLive,
       Atomic!Authorised, Settled!Authorised, Atomic!AccrueFees,
       Settled!AccrueFees, Atomic!MintedShape, Settled!MintedShape,
       Atomic!Denoms, Settled!Denoms, Atomic!Ids, Settled!Ids,
       Atomic!Live, Settled!Live, Atomic!vars, Settled!vars,
       Atomic!erc721Vars, Settled!erc721Vars, Atomic!storeVars,
       Settled!storeVars, Atomic!reserveVars, Settled!reserveVars,
       Atomic!feeVars, Settled!feeVars, Atomic!configVars,
       Settled!configVars, Atomic!historyVars, Settled!historyVars,
       Atomic!SumOver, Settled!SumOver, Atomic!Coins, Settled!Coins,
       Atomic!Cardinality, Settled!Cardinality
  <2> QED
    BY <2>1
<1>2. CASE UNCHANGED Atomic!vars
  BY <1>2
     DEF Atomic!vars, Settled!vars, Atomic!erc721Vars, Settled!erc721Vars,
         Atomic!storeVars, Settled!storeVars, Atomic!reserveVars,
         Settled!reserveVars, Atomic!feeVars, Settled!feeVars,
         Atomic!configVars, Settled!configVars, Atomic!historyVars,
         Settled!historyVars
<1> QED
  BY <1>1, <1>2

\* So such a step keeps the types and the inductive invariant of Shapes over
\* what the calls amount to.
LEMMA SettledKeeps ==
    ASSUME Settled!TypeOK, Settled!Inductive, [Atomic!Next]_(Atomic!vars)
    PROVE  Settled!TypeOK' /\ Settled!Inductive'
<1>1. [Settled!Next]_(Settled!vars)
  BY AtomicIsSettled
<1>2. Settled!TypeOK'
  BY <1>1, Settled!NextType, AccountsAssumption, LadderAssumption,
     BoundsAssumption, ArtAssumption DEF Settled!Ids, Ids, Settled!Denoms,
     Denoms
<1>3. Settled!Structure'
  BY <1>1, Settled!NextStructure, AccountsAssumption, LadderAssumption,
     BoundsAssumption, ArtAssumption
     DEF Settled!Ids, Ids, Settled!Denoms, Denoms, Settled!Inductive
<1>4. Settled!Conservation'
  BY <1>1, Settled!NextConservation, AccountsAssumption, LadderAssumption,
     BoundsAssumption, ArtAssumption DEF Settled!Ids, Ids, Settled!Denoms,
     Denoms
<1> QED
  BY <1>2, <1>3, <1>4 DEF Settled!Inductive

\* Sums and cardinalities do not depend on the substitution,
LEMMA SameSums ==
    /\ \A S : Atomic!Cardinality(S) = Cardinality(S)
    /\ \A f, S : Atomic!SumOver(f, S) = SumOver(f, S)
BY DEF Atomic!Cardinality, Cardinality, Atomic!SumOver, SumOver, Atomic!Coins,
   Coins

\* neither in the other instance,
LEMMA SettledSums ==
    /\ \A S : Settled!Cardinality(S) = Cardinality(S)
    /\ \A f, S : Settled!SumOver(f, S) = SumOver(f, S)
BY DEF Settled!Cardinality, Cardinality, Settled!SumOver, SumOver,
   Settled!Coins, Coins

\* nor does what Shapes computes from its storage alone,
LEMMA SameData ==
    /\ Atomic!Ids = Ids /\ Atomic!Denoms = Denoms /\ Atomic!Blank = Blank
    /\ Atomic!Backings = Backings /\ Atomic!OriginCounts = OriginCounts
    /\ Atomic!FaceUnits = FaceUnits /\ Atomic!OutputLists = OutputLists
    /\ \A q : Atomic!NextIds(q) = NextIds(q)
    /\ \A i, d : Atomic!MintedShape(i, d) = MintedShape(i, d)
    /\ \A s : Atomic!Last(s) = Last(s) /\ Atomic!Front(s) = Front(s)
    /\ \A s, rec : Atomic!Uncomposed(s, rec) = Uncomposed(s, rec)
BY DEF Atomic!Ids, Ids, Atomic!Denoms, Denoms, Atomic!Blank, Blank,
   Atomic!Backings, Backings, Atomic!BackingOf, BackingOf,
   Atomic!OriginCounts, OriginCounts, Atomic!FaceUnits, FaceUnits,
   Atomic!OutputLists, OutputLists, Atomic!NextIds, NextIds,
   Atomic!MintedShape, MintedShape, Atomic!Last, Last, Atomic!Front, Front,
   Atomic!Uncomposed, Uncomposed, Atomic!Revived, Revived

\* nor what a compose or a split writes.
LEMMA SameShapes ==
    /\ \A s, S, d : Atomic!Composed(s, S, d) = Composed(s, S, d)
    /\ \A i, out, c : Atomic!ChildShape(i, out, c) = ChildShape(i, out, c)
    /\ \A i : Atomic!SplitRecordOf(i) = SplitRecordOf(i)
    /\ \A c : Atomic!ChildRef(c) = ChildRef(c)
    /\ \A i, out : Atomic!SplitSumMatches(i, out) <=> SplitSumMatches(i, out)
    /\ \A i, out : Atomic!SplitExhausts(i, out) <=> SplitExhausts(i, out)
<1>1. \A s, S, d : Atomic!Composed(s, S, d) = Composed(s, S, d)
  BY SameSums, SameData DEF Atomic!Composed, Composed
<1>2. \A orig, out : Atomic!AllocateSplitOrigins(orig, out) = AllocateSplitOrigins(orig, out)
  BY SameSums DEF Atomic!AllocateSplitOrigins, AllocateSplitOrigins,
     Atomic!Capacities, Capacities
<1>3. \A i : Atomic!SplitPool(i) = SplitPool(i)
  BY SameData DEF Atomic!SplitPool, SplitPool
<1>4. \A i, out, c : Atomic!ChildShape(i, out, c) = ChildShape(i, out, c)
  BY <1>2, <1>3 DEF Atomic!ChildShape, ChildShape
<1>5. \A i : Atomic!SplitRecordOf(i) = SplitRecordOf(i)
  BY DEF Atomic!SplitRecordOf, SplitRecordOf, Atomic!OriginDenom, OriginDenom
<1>6. \A c : Atomic!ChildRef(c) = ChildRef(c)
  BY DEF Atomic!ChildRef, ChildRef
<1>7. \A i, out : Atomic!SplitSumMatches(i, out) <=> SplitSumMatches(i, out)
  BY SameSums DEF Atomic!SplitSumMatches, SplitSumMatches, Atomic!Capacities,
     Capacities
<1>8. \A i, out : Atomic!SplitExhausts(i, out) <=> SplitExhausts(i, out)
  BY SameSums, <1>2 DEF Atomic!SplitExhausts, SplitExhausts
<1> QED
  BY <1>1, <1>4, <1>5, <1>6, <1>7, <1>8

-----------------------------------------------------------------------------

\* The frame of a call.
Kinds == {"idle", "mint", "split", "decompose", "redeem"}
Frames == [kind : Kinds, to : Accounts \cup {NoOne}, todo : SUBSET Ids,
           ownerTokenNext : 0 .. MaxMinted, survivor : Ids, hook : BOOLEAN]

\* What a call owes are ids without an owner, for an account that can take them;
\* only a call that mints owes any.
Framed ==
    /\ call \in Frames
    /\ owners \in [Ids -> Accounts \cup {NoOne}]
    /\ ownerToken \in 0 .. MaxMinted
    /\ \A i \in call.todo : owners[i] = NoOne
    /\ call.todo # {} => call.to \in Accounts
    /\ call.kind \in {"idle", "redeem"} => call.todo = {} /\ call.ownerTokenNext = 0

\* The inductive invariant.
CallsInv == Framed /\ Settled!TypeOK /\ Settled!Inductive

\* What the assumptions say of the constants used below.
LEMMA CallConstants ==
    /\ MaxMinted \in Nat \ {0} /\ 0 \in Ids
    /\ \A i \in Ids : i \in Nat /\ i < MaxMinted
    /\ NoOne \notin Accounts /\ Deployer \in Accounts
BY BoundsAssumption, AccountsAssumption DEF Ids

\* What the invariant of Shapes says of ids, records and the owner token once
\* the tokens a call owes are handed out.
LEMMA SettledFacts ==
    ASSUME CallsInv
    PROVE  /\ SettledOwners \in [Ids -> Accounts \cup {NoOne}]
           /\ approvals \in [Ids -> Accounts \cup {NoOne}]
           /\ totalMinted \in 0 .. MaxMinted
           /\ \A i \in Ids : i >= totalMinted => SettledOwners[i] = NoOne
           /\ composeStack \in [Ids -> Seq(Settled!ComposeRecord)]
           /\ SettledOwnerToken # 0 =>
                 \E i \in Ids : SettledOwnerToken = i + 1 /\ SettledOwners[i] # NoOne
<1>1. /\ SettledOwners \in [Ids -> Accounts \cup {NoOne}]
      /\ approvals \in [Ids -> Accounts \cup {NoOne}]
      /\ totalMinted \in 0 .. MaxMinted
      /\ composeStack \in [Ids -> Seq(Settled!ComposeRecord)]
  BY DEF CallsInv, Settled!TypeOK, Settled!Ids, Ids
<1>2. \A i \in Ids : SettledOwners[i] # NoOne => i < totalMinted
  BY DEF CallsInv, Settled!Inductive, Settled!Structure,
     Settled!SupplyCountsLiveShapes,
         Settled!Live, Settled!Ids, Ids
<1>3. \A i \in Ids : i >= totalMinted => SettledOwners[i] = NoOne
  BY <1>1, <1>2, CallConstants
<1>4. SettledOwnerToken # 0 =>
          \E i \in Ids : SettledOwnerToken = i + 1 /\ SettledOwners[i] # NoOne
  BY DEF CallsInv, Settled!Inductive, Settled!Structure, Settled!OwnerTokenLive,
         Settled!Live, Settled!Ids, Ids
<1> QED
  BY <1>1, <1>3, <1>4

\* The record a decompose pops holds dead ids, so all of them can be minted.
LEMMA TopRecord ==
    ASSUME CallsInv, NEW s \in Ids, composeStack[s] # <<>>,
           NEW rec, rec = Last(composeStack[s])
    PROVE  /\ rec.burned \in SUBSET Ids
           /\ rec.ownerTokenFrom \in 0 .. MaxMinted
           /\ \A b \in rec.burned : SettledOwners[b] = NoOne
<1> DEFINE n == Len(composeStack[s])
<1>1. composeStack[s] \in Seq(Settled!ComposeRecord)
  BY SettledFacts
<1>2. n \in Nat \ {0} /\ rec = composeStack[s][n] /\ rec \in Settled!ComposeRecord
  BY <1>1 DEF Last
<1>3. rec.burned \in SUBSET Ids /\ rec.ownerTokenFrom \in 0 .. MaxMinted
  BY <1>2 DEF Settled!ComposeRecord, Settled!Ids, Ids
<1>4. <<s, n>> \in Settled!Places
  BY <1>2 DEF Settled!Places, Settled!Ids, Ids
<1>5. Settled!HeldAt(<<s, n>>) = rec.burned
  BY <1>2 DEF Settled!HeldAt, Settled!RecordAt
<1>6. \A b \in rec.burned : SettledOwners[b] = NoOne
  BY <1>4, <1>5 DEF CallsInv, Settled!Inductive, Settled!Structure,
     Settled!HeldShapesAreDeadAndUnique, Settled!IsLive
<1> QED
  BY <1>3, <1>6

\* A call that owes nothing leaves what it amounts to as it is,
LEMMA SettledNothing ==
    ASSUME call.todo = {}, call.ownerTokenNext = 0,
           NEW T, owners \in [Ids -> T]
    PROVE  SettledOwners = owners /\ SettledOwnerToken = ownerToken
BY DEF SettledOwners, SettledOwnerToken

\* after a step as before it,
LEMMA SettledNothingNext ==
    ASSUME call'.todo = {}, call'.ownerTokenNext = 0,
           NEW T, owners' \in [Ids -> T]
    PROVE  SettledOwners' = owners' /\ SettledOwnerToken' = ownerToken'
BY DEF SettledOwners, SettledOwnerToken

\* and without a call there is nothing to add.
LEMMA Unguarded ==
    ASSUME CallsInv, call = Idle
    PROVE  /\ SettledOwners = owners /\ SettledOwnerToken = ownerToken
           /\ call.todo = {} /\ call.ownerTokenNext = 0
<1>1. call.todo = {} /\ call.ownerTokenNext = 0
  BY DEF Idle
<1> QED
  BY <1>1, SettledNothing DEF CallsInv, Framed

-----------------------------------------------------------------------------
(* The start of a call.                                                    *)

\* mintBatch starts: it is the whole mint, its tokens counted as minted.
LEMMA MintStart ==
    ASSUME CallsInv, NEW caller \in Accounts, NEW d \in Denoms,
           NEW q \in 1 .. MaxMinted, NEW to \in Accounts,
           MintBatchTo(caller, d, q, to)
    PROVE  Framed' /\ Atomic!Next
<1>1. PICK ids : ids = NextIds(q)
  OBVIOUS
<1>2. call = Idle /\ call' = Minting("mint", to, ids)
      /\ owners' = owners /\ approvals' = approvals
      /\ operatorApprovals' = operatorApprovals /\ ownerToken' = ownerToken
  BY <1>1 DEF MintBatchTo, MayEnter, erc721Vars
<1>3. /\ SettledOwners = owners /\ SettledOwnerToken = ownerToken
      /\ totalMinted + q <= MaxMinted
  BY <1>2, Unguarded DEF MintBatchTo
<1>4. /\ call'.todo = ids /\ call'.to = to /\ call'.ownerTokenNext = 0
      /\ call'.kind = "mint" /\ call'.survivor = 0 /\ call'.hook = FALSE
      /\ call' = [kind |-> "mint", to |-> to, todo |-> ids, ownerTokenNext |-> 0,
                  survivor |-> 0, hook |-> FALSE]
  BY <1>2 DEF Minting, Idle
<1>5. /\ ids \subseteq Ids
      /\ \A i \in ids : owners[i] = NoOne
  <2>1. totalMinted \in Nat /\ q \in Nat /\ MaxMinted \in Nat
    BY SettledFacts, CallConstants
  <2>2. \A i \in ids : i \in Ids /\ i >= totalMinted
    BY <1>1, <1>3, <2>1 DEF NextIds, Ids
  <2> QED
    BY <1>3, <2>2, SettledFacts
<1>6. Framed'
  <2>1. call' \in Frames
    BY <1>4, <1>5, CallConstants DEF Frames, Kinds
  <2>2. \A i \in call'.todo : owners'[i] = NoOne
    BY <1>2, <1>4, <1>5
  <2> QED
    BY <1>2, <1>4, <2>1, <2>2 DEF CallsInv, Framed
<1>7. Atomic!MintBatch(d, q, to)
  <2>1. Atomic!NextIds(q) = ids
    BY <1>1, SameData
  <2>2. Atomic!Mintable(ids, to)
    BY <1>3, <1>5, CallConstants DEF Atomic!Mintable
  <2>3. Atomic!UpdateOwners({}, ids, to)
    <3>1. SettledOwners' = [i \in Ids |-> IF i \in ids THEN to ELSE owners[i]]
      BY <1>2, <1>4 DEF SettledOwners
    <3>2. approvals' = [i \in Ids |-> approvals[i]]
      BY <1>2, SettledFacts
    <3> QED
      BY <1>2, <1>3, <3>1, <3>2, SameData DEF Atomic!UpdateOwners
  <2>4. SettledOwnerToken' = SettledOwnerToken
    BY <1>2, <1>3, <1>4 DEF SettledOwnerToken
  <2>5. PICK backing : backing = SumOver([i \in Ids |-> Units[d]], ids)
    OBVIOUS
  <2>6. Atomic!SumOver([i \in Atomic!Ids |-> Units[d]], ids) = backing
    BY <2>5, SameSums, SameData
  <2>7. /\ redeemableBacking' = redeemableBacking + backing
        /\ ethBalance' = ethBalance + backing + mintFee * q
        /\ shapes' = [i \in Atomic!Ids |-> IF i \in ids THEN Atomic!MintedShape(i, d)
                                           ELSE shapes[i]]
    BY <1>1, <2>5, SameData DEF MintBatchTo
  <2>8. Atomic!AccrueFees(mintFee * q)
    BY DEF MintBatchTo, Atomic!AccrueFees, AccrueFees
  <2>9. /\ mintOpen /\ totalMinted + q <= MaxMinted
        /\ totalMinted' = totalMinted + q /\ totalSupply' = totalSupply + q
        /\ directMints' = directMints + q
        /\ UNCHANGED <<composeStack, splitRecords, splitOriginRef,
                       burnedBacking, blackShapeCount, forcedEth,
                       Atomic!configVars, originsRedeemed>>
    BY DEF MintBatchTo, configVars, Atomic!configVars
  <2> QED
    BY <2>1, <2>2, <2>3, <2>4, <2>6, <2>7, <2>8, <2>9 DEF Atomic!MintBatch
<1>8. Atomic!Next
  BY <1>7, SameData DEF Atomic!Next, Atomic!OpenStep
<1> QED
  BY <1>6, <1>8

\* split starts: it is the whole split, the parent burned and the children
\* counted as minted.
LEMMA SplitStart ==
    ASSUME CallsInv, NEW caller \in Accounts, NEW i \in Ids,
           NEW out \in OutputLists, NEW to \in Accounts,
           SplitTo(caller, i, out, to)
    PROVE  Framed' /\ Atomic!Next
<1>1. PICK children, q : children = NextIds(Len(out)) /\ q = Len(out)
  OBVIOUS
<1>2. /\ call = Idle /\ call' = Minting("split", to, children)
      /\ totalMinted + q <= MaxMinted /\ 2 <= q
      /\ owners' = [c \in Ids |-> IF c \in {} THEN NoOne
                                  ELSE IF c \in {i} THEN NoOne ELSE owners[c]]
      /\ approvals' = [c \in Ids |-> IF c \in {i} THEN NoOne ELSE approvals[c]]
      /\ operatorApprovals' = operatorApprovals
      /\ ownerToken' = OwnerTokenAfterSplit(i)
      /\ owners[i] = caller
  BY <1>1 DEF SplitTo, MayEnter, UpdateOwners, CallerOwnsLive
<1>3. SettledOwners = owners /\ SettledOwnerToken = ownerToken
  BY <1>2, Unguarded
<1>4. /\ call'.todo = children /\ call'.to = to /\ call'.ownerTokenNext = 0
      /\ call' = [kind |-> "split", to |-> to, todo |-> children,
                  ownerTokenNext |-> 0, survivor |-> 0, hook |-> FALSE]
  BY <1>2 DEF Minting, Idle
<1>5. q \in Nat /\ q = Len(out) /\ totalMinted \in Nat /\ MaxMinted \in Nat
  <2>1. totalMinted \in Nat /\ MaxMinted \in Nat
    BY SettledFacts, CallConstants
  <2>2. PICK k \in 1 .. MaxMinted - totalMinted : out \in [1 .. k -> Denoms]
    BY DEF OutputLists
  <2> QED
    BY <1>1, <2>1, <2>2
<1>6. /\ children \subseteq Ids
      /\ \A c \in children : owners[c] = NoOne /\ c >= totalMinted
      /\ totalMinted + 1 \in 0 .. MaxMinted
  <2>1. \A c \in children : c \in Ids /\ c >= totalMinted
    BY <1>1, <1>2, <1>5 DEF NextIds, Ids
  <2>2. totalMinted + 1 \in 0 .. MaxMinted
    BY <1>2, <1>5
  <2> QED
    BY <1>3, <2>1, <2>2, SettledFacts
<1>7. Framed'
  <2>1. call' \in Frames
    BY <1>4, <1>6, CallConstants DEF Frames, Kinds
  <2>2. \A c \in call'.todo : owners'[c] = NoOne
    BY <1>2, <1>4, <1>6
  <2>3. owners' \in [Ids -> Accounts \cup {NoOne}]
    BY <1>2 DEF CallsInv, Framed
  <2>4. ownerToken' \in 0 .. MaxMinted
    BY <1>2, <1>6 DEF CallsInv, Framed, OwnerTokenAfterSplit
  <2>5. call'.kind = "split"
    BY <1>4
  <2> QED
    BY <1>4, <2>1, <2>2, <2>3, <2>4, <2>5 DEF Framed
<1>8. Atomic!Split(caller, i, out, to)
  <2>1. Atomic!NextIds(Len(out)) = children
    BY <1>1, SameData
  <2>2. Atomic!Mintable(children, to)
    BY <1>3, <1>6, CallConstants DEF Atomic!Mintable
  <2>3. Atomic!UpdateOwners({i}, children, to)
    <3>1. SettledOwners' = [c \in Ids |-> IF c \in children THEN to
                                          ELSE IF c \in {i} THEN NoOne
                                          ELSE owners[c]]
      BY <1>2, <1>4 DEF SettledOwners
    <3> QED
      BY <1>2, <1>3, <3>1, SameData DEF Atomic!UpdateOwners
  <2>4. SettledOwnerToken' = Atomic!OwnerTokenAfterSplit(i)
    BY <1>2, <1>3, <1>4 DEF SettledOwnerToken, OwnerTokenAfterSplit,
                            Atomic!OwnerTokenAfterSplit
  <2>5. Atomic!CallerOwnsLive(caller, i)
    BY <1>3 DEF SplitTo, CallerOwnsLive, Atomic!CallerOwnsLive
  <2>6. Atomic!SplitSumMatches(i, out) /\ Atomic!SplitExhausts(i, out)
    BY SameShapes DEF SplitTo
  <2>7. shapes' = [c \in Atomic!Ids |->
                      IF c \in children THEN Atomic!ChildShape(i, out, c)
                      ELSE IF c = i THEN Atomic!Blank ELSE shapes[c]]
    <3>1. shapes' = [c \in Ids |-> IF c \in children THEN ChildShape(i, out, c)
                                   ELSE IF c = i THEN Blank ELSE shapes[c]]
      BY <1>1 DEF SplitTo
    <3>2. Atomic!Ids = Ids /\ Atomic!Blank = Blank
      BY SameData
    <3>3. \A c : Atomic!ChildShape(i, out, c) = ChildShape(i, out, c)
      BY SameShapes
    <3> QED
      BY <3>1, <3>2, <3>3
  <2>8. splitRecords' = Append(splitRecords, Atomic!SplitRecordOf(i))
    BY SameShapes DEF SplitTo
  <2>9. splitOriginRef' = [c \in Atomic!Ids |->
            IF c \in children THEN Atomic!ChildRef(c) ELSE splitOriginRef[c]]
    <3>1. splitOriginRef' = [c \in Ids |-> IF c \in children THEN ChildRef(c)
                                           ELSE splitOriginRef[c]]
      BY <1>1 DEF SplitTo
    <3>2. Atomic!Ids = Ids /\ \A c : Atomic!ChildRef(c) = ChildRef(c)
      BY SameData, SameShapes
    <3> QED
      BY <3>1, <3>2
  <2>10. /\ Len(out) >= 2 /\ totalMinted + Len(out) <= MaxMinted
         /\ totalMinted' = totalMinted + Len(out)
         /\ totalSupply' = totalSupply + Len(out) - 1
         /\ UNCHANGED <<composeStack, Atomic!reserveVars, Atomic!feeVars,
                        Atomic!configVars, Atomic!historyVars>>
    BY DEF SplitTo, reserveVars, feeVars, configVars, historyVars,
           Atomic!reserveVars, Atomic!feeVars, Atomic!configVars,
           Atomic!historyVars
  <2> QED
    BY <2>1, <2>2, <2>3, <2>4, <2>5, <2>6, <2>7, <2>8, <2>9, <2>10
       DEF Atomic!Split
<1>9. Atomic!Next
  BY <1>8, SameData DEF Atomic!Next, Atomic!HolderStep
<1> QED
  BY <1>7, <1>9

\* decompose starts: it is the whole decompose, the inputs counted as revived
\* and the owner token as moved.
LEMMA DecomposeStart ==
    ASSUME CallsInv, NEW caller \in Accounts, NEW s \in Ids,
           NEW to \in Accounts, DecomposeTo(caller, s, to)
    PROVE  Framed' /\ Atomic!Next
<1>1. PICK rec : rec = Last(composeStack[s])
  OBVIOUS
<1>2. /\ call = Idle
      /\ call' = [Minting("decompose", to, rec.burned)
                     EXCEPT !.ownerTokenNext = rec.ownerTokenFrom,
                            !.survivor = s]
      /\ composeStack[s] # <<>>
      /\ owners' = owners /\ approvals' = approvals
      /\ operatorApprovals' = operatorApprovals /\ ownerToken' = ownerToken
  BY <1>1 DEF DecomposeTo, MayEnter, erc721Vars, OwnerTokenInDecompose
<1>3. SettledOwners = owners /\ SettledOwnerToken = ownerToken
  BY <1>2, Unguarded
<1>4. /\ rec.burned \in SUBSET Ids
      /\ rec.ownerTokenFrom \in 0 .. MaxMinted
      /\ \A b \in rec.burned : owners[b] = NoOne
  BY <1>1, <1>2, <1>3, TopRecord
<1>5. /\ call'.todo = rec.burned /\ call'.to = to
      /\ call'.ownerTokenNext = rec.ownerTokenFrom
      /\ call'.kind = "decompose"
      /\ call' = [kind |-> "decompose", to |-> to, todo |-> rec.burned,
                  ownerTokenNext |-> rec.ownerTokenFrom, survivor |-> s,
                  hook |-> FALSE]
  BY <1>2 DEF Minting, Idle
<1>6. Framed'
  <2>1. call' \in Frames
    BY <1>4, <1>5 DEF Frames, Kinds
  <2>2. \A c \in call'.todo : owners'[c] = NoOne
    BY <1>2, <1>4, <1>5
  <2> QED
    BY <1>2, <1>5, <2>1, <2>2 DEF CallsInv, Framed
<1>7. Atomic!Decompose(caller, s, to)
  <2>1. Atomic!Last(composeStack[s]) = rec
    BY <1>1, SameData
  <2>2. Atomic!Mintable(rec.burned, to)
    BY <1>3, <1>4, CallConstants DEF Atomic!Mintable
  <2>3. Atomic!UpdateOwners({}, rec.burned, to)
    <3>1. SettledOwners' = [c \in Ids |-> IF c \in rec.burned THEN to
                                          ELSE owners[c]]
      BY <1>2, <1>5 DEF SettledOwners
    <3>2. approvals' = [i \in Ids |-> approvals[i]]
      BY <1>2, SettledFacts
    <3> QED
      BY <1>2, <1>3, <3>1, <3>2, SameData DEF Atomic!UpdateOwners
  <2>4. SettledOwnerToken' = Atomic!OwnerTokenAfterDecompose(rec)
    BY <1>2, <1>3, <1>5 DEF SettledOwnerToken, Atomic!OwnerTokenAfterDecompose
  <2>5. Atomic!CallerOwnsLive(caller, s)
    BY <1>3 DEF DecomposeTo, CallerOwnsLive, Atomic!CallerOwnsLive
  <2>6. /\ shapes' = Atomic!Uncomposed(s, rec)
        /\ composeStack' = [composeStack EXCEPT ![s] = Atomic!Front(@)]
        /\ totalSupply' = totalSupply + Atomic!Cardinality(rec.burned)
    BY <1>1, SameData, SameSums DEF DecomposeTo
  <2>7. UNCHANGED <<splitRecords, splitOriginRef, totalMinted,
                    Atomic!reserveVars, Atomic!feeVars, Atomic!configVars,
                    Atomic!historyVars>>
    BY DEF DecomposeTo, reserveVars, feeVars, configVars, historyVars,
           Atomic!reserveVars, Atomic!feeVars, Atomic!configVars,
           Atomic!historyVars
  <2> QED
    BY <1>2, <2>1, <2>2, <2>3, <2>4, <2>5, <2>6, <2>7 DEF Atomic!Decompose
<1>8. Atomic!Next
  BY <1>7, SameData DEF Atomic!Next, Atomic!HolderStep
<1> QED
  BY <1>6, <1>8

\* A step after which nothing is owed leaves a well-formed frame.
LEMMA NothingOwed ==
    ASSUME CallsInv, call'.todo = {}, call'.ownerTokenNext = 0,
           call' \in Frames, owners' \in [Ids -> Accounts \cup {NoOne}],
           ownerToken' \in 0 .. MaxMinted
    PROVE  /\ Framed'
           /\ SettledOwners' = owners' /\ SettledOwnerToken' = ownerToken'
BY SettledNothingNext DEF Framed

\* compose is the step of Shapes.
LEMMA ComposeStart ==
    ASSUME CallsInv, NEW caller \in Accounts, NEW s \in Ids,
           NEW burnIds \in SUBSET Live, ComposeCall(caller, s, burnIds)
    PROVE  Framed' /\ Atomic!Next
<1>1. /\ call = Idle /\ call' = call /\ Compose(caller, s, burnIds)
  BY DEF ComposeCall, MayEnter
<1>2. /\ SettledOwners = owners /\ SettledOwnerToken = ownerToken
      /\ call'.todo = {} /\ call'.ownerTokenNext = 0 /\ call' \in Frames
  BY <1>1, Unguarded DEF CallsInv, Framed
<1>3. /\ owners' = [i \in Ids |-> IF i \in {} THEN NoOne
                                  ELSE IF i \in burnIds THEN NoOne
                                  ELSE owners[i]]
      /\ approvals' = [i \in Ids |-> IF i \in burnIds THEN NoOne
                                     ELSE approvals[i]]
      /\ operatorApprovals' = operatorApprovals
      /\ ownerToken' = OwnerTokenAfterCompose(s, burnIds)
  BY <1>1 DEF Compose, UpdateOwners
<1>4. s + 1 \in 0 .. MaxMinted
  BY CallConstants
<1>5. /\ owners' \in [Ids -> Accounts \cup {NoOne}]
      /\ ownerToken' \in 0 .. MaxMinted
  BY <1>3, <1>4 DEF CallsInv, Framed, OwnerTokenAfterCompose
<1>6. /\ Framed'
      /\ SettledOwners' = owners' /\ SettledOwnerToken' = ownerToken'
  BY <1>2, <1>5, NothingOwed
<1>7. Atomic!Compose(caller, s, burnIds)
  <2>1. Atomic!MayCompose(caller, s, burnIds)
    BY <1>1, <1>2 DEF Compose, MayCompose, CallerOwnsLive, Atomic!MayCompose,
                      Atomic!CallerOwnsLive
  <2>2. PICK d \in Denoms :
            /\ Units[d] = SumOver(FaceUnits, burnIds \cup {s})
            /\ shapes' = [i \in Ids |-> IF i = s THEN Composed(s, burnIds, d)
                                        ELSE IF i \in burnIds THEN Blank
                                        ELSE shapes[i]]
    BY <1>1 DEF Compose
  <2>3. /\ d \in Atomic!Denoms
        /\ Units[d] = Atomic!SumOver(Atomic!FaceUnits, burnIds \cup {s})
        /\ shapes' = [i \in Atomic!Ids |->
                         IF i = s THEN Atomic!Composed(s, burnIds, d)
                         ELSE IF i \in burnIds THEN Atomic!Blank
                         ELSE shapes[i]]
    BY <2>2, SameSums, SameData, SameShapes
  <2>4. composeStack' = [composeStack EXCEPT
                            ![s] = Append(@, Atomic!RecordOf(s, burnIds))]
    <3>1. Atomic!RecordOf(s, burnIds) = RecordOf(s, burnIds)
      BY <1>2 DEF Atomic!RecordOf, RecordOf, Atomic!OwnerTokenFrom,
                  OwnerTokenFrom, Atomic!SnapshotOf, SnapshotOf,
                  Atomic!BlankInput, BlankInput, Atomic!Ids, Ids
    <3> QED
      BY <1>1, <3>1 DEF Compose
  <2>5. /\ Atomic!Cardinality(burnIds) <= totalSupply
        /\ totalSupply' = totalSupply - Atomic!Cardinality(burnIds)
    BY <1>1, SameSums DEF Compose
  <2>6. SettledOwnerToken' = Atomic!OwnerTokenAfterCompose(s, burnIds)
    BY <1>2, <1>3, <1>6 DEF OwnerTokenAfterCompose,
                            Atomic!OwnerTokenAfterCompose
  <2>7. Atomic!UpdateOwners(burnIds, {}, NoOne)
    BY <1>2, <1>3, <1>6, SameData DEF Atomic!UpdateOwners
  <2>8. UNCHANGED <<splitRecords, splitOriginRef, totalMinted,
                    Atomic!reserveVars, Atomic!feeVars, Atomic!configVars,
                    Atomic!historyVars>>
    BY <1>1 DEF Compose, reserveVars, feeVars, configVars, historyVars,
                Atomic!reserveVars, Atomic!feeVars, Atomic!configVars,
                Atomic!historyVars
  <2> QED
    BY <2>1, <2>3, <2>4, <2>5, <2>6, <2>7, <2>8 DEF Atomic!Compose
<1>8. Atomic!Live = Live
  BY <1>2 DEF Atomic!Live, Live, Atomic!Ids, Ids
<1>9. Atomic!Next
  BY <1>7, <1>8, SameData DEF Atomic!Next, Atomic!HolderStep
<1> QED
  BY <1>6, <1>9

\* A redemption is the step of Shapes, its payment's callback to come: burn when
\* Black Shapes are allowed, which takes one token, and redeemBatch otherwise.
LEMMA RedeemStart ==
    ASSUME CallsInv, NEW caller \in Accounts, NEW S \in SUBSET Live,
           NEW allowBlack \in BOOLEAN, NEW to \in Accounts,
           RedeemCall(caller, S, allowBlack, to)
    PROVE  Framed' /\ Atomic!Next
<1>1. /\ call = Idle /\ RedeemSet(caller, S, allowBlack)
      /\ S # {} /\ (allowBlack => Cardinality(S) = 1)
      /\ call' \in {call, [Idle EXCEPT !.kind = "redeem", !.to = to, !.hook = TRUE]}
  BY DEF RedeemCall, MayEnter
<1>2. S \subseteq Ids
  BY DEF Live
<1>3. SettledOwners = owners /\ SettledOwnerToken = ownerToken
  BY <1>1, Unguarded
<1>4. call'.todo = {} /\ call'.ownerTokenNext = 0 /\ call' \in Frames
  <2>1. CASE call' = call
    BY <1>1, <2>1, Unguarded DEF CallsInv, Framed
  <2>2. CASE call' = [Idle EXCEPT !.kind = "redeem", !.to = to, !.hook = TRUE]
    <3>1. call' = [kind |-> "redeem", to |-> to, todo |-> {},
                   ownerTokenNext |-> 0, survivor |-> 0, hook |-> TRUE]
      BY <2>2 DEF Idle
    <3> QED
      BY <3>1, CallConstants DEF Frames, Kinds
  <2> QED
    BY <1>1, <2>1, <2>2
<1>5. /\ owners' = [i \in Ids |-> IF i \in {} THEN NoOne
                                  ELSE IF i \in S THEN NoOne ELSE owners[i]]
      /\ approvals' = [i \in Ids |-> IF i \in S THEN NoOne ELSE approvals[i]]
      /\ operatorApprovals' = operatorApprovals
      /\ ownerToken' = OwnerTokenAfterRedeeming(S)
  BY <1>1 DEF RedeemSet, UpdateOwners
<1>6. /\ owners' \in [Ids -> Accounts \cup {NoOne}]
      /\ ownerToken' \in 0 .. MaxMinted
  BY <1>5, CallConstants DEF CallsInv, Framed, OwnerTokenAfterRedeeming
<1>7. /\ Framed'
      /\ SettledOwners' = owners' /\ SettledOwnerToken' = ownerToken'
  BY <1>4, <1>6, NothingOwed
<1>8. Atomic!RedeemSet(caller, S, allowBlack)
  <2>1. \A i \in S : Atomic!MayRedeem(caller, i, allowBlack)
    BY <1>1, <1>3 DEF RedeemSet, MayRedeem, Atomic!MayRedeem
  <2>2. PICK amount, blacks : /\ amount = SumOver(Backings, S)
                              /\ blacks = Cardinality({i \in S : shapes[i].black})
    OBVIOUS
  <2>3. /\ Atomic!SumOver(Atomic!Backings, S) = amount
        /\ Atomic!Cardinality({i \in S : shapes[i].black}) = blacks
        /\ Atomic!Cardinality(S) = Cardinality(S)
        /\ Atomic!SumOver(Atomic!OriginCounts, S) = SumOver(OriginCounts, S)
    BY <2>2, SameSums, SameData
  <2>4. /\ blacks <= blackShapeCount /\ Cardinality(S) <= totalSupply
        /\ amount <= redeemableBacking /\ amount <= ethBalance
        /\ blackShapeCount' = blackShapeCount - blacks
        /\ totalSupply' = totalSupply - Cardinality(S)
        /\ redeemableBacking' = redeemableBacking - amount
        /\ ethBalance' = ethBalance - amount
        /\ originsRedeemed' = originsRedeemed + SumOver(OriginCounts, S)
    BY <1>1, <2>2 DEF RedeemSet
  <2>5. SettledOwnerToken' = Atomic!OwnerTokenAfterRedeeming(S)
    BY <1>3, <1>5, <1>7 DEF OwnerTokenAfterRedeeming,
                            Atomic!OwnerTokenAfterRedeeming
  <2>6. shapes' = [i \in Atomic!Ids |-> IF i \in S THEN Atomic!Blank
                                        ELSE shapes[i]]
    BY <1>1, SameData DEF RedeemSet
  <2>7. Atomic!UpdateOwners(S, {}, NoOne)
    BY <1>3, <1>5, <1>7, SameData DEF Atomic!UpdateOwners
  <2>8. UNCHANGED <<composeStack, splitRecords, splitOriginRef, totalMinted,
                    burnedBacking, forcedEth, Atomic!feeVars,
                    Atomic!configVars, directMints>>
    BY <1>1 DEF RedeemSet, feeVars, configVars, Atomic!feeVars,
                Atomic!configVars
  <2> QED
    BY <2>1, <2>3, <2>4, <2>5, <2>6, <2>7, <2>8 DEF Atomic!RedeemSet
<1>9. Atomic!Live = Live
  BY <1>3 DEF Atomic!Live, Live, Atomic!Ids, Ids
<1>10. Atomic!HolderStep(caller)
  <2>1. CASE allowBlack
    <3>1. PICK i : S = {i}
      <4>1. IsFiniteSet(S)
        <5>1. Ids = 0 .. MaxMinted - 1 /\ 0 \in Int /\ MaxMinted - 1 \in Int
          BY CallConstants DEF Ids
        <5>2. IsFiniteSet(Ids)
          BY <5>1, FS_Interval
        <5> QED
          BY <1>2, <5>2, FS_Subset
      <4>2. PICK i : i \in S
        BY <1>1
      <4>3. IsFiniteSet(S \ {i}) /\ Cardinality(S \ {i}) = 0
        BY <1>1, <2>1, <4>1, <4>2, FS_RemoveElement
      <4>4. S \ {i} = {}
        BY <4>3, FS_EmptySet
      <4> QED
        BY <4>2, <4>4
    <3>2. Atomic!Burn(caller, i) /\ i \in Atomic!Ids
      BY <1>2, <1>8, <2>1, <3>1, SameData DEF Atomic!Burn
    <3> QED
      BY <3>2 DEF Atomic!HolderStep
  <2>2. CASE ~allowBlack
    <3>1. Atomic!RedeemBatch(caller, S)
      BY <1>1, <1>8, <2>2 DEF Atomic!RedeemBatch
    <3> QED
      BY <1>9, <3>1 DEF Atomic!HolderStep
  <2> QED
    BY <2>1, <2>2
<1> QED
  BY <1>7, <1>10 DEF Atomic!Next

\* burnBacking is the step of Shapes.
LEMMA BurnBackingStart ==
    ASSUME CallsInv, NEW caller \in Accounts, NEW i \in Ids,
           BurnBackingCall(caller, i)
    PROVE  Framed' /\ Atomic!Next
<1>1. /\ call = Idle /\ call' = call /\ BurnBacking(caller, i)
      /\ owners' = owners /\ ownerToken' = ownerToken
  BY DEF BurnBackingCall, MayEnter, BurnBacking, erc721Vars
<1>2. /\ SettledOwners = owners /\ SettledOwnerToken = ownerToken
      /\ call'.todo = {} /\ call'.ownerTokenNext = 0 /\ call' \in Frames
  BY <1>1, Unguarded DEF CallsInv, Framed
<1>3. /\ Framed'
      /\ SettledOwners' = owners' /\ SettledOwnerToken' = ownerToken'
  BY <1>1, <1>2, NothingOwed DEF CallsInv, Framed
<1>4. Atomic!BurnBacking(caller, i)
  BY <1>1, <1>2, <1>3
     DEF BurnBacking, CallerOwnsLive, erc721Vars, feeVars, configVars,
         historyVars, Atomic!BurnBacking, Atomic!CallerOwnsLive,
         Atomic!erc721Vars, Atomic!feeVars, Atomic!configVars,
         Atomic!historyVars
<1> QED
  BY <1>3, <1>4, SameData DEF Atomic!Next, Atomic!HolderStep

-----------------------------------------------------------------------------
(* What a callback may do, and the loop of _safeMint.                      *)

\* A transfer, even one made inside a callback, is a transfer of Shapes: the
\* token has an owner, so it is none of those the call has yet to mint.
LEMMA TransferIsNext ==
    ASSUME CallsInv, NEW caller \in Accounts, NEW i \in Live,
           NEW to \in Accounts, TransferCall(caller, i, to)
    PROVE  Framed' /\ Atomic!Next
<1>1. /\ TransferFrom(caller, i, to) /\ call' = call
      /\ owners' = [owners EXCEPT ![i] = to] /\ ownerToken' = ownerToken
      /\ i \in Ids /\ owners[i] # NoOne
  BY DEF TransferCall, TransferFrom, Live
<1>2. i \notin call.todo
  BY <1>1 DEF CallsInv, Framed
<1>3. Framed'
  BY <1>1, <1>2 DEF CallsInv, Framed
<1>4. /\ SettledOwners[i] = owners[i]
      /\ SettledOwners' = [SettledOwners EXCEPT ![i] = to]
      /\ SettledOwnerToken' = SettledOwnerToken
  BY <1>1, <1>2 DEF CallsInv, Framed, SettledOwners, SettledOwnerToken
<1>5. Atomic!TransferFrom(caller, i, to)
  <2>1. Atomic!IsLive(i) /\ Atomic!Authorised(caller, i)
    BY <1>1, <1>4 DEF TransferFrom, Authorised, Atomic!IsLive, Atomic!Authorised
  <2>2. /\ approvals' = [approvals EXCEPT ![i] = NoOne]
        /\ UNCHANGED <<operatorApprovals, Atomic!storeVars, Atomic!reserveVars,
                       Atomic!feeVars, Atomic!configVars, Atomic!historyVars>>
    BY <1>1 DEF TransferFrom, storeVars, reserveVars, feeVars, configVars,
                historyVars, Atomic!storeVars, Atomic!reserveVars,
                Atomic!feeVars, Atomic!configVars, Atomic!historyVars
  <2> QED
    BY <1>4, <2>1, <2>2 DEF Atomic!TransferFrom
<1>6. Atomic!TokenStep(caller)
  BY <1>1, <1>5, SameData DEF Atomic!TokenStep
<1> QED
  BY <1>3, <1>6 DEF Atomic!Next

\* A step that leaves what the calls amount to alone is a stutter of Shapes.
LEMMA StutterByParts ==
    ASSUME SettledOwners' = SettledOwners,
           SettledOwnerToken' = SettledOwnerToken,
           UNCHANGED <<approvals, operatorApprovals, storeVars, reserveVars,
                       feeVars, configVars, historyVars>>
    PROVE  UNCHANGED Atomic!vars
BY DEF Atomic!vars, Atomic!erc721Vars, Atomic!storeVars, Atomic!reserveVars,
       Atomic!feeVars, Atomic!configVars, Atomic!historyVars, storeVars,
       reserveVars, feeVars, configVars, historyVars

\* A turn of the loop of _safeMint hands out a token that was counted as handed
\* out already.
LEMMA SafeMintStutters ==
    ASSUME CallsInv, SafeMint
    PROVE  Framed' /\ UNCHANGED Atomic!vars
<1>1. PICK i \in NextToMint :
          /\ Mintable({i}, call.to)
          /\ UpdateOwners({}, {i}, call.to)
          /\ call' = [call EXCEPT !.todo = @ \ {i},
                                  !.hook = call.to \in Contracts]
  BY DEF SafeMint
<1>2. i \in call.todo
  BY DEF NextToMint
<1>3. call \in Frames /\ call.todo \subseteq Ids /\ call.to \in Accounts
  BY <1>2 DEF CallsInv, Framed, Frames
<1>4. /\ call' \in Frames
      /\ call'.todo = call.todo \ {i} /\ call'.to = call.to
      /\ call'.kind = call.kind /\ call'.ownerTokenNext = call.ownerTokenNext
  <2>1. PICK h : h = (call.to \in Contracts)
    OBVIOUS
  <2>2. h \in BOOLEAN
    BY <2>1
  <2>3. call' = [call EXCEPT !.todo = @ \ {i}, !.hook = h]
    BY <1>1, <2>1
  <2> QED
    BY <1>3, <2>2, <2>3 DEF Frames
<1>5. /\ owners' = [j \in Ids |-> IF j \in {i} THEN call.to
                                  ELSE IF j \in {} THEN NoOne ELSE owners[j]]
      /\ approvals' = approvals /\ operatorApprovals' = operatorApprovals
      /\ ownerToken' = ownerToken
  BY <1>1, SettledFacts DEF UpdateOwners, SafeMint
<1>6. Framed'
  <2>1. owners' \in [Ids -> Accounts \cup {NoOne}]
    BY <1>3, <1>5 DEF CallsInv, Framed
  <2>2. \A j \in call'.todo : owners'[j] = NoOne
    BY <1>3, <1>4, <1>5 DEF CallsInv, Framed
  <2>3. call'.kind \notin {"idle", "redeem"}
    BY <1>2, <1>4 DEF CallsInv, Framed
  <2> QED
    BY <1>3, <1>4, <1>5, <2>1, <2>2, <2>3 DEF CallsInv, Framed
<1>7. SettledOwners' = SettledOwners
  <2>1. \A j \in Ids : (IF j \in call'.todo THEN call'.to ELSE owners'[j])
                       = (IF j \in call.todo THEN call.to ELSE owners[j])
    BY <1>2, <1>4, <1>5
  <2> QED
    BY <2>1 DEF SettledOwners
<1>8. SettledOwnerToken' = SettledOwnerToken
  BY <1>4, <1>5 DEF SettledOwnerToken
<1> QED
  BY <1>5, <1>6, <1>7, <1>8, StutterByParts DEF SafeMint

\* The end of a call moves the owner token where it was counted already.
LEMMA ReturnStutters ==
    ASSUME CallsInv, CallReturns
    PROVE  Framed' /\ UNCHANGED Atomic!vars
<1>1. /\ call' = Idle /\ call.todo = {}
      /\ owners' = owners
      /\ ownerToken' = SettledOwnerToken
      /\ UNCHANGED <<approvals, operatorApprovals, storeVars, reserveVars,
                     feeVars, configVars, historyVars>>
  BY DEF CallReturns, SettledOwnerToken, erc721Vars
<1>2. call'.todo = {} /\ call'.ownerTokenNext = 0 /\ call' \in Frames
  BY <1>1, CallConstants DEF Idle, Frames, Kinds
<1>3. /\ owners' \in [Ids -> Accounts \cup {NoOne}]
      /\ ownerToken' \in 0 .. MaxMinted
  BY <1>1 DEF CallsInv, Framed, Frames, SettledOwnerToken
<1>4. /\ Framed'
      /\ SettledOwners' = owners' /\ SettledOwnerToken' = ownerToken'
  BY <1>2, <1>3, NothingOwed
<1>5. SettledOwners = owners
  BY <1>1 DEF CallsInv, Framed, SettledOwners
<1> QED
  BY <1>1, <1>4, <1>5, StutterByParts

\* What changes neither storage nor what is owed is a stutter.
LEMMA FrameStutters ==
    ASSUME CallsInv, UNCHANGED vars, call'.todo = call.todo,
           call'.to = call.to, call'.ownerTokenNext = call.ownerTokenNext,
           call'.kind = call.kind, call' \in Frames
    PROVE  Framed' /\ UNCHANGED Atomic!vars
<1>1. /\ owners' = owners /\ ownerToken' = ownerToken
      /\ UNCHANGED <<approvals, operatorApprovals, storeVars, reserveVars,
                     feeVars, configVars, historyVars>>
  BY DEF vars, erc721Vars
<1>2. /\ SettledOwners' = SettledOwners
      /\ SettledOwnerToken' = SettledOwnerToken
  BY <1>1 DEF SettledOwners, SettledOwnerToken
<1>3. Framed'
  BY <1>1 DEF CallsInv, Framed
<1> QED
  BY <1>1, <1>2, <1>3, StutterByParts

\* Every step of the calls keeps the invariant, and is a step of Shapes or a
\* stutter.
LEMMA CallStepIsStep ==
    ASSUME CallsInv, [CallStep]_<<vars, callVars>>
    PROVE  CallsInv' /\ [Atomic!Next]_(Atomic!vars)
<1>1. Framed' /\ [Atomic!Next]_(Atomic!vars)
  <2>1. CASE OpenTx \/ CommitTx \/ UNCHANGED <<vars, callVars>>
    <3>1. UNCHANGED vars /\ call' = call
      BY <2>1 DEF OpenTx, BeginTx, CommitTx, callVars
    <3> QED
      BY <3>1, FrameStutters DEF CallsInv, Framed
  <2>2. ASSUME NEW caller \in Accounts, MintCall(caller)
        PROVE  Framed' /\ Atomic!Next
    BY <2>2, MintStart DEF MintCall
  <2>3. ASSUME NEW caller \in Accounts, OwnersCall(caller)
        PROVE  Framed' /\ Atomic!Next
    <3>1. ASSUME NEW i \in Live, NEW out \in OutputLists,
                 NEW to \in Accounts \ {House}, SplitTo(caller, i, out, to)
          PROVE  Framed' /\ Atomic!Next
      BY <3>1, SplitStart DEF Live
    <3>2. ASSUME NEW s \in Live, NEW to \in Accounts \ {House},
                 DecomposeTo(caller, s, to)
          PROVE  Framed' /\ Atomic!Next
      BY <3>2, DecomposeStart DEF Live
    <3>3. ASSUME NEW s \in Live, NEW burnIds \in SUBSET (Live \ {s}),
                 ComposeCall(caller, s, burnIds)
          PROVE  Framed' /\ Atomic!Next
      BY <3>3, ComposeStart DEF Live
    <3>4. ASSUME NEW S \in SUBSET Live, NEW allowBlack \in BOOLEAN,
                 NEW to \in Accounts \ {House},
                 RedeemCall(caller, S, allowBlack, to)
          PROVE  Framed' /\ Atomic!Next
      BY <3>4, RedeemStart
    <3>5. ASSUME NEW i \in Live, BurnBackingCall(caller, i)
          PROVE  Framed' /\ Atomic!Next
      BY <3>5, BurnBackingStart DEF Live
    <3> QED
      BY <2>3, <3>1, <3>2, <3>3, <3>4, <3>5 DEF OwnersCall
  <2>4. ASSUME NEW caller \in Accounts, NEW i \in Live, NEW to \in Accounts,
               TransferCall(caller, i, to)
        PROVE  Framed' /\ Atomic!Next
    BY <2>4, TransferIsNext
  <2>5. CASE SafeMint
    BY <2>5, SafeMintStutters
  <2>6. CASE CallbackReturns
    <3>1. UNCHANGED vars /\ call' = [call EXCEPT !.hook = FALSE]
      BY <2>6 DEF CallbackReturns
    <3>2. call \in Frames
      BY DEF CallsInv, Framed
    <3>3. /\ call' \in Frames /\ call'.todo = call.todo /\ call'.to = call.to
          /\ call'.ownerTokenNext = call.ownerTokenNext
          /\ call'.kind = call.kind
      BY <3>1, <3>2 DEF Frames
    <3> QED
      BY <3>1, <3>3, FrameStutters
  <2>7. CASE CallReturns
    BY <2>7, ReturnStutters
  <2> QED
    BY <2>1, <2>2, <2>3, <2>4, <2>5, <2>6, <2>7 DEF CallStep
<1>2. Settled!TypeOK' /\ Settled!Inductive'
  BY <1>1, SettledKeeps DEF CallsInv
<1> QED
  BY <1>1, <1>2 DEF CallsInv

-----------------------------------------------------------------------------
(* The start, and the theorems.                                            *)

\* The dealt state has the invariant: its reserve is what the dealt tokens redeem
\* for, and each of them is one origin.
LEMMA CallsInitInv == CallsInit => CallsInv
<1> SUFFICES ASSUME CallsInit PROVE CallsInv
  OBVIOUS
<1>1. PICK n : n = Len(Dealt)
  OBVIOUS
<1>2. /\ n \in 1 .. MaxMinted /\ n \in Nat /\ Dealt \in Seq(Denoms)
      /\ \A i \in 0 .. n - 1 : i \in Ids /\ Dealt[i + 1] \in Denoms
      /\ 0 \in 0 .. n - 1
  BY <1>1, ContractsAssumption, CallConstants DEF Ids
<1>3. /\ owners = [i \in Ids |-> IF i < n THEN Deployer ELSE NoOne]
      /\ ownerToken = 1 /\ call = Idle
  BY <1>1 DEF CallsInit
<1>4. Framed
  <2>1. call \in Frames /\ call.todo = {} /\ call.ownerTokenNext = 0
    BY <1>3, CallConstants DEF Idle, Frames, Kinds
  <2>2. owners \in [Ids -> Accounts \cup {NoOne}] /\ ownerToken \in 0 .. MaxMinted
    BY <1>3, CallConstants
  <2> QED
    BY <2>1, <2>2 DEF Framed
<1>5. SettledOwners = owners /\ SettledOwnerToken = ownerToken
  <2>1. call.todo = {} /\ call.ownerTokenNext = 0
    BY <1>3 DEF Idle
  <2> QED
    BY <1>4, <2>1, SettledNothing DEF Framed
<1>6. /\ \A i \in Ids : Fresh(i) = IF i < n THEN MintedShape(i, Dealt[i + 1])
                                   ELSE Blank
      /\ shapes = [i \in Ids |-> Fresh(i)]
  BY <1>1 DEF Fresh, CallsInit
<1>7. \A i \in Ids : /\ Fresh(i) \in Settled!ShapeData
                     /\ ~Fresh(i).black
                     /\ i < n => Fresh(i).origins = 1
  <2>1. ASSUME NEW i \in Ids, i < n
        PROVE  /\ Fresh(i) \in Settled!ShapeData /\ ~Fresh(i).black
               /\ Fresh(i).origins = 1
    <3>1. i \in Nat /\ Dealt[i + 1] \in Denoms /\ MintArt[i] \in Arts
      BY <1>2, <2>1, CallConstants, ArtAssumption
    <3>2. <<i>> \in Seq(Nat)
      BY <3>1
    <3>3. Fresh(i) = [seed |-> <<i>>, denom |-> Dealt[i + 1], origins |-> 1,
                      black |-> FALSE, art |-> MintArt[i]]
      BY <1>6, <2>1 DEF MintedShape
    <3> QED
      BY <3>1, <3>2, <3>3 DEF Settled!ShapeData, Settled!Seeds,
         Settled!Denoms, Denoms
  <2>2. ASSUME NEW i \in Ids, ~(i < n)
        PROVE  Fresh(i) \in Settled!ShapeData /\ ~Fresh(i).black
    <3>1. Fresh(i) = [seed |-> <<>>, denom |-> 0, origins |-> 0,
                      black |-> FALSE, art |-> BlankArt]
      BY <1>6, <2>2 DEF Blank
    <3>2. <<>> \in Seq(Nat) /\ 0 \in Denoms /\ BlankArt \in Arts
      BY LadderAssumption, ArtAssumption DEF Denoms
    <3> QED
      BY <3>1, <3>2 DEF Settled!ShapeData, Settled!Seeds, Settled!Denoms, Denoms
  <2> QED
    BY <2>1, <2>2
<1>8. Settled!Live = 0 .. n - 1
  <2>1. \A i \in Ids : SettledOwners[i] # NoOne <=> i < n
    BY <1>3, <1>5, CallConstants
  <2>2. Settled!Live = {i \in Ids : SettledOwners[i] # NoOne}
    BY DEF Settled!Live, Settled!Ids, Ids
  <2>3. \A i : i \in Settled!Live <=> i \in 0 .. n - 1
    BY <1>2, <2>1, <2>2, CallConstants
  <2> QED
    BY <2>3
<1>9. IsFiniteSet(0 .. n - 1) /\ Cardinality(0 .. n - 1) = n
  <2>1. 0 \in Int /\ n - 1 \in Int /\ ~(0 > n - 1) /\ n - 1 - 0 + 1 = n
    BY <1>2
  <2> QED
    BY <2>1, FS_Interval
<1>10. \A i \in Ids : Units[Fresh(i).denom] \in Nat
  BY <1>7, LadderAssumption DEF Settled!ShapeData, Settled!Denoms, Denoms
<1>11. DealtBacking \in Nat
       /\ DealtBacking = SumOver([i \in Ids |-> Units[Fresh(i).denom]], 0 .. n - 1)
  <2>1. PICK f : f = [i \in Ids |-> Units[Fresh(i).denom]]
    OBVIOUS
  <2>2. \A i \in 0 .. n - 1 : f[i] \in Nat
    BY <1>2, <1>10, <2>1
  <2>3. SumOver(f, 0 .. n - 1) \in Nat
    BY <1>9, <2>2, SumNat
  <2> QED
    BY <1>1, <2>1, <2>3 DEF DealtBacking
<1>12. /\ composeStack = [i \in Ids |-> <<>>] /\ totalSupply = n
       /\ totalMinted = n /\ redeemableBacking = DealtBacking
       /\ directMints = n /\ originsRedeemed = 0
  BY <1>1 DEF CallsInit
<1>13. Settled!TypeOK
  <2>1. /\ SettledOwners \in [Ids -> Accounts \cup {NoOne}]
        /\ SettledOwnerToken \in 0 .. MaxMinted
    BY <1>4, <1>5 DEF Framed
  <2>2. shapes \in [Ids -> Settled!ShapeData]
    BY <1>6, <1>7
  <2>3. composeStack \in [Ids -> Seq(Settled!ComposeRecord)]
    BY <1>12
  <2>4. /\ splitRecords = <<>>
        /\ splitOriginRef = [i \in Ids |-> NoRef]
        /\ approvals = [i \in Ids |-> NoOne] /\ operatorApprovals = {}
        /\ burnedBacking = 0 /\ blackShapeCount = 0 /\ mintFee = 0
        /\ feeRecipient = Deployer /\ feesOwed = [a \in Accounts |-> 0]
        /\ totalFeesOwed = 0 /\ admin = Deployer /\ mintOpen = TRUE
        /\ ethBalance = DealtBacking /\ forcedEth = 0
    BY DEF CallsInit
  <2>5. /\ splitRecords \in Seq(Settled!SplitRecord)
        /\ splitOriginRef \in [Ids -> Settled!SplitOriginRef]
        /\ \A i \in Ids : ~splitOriginRef[i].exists
    BY <2>4 DEF Settled!SplitOriginRef, NoRef
  <2>6. /\ approvals \in [Ids -> Accounts \cup {NoOne}]
        /\ operatorApprovals \subseteq Accounts \X Accounts
        /\ mintFee \in 0 .. MaxMintFee /\ feeRecipient \in Accounts
        /\ feesOwed \in [Accounts -> Nat] /\ admin \in Accounts \cup {NoOne}
        /\ mintOpen \in BOOLEAN
    BY <2>4, CallConstants, BoundsAssumption
  <2>7. /\ totalSupply \in Nat /\ totalMinted \in 0 .. MaxMinted
        /\ redeemableBacking \in Nat /\ burnedBacking \in Nat
        /\ blackShapeCount \in Nat /\ totalFeesOwed \in Nat
        /\ ethBalance \in Nat /\ forcedEth \in Nat
        /\ directMints \in Nat /\ originsRedeemed \in Nat
    BY <1>2, <1>11, <1>12, <2>4, CallConstants
  <2>8. Settled!Ids = Ids
    BY DEF Settled!Ids, Ids
  <2> QED
    BY <2>1, <2>2, <2>3, <2>5, <2>6, <2>7, <2>8 DEF Settled!TypeOK
<1>14. Settled!Places = {} /\ \A s \in Ids : composeStack[s] = <<>>
  <2>1. \A s \in Ids : composeStack[s] = <<>> /\ 1 .. Len(composeStack[s]) = {}
    BY <1>12
  <2> QED
    BY <2>1 DEF Settled!Places, Settled!Ids, Ids
<1>15. Settled!Structure
  <2>1. Settled!SupplyCountsLiveShapes
    BY <1>2, <1>8, <1>9, <1>12, SettledSums DEF Settled!SupplyCountsLiveShapes
  <2>2. Settled!HeldShapesAreDeadAndUnique
    BY <1>14 DEF Settled!HeldShapesAreDeadAndUnique
  <2>3. Settled!FreshIdsHaveNoRecords
    BY <1>14 DEF Settled!FreshIdsHaveNoRecords, Settled!Ids, Ids
  <2>4. Settled!OwnerTokenLive
    BY <1>2, <1>3, <1>5, <1>8 DEF Settled!OwnerTokenLive
  <2>5. Settled!OwnerReturnPath
    BY <1>14 DEF Settled!OwnerReturnPath
  <2> QED
    BY <2>1, <2>2, <2>3, <2>4, <2>5 DEF Settled!Structure
<1>16. Settled!Conservation
  <2>1. Settled!RecordsConserve
    <3>1. \A s \in Ids : 1 .. Len(composeStack[s]) - 1 = {}
      BY <1>14
    <3> QED
      BY <1>2, <1>8, <1>14, <3>1 DEF Settled!RecordsConserve, Settled!Ids, Ids
  <2>2. Settled!ReserveBacksLiveShapes
    <3>1. PICK f, g : /\ f = [i \in Ids |-> Units[Fresh(i).denom]]
                      /\ g = Settled!Backings
      OBVIOUS
    <3>2. \A i \in 0 .. n - 1 : f[i] = g[i]
      BY <1>2, <1>6, <1>7, <3>1
         DEF Settled!Backings, Settled!BackingOf, Settled!Ids, Ids
    <3>3. SumOver(f, 0 .. n - 1) = SumOver(g, 0 .. n - 1)
      BY <3>2, SumSame
    <3>4. Settled!SumOver(g, Settled!Live) = redeemableBacking
      BY <1>8, <1>11, <1>12, <3>1, <3>3, SettledSums
    <3> QED
      BY <3>1, <3>4 DEF Settled!ReserveBacksLiveShapes
  <2>3. Settled!OriginsConserved
    <3>1. PICK g : g = Settled!OriginCounts
      OBVIOUS
    <3>2. \A i \in 0 .. n - 1 : g[i] = 1
      BY <1>2, <1>6, <1>7, <3>1, CallConstants
         DEF Settled!OriginCounts, Settled!Ids, Ids
    <3>3. SumOver(g, 0 .. n - 1) = n
      BY <1>9, <3>2, SumOnes
    <3>4. Settled!SumOver(g, Settled!Live) = n
      BY <1>8, <3>3, SettledSums
    <3>5. n + originsRedeemed = directMints
      BY <1>2, <1>12
    <3> QED
      BY <3>1, <3>4, <3>5 DEF Settled!OriginsConserved
  <2> QED
    BY <2>1, <2>2, <2>3 DEF Settled!Conservation
<1> QED
  BY <1>4, <1>13, <1>15, <1>16 DEF CallsInv, Settled!Inductive

\* The invariant always holds, callbacks included.
THEOREM CallsInvAlways == CallsSpec => []CallsInv
<1>1. CallsInv /\ [CallStep]_<<vars, callVars>> => CallsInv'
  BY CallStepIsStep
<1> QED
  BY <1>1, CallsInitInv, PTL DEF CallsSpec

\* Each call, with the callbacks made during it, is one step of module Shapes,
\* whatever contracts do in their callbacks.
THEOREM CallsAlwaysAtomic == CallsSpec => CallsAreAtomic
<1>1. CallsInv /\ [CallStep]_<<vars, callVars>> => [Atomic!Next]_(Atomic!vars)
  BY CallStepIsStep
<1> QED
  BY <1>1, CallsInvAlways, PTL DEF CallsSpec, CallsAreAtomic

\* At every moment of a call, inside a callback too, redeemableBacking is what
\* the live tokens and those still owed redeem for.
THEOREM ReserveBacksSettled == CallsSpec => []Settled!ReserveBacksLiveShapes
<1>1. CallsInv => Settled!ReserveBacksLiveShapes
  BY DEF CallsInv, Settled!Inductive, Settled!Conservation
<1> QED
  BY <1>1, CallsInvAlways, PTL

-----------------------------------------------------------------------------
(* The owner token, as a callback sees it.                                 *)

\* A split has moved the owner token to its first child, which is minted next,
\* before any callback.
AboutToExist(i) ==
    /\ call.kind = "split"
    /\ ~call.hook
    /\ i \in call.todo
    /\ \A j \in call.todo : i <= j

\* The owner token is a token somebody holds, or is about to be.
OwnerPlaced ==
    ownerToken # 0 => \E i \in Ids : /\ ownerToken = i + 1
                                     /\ owners[i] # NoOne \/ AboutToExist(i)

\* The owner token stays placed while it does not move and nothing dies.
LEMMA PlacedOnTheLiving ==
    ASSUME OwnerPlaced, ownerToken' = ownerToken,
           \A i \in Ids : owners[i] # NoOne => owners'[i] # NoOne,
           \A i \in Ids : AboutToExist(i) => owners'[i] # NoOne \/ AboutToExist(i)'
    PROVE  OwnerPlaced'
<1> SUFFICES ASSUME ownerToken' # 0
             PROVE  \E i \in Ids : /\ ownerToken' = i + 1
                                   /\ owners'[i] # NoOne \/ AboutToExist(i)'
  BY DEF OwnerPlaced
<1>1. PICK i \in Ids : /\ ownerToken = i + 1
                       /\ owners[i] # NoOne \/ AboutToExist(i)
  BY DEF OwnerPlaced
<1> QED
  BY <1>1

\* When nothing is owed the owner token is where the invariant of Shapes puts it.
LEMMA PlacedWhenSettled ==
    ASSUME CallsInv', SettledOwners' = owners', SettledOwnerToken' = ownerToken'
    PROVE  OwnerPlaced'
<1> SUFFICES ASSUME ownerToken' # 0
             PROVE  \E i \in Ids : ownerToken' = i + 1 /\ owners'[i] # NoOne
  BY DEF OwnerPlaced
<1>1. Settled!OwnerTokenLive'
  BY DEF CallsInv, Settled!Inductive, Settled!Structure
<1> QED
  BY <1>1 DEF Settled!OwnerTokenLive, Settled!Live, Settled!Ids, Ids

\* Every step keeps the owner token placed.
LEMMA PlacedNext ==
    ASSUME CallsInv, OwnerPlaced, [CallStep]_<<vars, callVars>>
    PROVE  OwnerPlaced'
<1>1. CallsInv' /\ call \in Frames /\ call' \in Frames
  BY CallStepIsStep DEF CallsInv, Framed
<1>2. call = Idle => \A i \in Ids : ~AboutToExist(i)
  BY DEF AboutToExist, Idle
<1>3. CASE OpenTx \/ CommitTx \/ UNCHANGED <<vars, callVars>>
  <2>1. UNCHANGED <<owners, ownerToken, call>>
    BY <1>3 DEF OpenTx, BeginTx, CommitTx, vars, callVars, erc721Vars
  <2>2. \A i \in Ids : AboutToExist(i)' <=> AboutToExist(i)
    BY <2>1 DEF AboutToExist
  <2> QED
    BY <2>1, <2>2, PlacedOnTheLiving
<1>4. ASSUME NEW caller \in Accounts, MintCall(caller)
      PROVE  OwnerPlaced'
  <2>1. UNCHANGED <<owners, ownerToken>> /\ call = Idle
    BY <1>4 DEF MintCall, MintBatchTo, MayEnter, erc721Vars
  <2> QED
    BY <1>2, <2>1, PlacedOnTheLiving
<1>5. ASSUME NEW caller \in Accounts, OwnersCall(caller)
      PROVE  OwnerPlaced'
  <2>1. ASSUME NEW i \in Live, NEW out \in OutputLists, NEW to \in Accounts,
               SplitTo(caller, i, out, to)
        PROVE  OwnerPlaced'
    <3>1. PICK children, q : children = NextIds(Len(out)) /\ q = Len(out)
      OBVIOUS
    <3>2. /\ call = Idle /\ call' = Minting("split", to, children)
          /\ totalMinted + q <= MaxMinted /\ 2 <= q
          /\ owners' = [c \in Ids |-> IF c \in {} THEN NoOne
                                      ELSE IF c \in {i} THEN NoOne
                                      ELSE owners[c]]
          /\ ownerToken' = OwnerTokenAfterSplit(i)
      BY <2>1, <3>1 DEF SplitTo, MayEnter, UpdateOwners
    <3>3. /\ call'.kind = "split" /\ ~call'.hook /\ call'.todo = children
      BY <3>2 DEF Minting, Idle
    <3>4. q \in Nat /\ totalMinted \in Nat /\ MaxMinted \in Nat
      <4>1. totalMinted \in Nat /\ MaxMinted \in Nat
        BY SettledFacts, CallConstants
      <4>2. PICK k \in 1 .. MaxMinted - totalMinted : out \in [1 .. k -> Denoms]
        BY DEF OutputLists
      <4> QED
        BY <3>1, <4>1, <4>2
    <3>5. CASE ownerToken - 1 = i
      <4>1. PICK m : m = totalMinted
        OBVIOUS
      <4>2. ownerToken' = m + 1 /\ m \in Ids
        BY <3>2, <3>4, <3>5, <4>1 DEF OwnerTokenAfterSplit, Ids
      <4>3. m \in children /\ \A j \in children : m <= j
        BY <3>1, <3>2, <3>4, <4>1 DEF NextIds
      <4>4. AboutToExist(m)'
        BY <3>3, <4>3 DEF AboutToExist
      <4> QED
        BY <4>2, <4>4 DEF OwnerPlaced
    <3>6. CASE ownerToken - 1 # i
      <4> SUFFICES ASSUME ownerToken' # 0
                   PROVE  \E j \in Ids : ownerToken' = j + 1 /\ owners'[j] # NoOne
        BY DEF OwnerPlaced
      <4>1. ownerToken' = ownerToken
        BY <3>2, <3>6 DEF OwnerTokenAfterSplit
      <4>2. PICK j \in Ids : ownerToken = j + 1 /\ owners[j] # NoOne
        BY <1>2, <3>2, <4>1 DEF OwnerPlaced
      <4>3. j # i
        BY <3>6, <4>2, CallConstants
      <4> QED
        BY <3>2, <4>1, <4>2, <4>3
    <3> QED
      BY <3>5, <3>6
  <2>2. ASSUME NEW s \in Live, NEW to \in Accounts, DecomposeTo(caller, s, to)
        PROVE  OwnerPlaced'
    <3>1. UNCHANGED <<owners, ownerToken>> /\ call = Idle
      BY <2>2 DEF DecomposeTo, MayEnter, erc721Vars, OwnerTokenInDecompose
    <3> QED
      BY <1>2, <3>1, PlacedOnTheLiving
  <2>3. ASSUME call'.todo = {}, call'.ownerTokenNext = 0
        PROVE  OwnerPlaced'
    <3>1. SettledOwners' = owners' /\ SettledOwnerToken' = ownerToken'
      BY <1>1, <2>3, SettledNothingNext DEF CallsInv, Framed
    <3> QED
      BY <1>1, <3>1, PlacedWhenSettled
  <2>4. ASSUME NEW s \in Live, NEW burnIds \in SUBSET (Live \ {s}),
               ComposeCall(caller, s, burnIds)
        PROVE  OwnerPlaced'
    BY <2>3, <2>4 DEF ComposeCall, MayEnter, Idle
  <2>5. ASSUME NEW S \in SUBSET Live, NEW allowBlack \in BOOLEAN,
               NEW to \in Accounts, RedeemCall(caller, S, allowBlack, to)
        PROVE  OwnerPlaced'
    <3>1. \/ call' = Idle
          \/ call' = [Idle EXCEPT !.kind = "redeem", !.to = to, !.hook = TRUE]
      BY <2>5 DEF RedeemCall, MayEnter
    <3>2. CASE call' = Idle
      BY <2>3, <3>2 DEF Idle
    <3>3. CASE call' = [Idle EXCEPT !.kind = "redeem", !.to = to, !.hook = TRUE]
      <4>1. call' = [kind |-> "redeem", to |-> to, todo |-> {},
                     ownerTokenNext |-> 0, survivor |-> 0, hook |-> TRUE]
        BY <3>3 DEF Idle
      <4> QED
        BY <2>3, <4>1
    <3> QED
      BY <3>1, <3>2, <3>3
  <2>6. ASSUME NEW i \in Live, BurnBackingCall(caller, i)
        PROVE  OwnerPlaced'
    BY <2>3, <2>6 DEF BurnBackingCall, MayEnter, Idle
  <2> QED
    BY <1>5, <2>1, <2>2, <2>4, <2>5, <2>6 DEF OwnersCall
<1>6. ASSUME NEW caller \in Accounts, NEW i \in Live, NEW to \in Accounts,
             TransferCall(caller, i, to)
      PROVE  OwnerPlaced'
  <2>1. /\ owners' = [owners EXCEPT ![i] = to] /\ ownerToken' = ownerToken
        /\ call' = call
    BY <1>6 DEF TransferCall, TransferFrom
  <2>2. \A j \in Ids : owners[j] # NoOne => owners'[j] # NoOne
    BY <2>1, CallConstants DEF CallsInv, Framed
  <2>3. \A j \in Ids : AboutToExist(j)' <=> AboutToExist(j)
    BY <2>1 DEF AboutToExist
  <2> QED
    BY <2>1, <2>2, <2>3, PlacedOnTheLiving
<1>7. CASE SafeMint
  <2>1. PICK i \in NextToMint :
            /\ Mintable({i}, call.to)
            /\ UpdateOwners({}, {i}, call.to)
            /\ ownerToken' = ownerToken
    BY <1>7 DEF SafeMint
  <2>2. /\ owners' = [j \in Ids |-> IF j \in {i} THEN call.to
                                    ELSE IF j \in {} THEN NoOne ELSE owners[j]]
        /\ call.to # NoOne /\ i \in call.todo
    BY <2>1 DEF UpdateOwners, Mintable, NextToMint
  <2>3. \A j \in Ids : owners[j] # NoOne => owners'[j] # NoOne
    BY <2>2
  <2>4. ASSUME NEW j \in Ids, AboutToExist(j)
        PROVE  owners'[j] # NoOne
    <3>1. i \in call.todo /\ \A k \in call.todo : i <= k
      BY <2>1, <2>4 DEF NextToMint, AboutToExist
    <3>2. i <= j /\ j <= i /\ i \in Nat /\ j \in Nat
      BY <1>1, <2>4, <3>1, CallConstants DEF AboutToExist, Frames
    <3>3. i = j
      BY <3>2
    <3> QED
      BY <2>2, <3>3
  <2> QED
    BY <2>1, <2>3, <2>4, PlacedOnTheLiving
<1>8. CASE CallbackReturns
  <2>1. UNCHANGED <<owners, ownerToken>> /\ call.hook
    BY <1>8 DEF CallbackReturns, vars, erc721Vars
  <2>2. \A i \in Ids : ~AboutToExist(i)
    BY <2>1 DEF AboutToExist
  <2> QED
    BY <2>1, <2>2, PlacedOnTheLiving
<1>9. CASE CallReturns
  <2>1. call'.todo = {} /\ call'.ownerTokenNext = 0
    BY <1>9 DEF CallReturns, Idle
  <2>2. SettledOwners' = owners' /\ SettledOwnerToken' = ownerToken'
    BY <1>1, <2>1, SettledNothingNext DEF CallsInv, Framed
  <2> QED
    BY <1>1, <2>2, PlacedWhenSettled
<1> QED
  BY <1>3, <1>4, <1>5, <1>6, <1>7, <1>8, <1>9 DEF CallStep

\* Whenever foreign code runs, the owner token is a token that exists.
THEOREM OwnerAlwaysSeen == CallsSpec => []OwnerSeenInCallbacks
<1>1. CallsInit => OwnerPlaced
  <2> SUFFICES ASSUME CallsInit PROVE OwnerPlaced
    OBVIOUS
  <2>1. ownerToken = 1 /\ owners[0] # NoOne /\ 0 \in Ids
    BY CallConstants, ContractsAssumption DEF CallsInit
  <2> QED
    BY <2>1 DEF OwnerPlaced
<1>2. CallsInv /\ OwnerPlaced /\ [CallStep]_<<vars, callVars>> => OwnerPlaced'
  BY PlacedNext
<1>3. ASSUME CallsInv, OwnerPlaced, call.hook \/ call = Idle, ownerToken # 0
      PROVE  ownerToken - 1 \in Ids /\ IsLive(ownerToken - 1)
  <2>1. PICK i \in Ids : /\ ownerToken = i + 1
                         /\ owners[i] # NoOne \/ AboutToExist(i)
    BY <1>3 DEF OwnerPlaced
  <2>2. ownerToken - 1 = i
    BY <2>1, CallConstants
  <2>3. owners[i] # NoOne
    BY <1>3, <2>1 DEF AboutToExist, Idle
  <2> QED
    BY <2>2, <2>3 DEF IsLive
<1>4. CallsInv /\ OwnerPlaced => OwnerSeenInCallbacks
  BY <1>3 DEF OwnerSeenInCallbacks
<1> QED
  BY <1>1, <1>2, <1>4, CallsInvAlways, PTL DEF CallsSpec
=============================================================================
