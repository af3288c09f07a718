------------------------- MODULE ShapesProvenance -------------------------
(***************************************************************************)
(* Where tokens and their art come from.  A token is known as long as it   *)
(* lives or a record holds it, and decompose can bring back any state that *)
(* a record kept, so seeds, split references and art are proved of every   *)
(* known token and not of the live ones alone.                             *)
(***************************************************************************)
EXTENDS ShapesProofs

-----------------------------------------------------------------------------
(* Tokens that live, and tokens that a record would bring back.            *)

\* Every token that lives or is held by a record, with the state it shows: its
\* own when it lives, the recorded one when it is held.
Known == {<<i, SnapshotOf(i)>> : i \in Live} \cup
         UNION {{<<i, RecordAt(p).inputs[i]>> : i \in HeldAt(p)} : p \in Places}

\* What is known of a live token, and of a held one.
LEMMA KnownIntro ==
    /\ \A i \in Live : <<i, SnapshotOf(i)>> \in Known
    /\ \A p \in Places : \A i \in HeldAt(p) :
          <<i, RecordAt(p).inputs[i]>> \in Known
<1>1. \A i \in Live : <<i, SnapshotOf(i)>> \in Known
  BY DEF Known
<1>2. ASSUME NEW p \in Places, NEW i \in HeldAt(p)
      PROVE  <<i, RecordAt(p).inputs[i]>> \in Known
  <2>1. <<i, RecordAt(p).inputs[i]>>
            \in {<<j, RecordAt(p).inputs[j]>> : j \in HeldAt(p)}
    OBVIOUS
  <2> QED
    BY <2>1 DEF Known
<1> QED
  BY <1>1, <1>2

\* A known token lives or is held.
LEMMA KnownElim ==
    ASSUME NEW a \in Known
    PROVE  \/ a[1] \in Live /\ a[2] = SnapshotOf(a[1])
           \/ \E p \in Places : /\ a[1] \in HeldAt(p)
                                /\ a[2] = RecordAt(p).inputs[a[1]]
<1>1. CASE a \in {<<i, SnapshotOf(i)>> : i \in Live}
  BY <1>1
<1>2. ASSUME NEW p \in Places,
             a \in {<<i, RecordAt(p).inputs[i]>> : i \in HeldAt(p)}
      PROVE  a[1] \in HeldAt(p) /\ a[2] = RecordAt(p).inputs[a[1]]
  BY <1>2
<1>3. \/ a \in {<<i, SnapshotOf(i)>> : i \in Live}
      \/ \E p \in Places :
            a \in {<<i, RecordAt(p).inputs[i]>> : i \in HeldAt(p)}
  BY DEF Known
<1> QED
  BY <1>1, <1>2, <1>3

\* The same after a step.
LEMMA KnownElimAfter ==
    ASSUME NEW a \in Known'
    PROVE  \/ a[1] \in Live' /\ a[2] = SnapshotOf(a[1])'
           \/ \E p \in Places' : /\ a[1] \in HeldAt(p)'
                                 /\ a[2] = RecordAt(p)'.inputs[a[1]]
<1>1. CASE a \in {<<i, SnapshotOf(i)'>> : i \in Live'}
  BY <1>1
<1>2. ASSUME NEW p \in Places',
             a \in {<<i, RecordAt(p)'.inputs[i]>> : i \in HeldAt(p)'}
      PROVE  a[1] \in HeldAt(p)' /\ a[2] = RecordAt(p)'.inputs[a[1]]
  BY <1>2
<1>3. \/ a \in {<<i, SnapshotOf(i)'>> : i \in Live'}
      \/ \E p \in Places' :
            a \in {<<i, RecordAt(p)'.inputs[i]>> : i \in HeldAt(p)'}
  BY DEF Known
<1> QED
  BY <1>1, <1>2, <1>3

\* What is known of a token is a snapshot of it.
LEMMA KnownTypes ==
    ASSUME TypeOK, NEW a \in Known
    PROVE  a[1] \in Ids /\ a[2] \in ComposeInput
<1>1. ASSUME NEW i \in Live
      PROVE  i \in Ids /\ SnapshotOf(i) \in ComposeInput
  BY LiveMembers DEF TypeOK, ShapeData, SnapshotOf, ComposeInput
<1>2. ASSUME NEW p \in Places, NEW i \in HeldAt(p)
      PROVE  i \in Ids /\ RecordAt(p).inputs[i] \in ComposeInput
  BY PlaceFacts DEF ComposeRecord
<1> QED
  BY <1>1, <1>2, KnownElim

\* A live token is held by no record.
LEMMA KnownLive ==
    ASSUME TypeOK, Structure, NEW a \in Known, a[1] \in Live
    PROVE  a[2] = SnapshotOf(a[1])
BY KnownElim, StructureFacts

\* A fresh id is unknown.
LEMMA KnownIssued ==
    ASSUME TypeOK, Structure, NEW a \in Known
    PROVE  a[1] < totalMinted
BY KnownElim, StructureFacts

\* A step that retires live tokens, changes no record and brings nothing back.
Waning ==
    /\ Live' \subseteq Live
    /\ \A i \in Live' : SnapshotOf(i)' = SnapshotOf(i)
    /\ UNCHANGED <<composeStack, splitRecords, splitOriginRef, totalMinted>>

\* A snapshot is the same when the shape differs in its blackness only.
LEMMA SnapshotSame ==
    ASSUME NEW i, shapes'[i].seed = shapes[i].seed,
           shapes'[i].denom = shapes[i].denom,
           shapes'[i].origins = shapes[i].origins,
           shapes'[i].art = shapes[i].art
    PROVE  SnapshotOf(i)' = SnapshotOf(i)
BY DEF SnapshotOf

\* The kinds of step that matter to the provenance of tokens.
LEMMA ProvenanceKinds ==
    ASSUME TypeOK, [Next]_vars
    PROVE  \/ Waning
           \/ \E d \in Denoms, q \in 1 .. MaxMinted, to \in Accounts :
                 MintBatch(d, q, to)
           \/ \E caller \in Accounts, s \in Ids, burnIds \in SUBSET Ids :
                 Compose(caller, s, burnIds)
           \/ \E caller \in Accounts, s \in Ids, to \in Accounts :
                 Decompose(caller, s, to)
           \/ \E caller \in Accounts, i \in Ids, out \in OutputLists,
                 to \in Accounts : Split(caller, i, out, to)
<1>1. CASE StillStep
  <2>1. /\ Live' = Live /\ shapes' = shapes
        /\ UNCHANGED <<composeStack, splitRecords, splitOriginRef, totalMinted>>
    BY <1>1, StillStepKeeps DEF storeVars
  <2>2. \A i \in Live' : SnapshotOf(i)' = SnapshotOf(i)
    BY <2>1, SnapshotSame
  <2> QED
    BY <2>1, <2>2 DEF Waning
<1>2. ASSUME NEW caller \in Accounts, NEW S \in SUBSET Ids, NEW allowBlack,
             RedeemSet(caller, S, allowBlack)
      PROVE  Waning
  <2>1. /\ Exchange(S, {}, Live \ S)
        /\ UNCHANGED <<composeStack, splitRecords, splitOriginRef, totalMinted>>
    BY <1>2, RedeemShapes
  <2>2. Live' = Live \ S /\ \A i \in Live' : shapes'[i] = shapes[i]
    BY <2>1 DEF Exchange
  <2>3. \A i \in Live' : SnapshotOf(i)' = SnapshotOf(i)
    BY <2>2, SnapshotSame
  <2> QED
    BY <2>1, <2>2, <2>3 DEF Waning
<1>3. ASSUME NEW caller \in Accounts, NEW i \in Ids, BurnBacking(caller, i)
      PROVE  Waning
  <2>1. /\ \A j \in Ids : /\ shapes'[j].seed = shapes[j].seed
                          /\ shapes'[j].denom = shapes[j].denom
                          /\ shapes'[j].origins = shapes[j].origins
                          /\ shapes'[j].art = shapes[j].art
        /\ Live' = Live
        /\ UNCHANGED <<composeStack, splitRecords, splitOriginRef, totalMinted>>
    BY <1>3, BurnBackingShapes
  <2>2. \A j \in Live' : SnapshotOf(j)' = SnapshotOf(j)
    BY <2>1, SnapshotSame, LiveMembers
  <2> QED
    BY <2>1, <2>2 DEF Waning
<1> QED
  BY <1>1, <1>2, <1>3, StepKinds

\* After such a step nothing is known that was not.
LEMMA KnownByWaning ==
    ASSUME Waning
    PROVE  Known' \subseteq Known
<1> SUFFICES ASSUME NEW a \in Known' PROVE a \in Known
  OBVIOUS
<1>1. a = <<a[1], a[2]>>
  BY DEF Known
<1>2. CASE a[1] \in Live' /\ a[2] = SnapshotOf(a[1])'
  <2>1. a[1] \in Live /\ a[2] = SnapshotOf(a[1])
    BY <1>2 DEF Waning
  <2> QED
    BY <1>1, <2>1, KnownIntro
<1>3. ASSUME NEW p \in Places', a[1] \in HeldAt(p)',
             a[2] = RecordAt(p)'.inputs[a[1]]
      PROVE  a \in Known
  <2>1. /\ p \in Places /\ a[1] \in HeldAt(p)
        /\ a[2] = RecordAt(p).inputs[a[1]]
    BY <1>3, SamePlaces DEF Waning
  <2> QED
    BY <1>1, <2>1, KnownIntro
<1> QED
  BY <1>2, <1>3, KnownElimAfter

\* After a step that exchanges A for B and changes no record, what is known was
\* known and is not of A, or is of B.
LEMMA KnownByExchange ==
    ASSUME TypeOK, Structure, NEW A, NEW B, NEW R, Exchange(A, B, R),
           composeStack' = composeStack, NEW a \in Known', a[1] \notin B
    PROVE  a \in Known /\ a[1] \notin A
<1>1. a = <<a[1], a[2]>>
  BY DEF Known
<1>2. CASE a[1] \in Live' /\ a[2] = SnapshotOf(a[1])'
  <2>1. /\ a[1] \in R /\ a[1] \in Live /\ a[1] \notin A
        /\ shapes'[a[1]] = shapes[a[1]]
    BY <1>2 DEF Exchange
  <2>2. a[2] = SnapshotOf(a[1])
    BY <1>2, <2>1, SnapshotSame
  <2> QED
    BY <1>1, <2>1, <2>2, KnownIntro
<1>3. ASSUME NEW p \in Places', a[1] \in HeldAt(p)',
             a[2] = RecordAt(p)'.inputs[a[1]]
      PROVE  a \in Known /\ a[1] \notin A
  <2>1. /\ p \in Places /\ a[1] \in HeldAt(p)
        /\ a[2] = RecordAt(p).inputs[a[1]]
    BY <1>3, SamePlaces
  <2>2. a[1] \notin A
    BY <2>1, StructureFacts DEF Exchange
  <2> QED
    BY <1>1, <2>1, <2>2, KnownIntro
<1> QED
  BY <1>2, <1>3, KnownElimAfter

\* After a compose every token but the survivor is known as it was: the record
\* keeps its inputs as they are.
LEMMA KnownByCompose ==
    ASSUME TypeOK, Structure, NEW caller \in Accounts, NEW s \in Ids,
           NEW burnIds \in SUBSET Ids, Compose(caller, s, burnIds),
           NEW a \in Known', a[1] # s
    PROVE  a \in Known
<1>1. a = <<a[1], a[2]>>
  BY DEF Known
<1>2. PICK n, new, rec : /\ n = Len(composeStack[s]) + 1
                         /\ new = <<s, n>>
                         /\ rec = RecordOf(s, burnIds)
  OBVIOUS
<1>3. /\ Exchange(burnIds \cup {s}, {s}, Live \ (burnIds \cup {s}))
      /\ burnIds \subseteq Live
  BY ComposeShapes
<1>4. /\ Places' = Places \cup {new}
      /\ RecordAt(new)' = rec /\ HeldAt(new)' = burnIds
      /\ \A p \in Places : /\ RecordAt(p)' = RecordAt(p)
                           /\ HeldAt(p)' = HeldAt(p)
  BY <1>2, ComposePlaces
<1>5. CASE a[1] \in Live' /\ a[2] = SnapshotOf(a[1])'
  <2>1. a[1] \in Live /\ shapes'[a[1]] = shapes[a[1]]
    BY <1>3, <1>5 DEF Exchange
  <2>2. a[2] = SnapshotOf(a[1])
    BY <1>5, <2>1, SnapshotSame
  <2> QED
    BY <1>1, <2>1, <2>2, KnownIntro
<1>6. ASSUME NEW p \in Places', a[1] \in HeldAt(p)',
             a[2] = RecordAt(p)'.inputs[a[1]]
      PROVE  a \in Known
  <2>1. CASE p = new
    <3>1. a[1] \in burnIds /\ a[2] = rec.inputs[a[1]]
      BY <1>4, <1>6, <2>1
    <3>2. rec.inputs[a[1]] = SnapshotOf(a[1])
      BY <1>2, <3>1 DEF RecordOf
    <3> QED
      BY <1>1, <1>3, <3>1, <3>2, KnownIntro
  <2>2. CASE p \in Places
    BY <1>1, <1>4, <1>6, <2>2, KnownIntro
  <2> QED
    BY <1>4, <2>1, <2>2
<1> QED
  BY <1>5, <1>6, KnownElimAfter

\* After a decompose every token but the survivor is known as it was: the inputs
\* come back as the record kept them.
LEMMA KnownByDecompose ==
    ASSUME TypeOK, Structure, NEW caller \in Accounts, NEW s \in Ids,
           NEW to \in Accounts, Decompose(caller, s, to),
           NEW a \in Known', a[1] # s
    PROVE  a \in Known
<1>1. a = <<a[1], a[2]>>
  BY DEF Known
<1>2. PICK n, old, rec : /\ n = Len(composeStack[s])
                         /\ old = <<s, n>>
                         /\ rec = Last(composeStack[s])
  OBVIOUS
<1>3. /\ Exchange({s}, rec.burned \cup {s}, Live \ {s})
      /\ \A i \in rec.burned : shapes'[i] = Revived(rec.inputs[i])
      /\ rec.burned \subseteq Ids
  BY <1>2, DecomposeShapes
<1>4. /\ old \in Places /\ RecordAt(old) = rec /\ HeldAt(old) = rec.burned
      /\ Places' = Places \ {old}
      /\ \A p \in Places' : /\ RecordAt(p)' = RecordAt(p)
                            /\ HeldAt(p)' = HeldAt(p)
  BY <1>2, DecomposePlaces
<1>5. CASE a[1] \in rec.burned /\ a[2] = SnapshotOf(a[1])'
  <2>1. rec.inputs[a[1]] \in ComposeInput
    BY <1>3, <1>4, <1>5, PlaceFacts DEF ComposeRecord
  <2>2. PICK x : x = rec.inputs[a[1]]
    OBVIOUS
  <2>3. x \in ComposeInput
    BY <2>1, <2>2
  <2>4. shapes'[a[1]] = Revived(x)
    BY <1>3, <1>5, <2>2
  <2>5. SnapshotOf(a[1])' = [seed |-> x.seed, denom |-> x.denom,
                             origins |-> x.origins, art |-> x.art]
    BY <2>4 DEF SnapshotOf, Revived
  <2>6. x = [seed |-> x.seed, denom |-> x.denom,
             origins |-> x.origins, art |-> x.art]
    BY <2>3 DEF ComposeInput
  <2>7. a = <<a[1], RecordAt(old).inputs[a[1]]>>
    BY <1>1, <1>4, <1>5, <2>2, <2>5, <2>6
  <2> QED
    BY <1>4, <1>5, <2>7, KnownIntro
<1>6. CASE a[1] \in Live \ {s} /\ a[2] = SnapshotOf(a[1])'
  <2>1. shapes'[a[1]] = shapes[a[1]]
    BY <1>3, <1>6 DEF Exchange
  <2>2. a[2] = SnapshotOf(a[1])
    BY <1>6, <2>1, SnapshotSame
  <2> QED
    BY <1>1, <1>6, <2>2, KnownIntro
<1>7. ASSUME NEW p \in Places', a[1] \in HeldAt(p)',
             a[2] = RecordAt(p)'.inputs[a[1]]
      PROVE  a \in Known
  BY <1>1, <1>4, <1>7, KnownIntro
<1>8. Live' = (rec.burned \cup {s}) \cup (Live \ {s})
  BY <1>3 DEF Exchange
<1> QED
  BY <1>5, <1>6, <1>7, <1>8, KnownElimAfter

\* The survivor of a compose is known in its new state.
LEMMA SurvivorOfCompose ==
    ASSUME TypeOK, Structure, NEW caller \in Accounts, NEW s \in Ids,
           NEW burnIds \in SUBSET Ids, Compose(caller, s, burnIds),
           NEW a \in Known', a[1] = s
    PROVE  a[2] = SnapshotOf(s)'
<1>1. PICK n, new, rec : /\ n = Len(composeStack[s]) + 1
                         /\ new = <<s, n>>
                         /\ rec = RecordOf(s, burnIds)
  OBVIOUS
<1>2. s \in Live /\ s \notin burnIds
  BY ComposeShapes
<1>3. /\ Places' = Places \cup {new} /\ HeldAt(new)' = burnIds
      /\ \A p \in Places : HeldAt(p)' = HeldAt(p)
  BY <1>1, ComposePlaces
<1>4. ~\E p \in Places' : s \in HeldAt(p)'
  BY <1>2, <1>3, StructureFacts
<1> QED
  BY <1>4, KnownElimAfter

\* The survivor of a decompose is known in its new state.
LEMMA SurvivorOfDecompose ==
    ASSUME TypeOK, Structure, NEW caller \in Accounts, NEW s \in Ids,
           NEW to \in Accounts, Decompose(caller, s, to),
           NEW a \in Known', a[1] = s
    PROVE  a[2] = SnapshotOf(s)'
<1>1. PICK n, old, rec : /\ n = Len(composeStack[s])
                         /\ old = <<s, n>>
                         /\ rec = Last(composeStack[s])
  OBVIOUS
<1>2. s \in Live
  BY <1>1, DecomposeShapes
<1>3. /\ Places' = Places \ {old}
      /\ \A p \in Places' : HeldAt(p)' = HeldAt(p)
  BY <1>1, DecomposePlaces
<1>4. ~\E p \in Places' : s \in HeldAt(p)'
  BY <1>2, <1>3, StructureFacts
<1> QED
  BY <1>4, KnownElimAfter

\* What a snapshot keeps of the seed.
LEMMA SnapshotSeed == \A i : /\ SnapshotOf(i).seed = shapes[i].seed
                             /\ SnapshotOf(i)'.seed = shapes'[i].seed
BY DEF SnapshotOf

-----------------------------------------------------------------------------
(* Seeds.                                                                  *)

\* Seed t begins with seed s: it descends from s by splits.
Extends(t, s) == Len(s) <= Len(t) /\ \A k \in 1 .. Len(s) : t[k] = s[k]

\* A seed descends from itself, from what its last split appended to, and from
\* one of its siblings only when it is that sibling.
LEMMA ExtendsFacts ==
    ASSUME NEW s \in Seeds, NEW t \in Seeds, NEW j \in Nat, NEW k \in Nat
    PROVE  /\ Extends(s, s)
           /\ Extends(t, Append(s, j)) => Extends(t, s)
           /\ Extends(Append(t, k), s) => Extends(t, s) \/ Extends(s, t)
           /\ Extends(Append(s, j), Append(s, k)) => j = k
<1>1. /\ Len(s) \in Nat /\ Len(t) \in Nat
      /\ Len(Append(s, j)) = Len(s) + 1 /\ Len(Append(t, k)) = Len(t) + 1
      /\ Len(Append(s, k)) = Len(s) + 1
      /\ \A x \in 1 .. Len(s) : Append(s, j)[x] = s[x]
      /\ \A x \in 1 .. Len(t) : Append(t, k)[x] = t[x]
      /\ Append(s, j)[Len(s) + 1] = j /\ Append(s, k)[Len(s) + 1] = k
  BY DEF Seeds
<1>2. Extends(s, s)
  BY <1>1 DEF Extends
<1>3. ASSUME Extends(t, Append(s, j)) PROVE Extends(t, s)
  <2>1. /\ Len(s) + 1 <= Len(t)
        /\ \A x \in 1 .. Len(s) + 1 : t[x] = Append(s, j)[x]
    BY <1>1, <1>3 DEF Extends
  <2>2. Len(s) <= Len(t)
    BY <1>1, <2>1
  <2>3. \A x \in 1 .. Len(s) : t[x] = s[x]
    BY <1>1, <2>1
  <2> QED
    BY <2>2, <2>3 DEF Extends
<1>4. ASSUME Extends(Append(t, k), s) PROVE Extends(t, s) \/ Extends(s, t)
  <2>1. /\ Len(s) <= Len(t) + 1
        /\ \A x \in 1 .. Len(s) : Append(t, k)[x] = s[x]
    BY <1>1, <1>4 DEF Extends
  <2>2. CASE Len(s) <= Len(t)
    <3>1. \A x \in 1 .. Len(s) : t[x] = s[x]
      BY <1>1, <2>1, <2>2
    <3> QED
      BY <2>2, <3>1 DEF Extends
  <2>3. CASE Len(s) = Len(t) + 1
    <3>1. \A x \in 1 .. Len(t) : s[x] = t[x]
      BY <1>1, <2>1, <2>3
    <3>2. Len(t) <= Len(s)
      BY <1>1, <2>3
    <3> QED
      BY <3>1, <3>2 DEF Extends
  <2> QED
    BY <1>1, <2>1, <2>2, <2>3
<1>5. ASSUME Extends(Append(s, j), Append(s, k)) PROVE j = k
  <2>1. \A x \in 1 .. Len(s) + 1 : Append(s, j)[x] = Append(s, k)[x]
    BY <1>1, <1>5 DEF Extends
  <2>2. Len(s) + 1 \in 1 .. Len(s) + 1
    BY <1>1
  <2> QED
    BY <1>1, <2>1, <2>2
<1> QED
  BY <1>2, <1>3, <1>4, <1>5

\* Every known seed starts with an issued id, and no known seed descends from
\* the seed of another token.  A split of a token with seed s needs the second
\* half of this for its children, whose seeds descend from s.
SeedsApart ==
    /\ \A a \in Known : a[2].seed # <<>> /\ a[2].seed[1] < totalMinted
    /\ \A a, b \in Known : Extends(b[2].seed, a[2].seed) => a[1] = b[1]

\* A step that gives no token another seed keeps the seeds apart.
LEMMA SeedsKept ==
    ASSUME SeedsApart, totalMinted' = totalMinted,
           \A a \in Known' :
               \E b \in Known : a[1] = b[1] /\ a[2].seed = b[2].seed
    PROVE  SeedsApart'
<1>1. ASSUME NEW a \in Known'
      PROVE  a[2].seed # <<>> /\ a[2].seed[1] < totalMinted'
  BY DEF SeedsApart
<1>2. ASSUME NEW a \in Known', NEW b \in Known', Extends(b[2].seed, a[2].seed)
      PROVE  a[1] = b[1]
  BY <1>2 DEF SeedsApart
<1> QED
  BY <1>1, <1>2 DEF SeedsApart

\* A mint keeps the seeds apart: its seeds start with fresh ids.
LEMMA SeedsByMint ==
    ASSUME TypeOK, Structure, SeedsApart, NEW d \in Denoms,
           NEW q \in 1 .. MaxMinted, NEW to \in Accounts, MintBatch(d, q, to)
    PROVE  SeedsApart'
<1>1. PICK ids : ids = NextIds(q)
  OBVIOUS
<1>2. /\ Exchange({}, ids, Live)
      /\ \A i \in ids : /\ shapes'[i] = MintedShape(i, d)
                        /\ totalMinted <= i /\ i < totalMinted'
      /\ totalMinted <= totalMinted'
      /\ composeStack' = composeStack
  BY <1>1, MintShapes
<1>3. totalMinted \in Nat /\ totalMinted' \in Nat
  BY <1>1, ConstantTypes DEF TypeOK, MintBatch
<1>4. ASSUME NEW a \in Known', a[1] \notin ids
      PROVE  /\ a \in Known /\ a[2].seed \in Seeds
             /\ a[2].seed # <<>> /\ a[2].seed[1] < totalMinted
  <2>1. a \in Known
    BY <1>2, <1>4, KnownByExchange
  <2> QED
    BY <2>1, KnownTypes DEF ComposeInput, SeedsApart
<1>5. ASSUME NEW a \in Known', a[1] \in ids
      PROVE  /\ a[2].seed = <<a[1]>> /\ a[1] \in Nat
             /\ totalMinted <= a[1] /\ a[1] < totalMinted'
  <2>1. PICK c : c = a[1]
    OBVIOUS
  <2>2. /\ c \in ids /\ c \in Nat /\ totalMinted <= c /\ c < totalMinted'
        /\ shapes'[c] = MintedShape(c, d)
    BY <1>2, <1>5, <2>1, ConstantTypes DEF Exchange
  <2>3. ~(c < totalMinted)
    BY <1>3, <2>2
  <2>4. \A p \in Places' : p \in Places /\ HeldAt(p)' = HeldAt(p)
    BY <1>2, SamePlaces
  <2>5. a[2] = SnapshotOf(c)'
    BY <2>1, <2>3, <2>4, StructureFacts, KnownElimAfter
  <2>6. a[2].seed = <<c>>
    BY <2>2, <2>5, SnapshotSeed DEF MintedShape
  <2> QED
    BY <2>1, <2>2, <2>6
<1>6. ASSUME NEW a \in Known'
      PROVE  a[2].seed # <<>> /\ a[2].seed[1] < totalMinted'
  <2>1. CASE a[1] \in ids
    BY <1>5, <2>1
  <2>2. CASE a[1] \notin ids
    <3>1. /\ a[2].seed \in Seq(Nat) /\ a[2].seed # <<>>
          /\ a[2].seed[1] < totalMinted
      BY <1>4, <2>2 DEF Seeds
    <3>2. a[2].seed[1] \in Nat
      BY <3>1
    <3> QED
      BY <1>2, <1>3, <3>1, <3>2
  <2> QED
    BY <2>1, <2>2
<1>7. ASSUME NEW a \in Known', NEW b \in Known', Extends(b[2].seed, a[2].seed)
      PROVE  a[1] = b[1]
  <2>1. a[2].seed[1] = b[2].seed[1]
    <3>1. a[2].seed \in Seq(Nat) /\ a[2].seed # <<>>
      <4>1. CASE a[1] \in ids
        <5>1. PICK c \in Nat : a[2].seed = <<c>>
          BY <1>5, <4>1
        <5> QED
          BY <5>1
      <4>2. CASE a[1] \notin ids
        BY <1>4, <4>2 DEF Seeds
      <4> QED
        BY <4>1, <4>2
    <3>2. 1 \in 1 .. Len(a[2].seed)
      BY <3>1
    <3> QED
      BY <1>7, <3>2 DEF Extends
  <2>2. CASE a[1] \in ids /\ b[1] \in ids
    BY <1>5, <2>1, <2>2
  <2>3. CASE a[1] \in ids /\ b[1] \notin ids
    BY <1>3, <1>4, <1>5, <2>1, <2>3
  <2>4. CASE a[1] \notin ids /\ b[1] \in ids
    BY <1>3, <1>4, <1>5, <2>1, <2>4
  <2>5. CASE a[1] \notin ids /\ b[1] \notin ids
    BY <1>4, <1>7, <2>5 DEF SeedsApart
  <2> QED
    BY <2>2, <2>3, <2>4, <2>5
<1> QED
  BY <1>6, <1>7 DEF SeedsApart

\* A split keeps the seeds apart: its children descend from their parent alone,
\* which is known no more, and differ in their child index.
LEMMA SeedsBySplit ==
    ASSUME TypeOK, Structure, SeedsApart, NEW caller \in Accounts,
           NEW i \in Ids, NEW out \in OutputLists, NEW to \in Accounts,
           Split(caller, i, out, to)
    PROVE  SeedsApart'
<1>1. PICK children : children = NextIds(Len(out))
  OBVIOUS
<1>2. /\ i \in Live
      /\ Exchange({i}, children, Live \ {i})
      /\ \A c \in children : /\ shapes'[c] = ChildShape(i, out, c)
                             /\ totalMinted <= c /\ c < totalMinted'
                             /\ c - totalMinted + 1 \in DOMAIN out
      /\ totalMinted <= totalMinted'
      /\ composeStack' = composeStack
  BY <1>1, SplitShapesAndRefs
<1>3. totalMinted \in Nat /\ totalMinted' \in Int
  <2>1. totalMinted \in Nat /\ totalMinted' = totalMinted + Len(out)
    BY ConstantTypes DEF TypeOK, Split
  <2>2. Len(out) \in Nat
    BY <1>1, ConstantTypes DEF OutputLists
  <2> QED
    BY <2>1, <2>2
<1>4. PICK seed : seed = shapes[i].seed
  OBVIOUS
<1>5. /\ <<i, SnapshotOf(i)>> \in Known
      /\ <<i, SnapshotOf(i)>>[1] = i
      /\ <<i, SnapshotOf(i)>>[2].seed = seed
  BY <1>2, <1>4, KnownIntro, SnapshotSeed
<1>6. seed \in Seeds /\ seed # <<>> /\ seed[1] < totalMinted
  BY <1>5, KnownTypes DEF ComposeInput, SeedsApart
<1>7. ASSUME NEW a \in Known', a[1] \notin children
      PROVE  /\ a \in Known /\ a[2].seed \in Seeds
             /\ ~Extends(a[2].seed, seed) /\ ~Extends(seed, a[2].seed)
  <2>1. a \in Known /\ a[1] # i
    BY <1>2, <1>7, KnownByExchange
  <2> QED
    BY <1>5, <2>1, KnownTypes DEF ComposeInput, SeedsApart
<1>8. ASSUME NEW a \in Known', a[1] \in children
      PROVE  \E k \in Nat : /\ a[2].seed = Append(seed, k)
                            /\ a[1] = totalMinted + k
  <2>1. PICK c, k : c = a[1] /\ k = c - totalMinted
    OBVIOUS
  <2>2. /\ c \in children /\ c \in Nat /\ totalMinted <= c
        /\ shapes'[c] = ChildShape(i, out, c)
    BY <1>2, <1>8, <2>1, ConstantTypes DEF Exchange
  <2>3. ~(c < totalMinted) /\ k \in Nat /\ c = totalMinted + k
    BY <1>3, <2>1, <2>2
  <2>4. \A p \in Places' : p \in Places /\ HeldAt(p)' = HeldAt(p)
    BY <1>2, SamePlaces
  <2>5. a[2] = SnapshotOf(c)'
    <3>1. \A p \in Places : c \notin HeldAt(p)
      BY <2>3, StructureFacts
    <3>2. \A p \in Places' : c \notin HeldAt(p)'
      BY <2>4, <3>1
    <3> QED
      BY <2>1, <3>2, KnownElimAfter
  <2>6. a[2].seed = Append(seed, k)
    BY <1>4, <2>1, <2>2, <2>5, SnapshotSeed DEF ChildShape
  <2> QED
    BY <2>1, <2>3, <2>6
<1>9. ASSUME NEW a \in Known'
      PROVE  a[2].seed # <<>> /\ a[2].seed[1] < totalMinted'
  <2>1. CASE a[1] \in children
    <3>1. PICK k \in Nat : a[2].seed = Append(seed, k)
      BY <1>8, <2>1
    <3>2. a[2].seed # <<>> /\ a[2].seed[1] = seed[1]
      BY <1>6, <3>1 DEF Seeds
    <3>3. seed[1] \in Nat
      BY <1>6 DEF Seeds
    <3> QED
      BY <1>2, <1>3, <1>6, <3>2, <3>3
  <2>2. CASE a[1] \notin children
    <3>1. /\ a[2].seed \in Seq(Nat) /\ a[2].seed # <<>>
          /\ a[2].seed[1] < totalMinted
      BY <1>7, <2>2 DEF Seeds, SeedsApart
    <3>2. a[2].seed[1] \in Nat
      BY <3>1
    <3> QED
      BY <1>2, <1>3, <3>1, <3>2
  <2> QED
    BY <2>1, <2>2
<1>10. ASSUME NEW a \in Known', NEW b \in Known', Extends(b[2].seed, a[2].seed)
       PROVE  a[1] = b[1]
  <2>1. CASE a[1] \in children /\ b[1] \in children
    <3>1. PICK j \in Nat : a[2].seed = Append(seed, j) /\ a[1] = totalMinted + j
      BY <1>8, <2>1
    <3>2. PICK k \in Nat : b[2].seed = Append(seed, k) /\ b[1] = totalMinted + k
      BY <1>8, <2>1
    <3>3. Extends(Append(seed, k), Append(seed, j))
      BY <1>10, <3>1, <3>2
    <3>4. j = k
      BY <1>6, <3>3, ExtendsFacts
    <3> QED
      BY <3>1, <3>2, <3>4
  <2>2. CASE a[1] \in children /\ b[1] \notin children
    <3>1. PICK j \in Nat : a[2].seed = Append(seed, j)
      BY <1>8, <2>2
    <3>2. b[2].seed \in Seeds /\ Extends(b[2].seed, Append(seed, j))
      BY <1>7, <1>10, <2>2, <3>1
    <3>3. Extends(b[2].seed, seed)
      BY <1>6, <3>2, ExtendsFacts
    <3> QED
      BY <1>7, <2>2, <3>3
  <2>3. CASE a[1] \notin children /\ b[1] \in children
    <3>1. PICK k \in Nat : b[2].seed = Append(seed, k)
      BY <1>8, <2>3
    <3>2. a[2].seed \in Seeds /\ Extends(Append(seed, k), a[2].seed)
      BY <1>7, <1>10, <2>3, <3>1
    <3>3. Extends(seed, a[2].seed) \/ Extends(a[2].seed, seed)
      BY <1>6, <3>2, ExtendsFacts
    <3> QED
      BY <1>7, <2>3, <3>3
  <2>4. CASE a[1] \notin children /\ b[1] \notin children
    BY <1>7, <1>10, <2>4 DEF SeedsApart
  <2> QED
    BY <2>1, <2>2, <2>3, <2>4
<1> QED
  BY <1>9, <1>10 DEF SeedsApart

\* Every step keeps the seeds apart.
LEMMA SeedsStep ==
    ASSUME TypeOK, Structure, SeedsApart, [Next]_vars
    PROVE  SeedsApart'
<1>1. CASE Waning
  BY <1>1, KnownByWaning, SeedsKept DEF Waning
<1>2. ASSUME NEW d \in Denoms, NEW q \in 1 .. MaxMinted, NEW to \in Accounts,
             MintBatch(d, q, to)
      PROVE  SeedsApart'
  BY <1>2, SeedsByMint
<1>3. ASSUME NEW caller \in Accounts, NEW s \in Ids, NEW burnIds \in SUBSET Ids,
             Compose(caller, s, burnIds)
      PROVE  SeedsApart'
  <2>1. /\ s \in Live /\ shapes'[s].seed = shapes[s].seed
        /\ totalMinted' = totalMinted
    BY <1>3, ComposeShapes
  <2>2. ASSUME NEW a \in Known'
        PROVE  \E b \in Known : a[1] = b[1] /\ a[2].seed = b[2].seed
    <3>1. CASE a[1] # s
      BY <1>3, <3>1, KnownByCompose
    <3>2. CASE a[1] = s
      BY <1>3, <2>1, <3>2, SurvivorOfCompose, SnapshotSeed, KnownIntro
    <3> QED
      BY <3>1, <3>2
  <2> QED
    BY <2>1, <2>2, SeedsKept
<1>4. ASSUME NEW caller \in Accounts, NEW s \in Ids, NEW to \in Accounts,
             Decompose(caller, s, to)
      PROVE  SeedsApart'
  <2>1. /\ s \in Live /\ shapes'[s].seed = shapes[s].seed
        /\ totalMinted' = totalMinted
    <3>1. PICK rec : rec = Last(composeStack[s])
      OBVIOUS
    <3> QED
      BY <1>4, <3>1, DecomposeShapes
  <2>2. ASSUME NEW a \in Known'
        PROVE  \E b \in Known : a[1] = b[1] /\ a[2].seed = b[2].seed
    <3>1. CASE a[1] # s
      BY <1>4, <3>1, KnownByDecompose
    <3>2. CASE a[1] = s
      BY <1>4, <2>1, <3>2, SurvivorOfDecompose, SnapshotSeed, KnownIntro
    <3> QED
      BY <3>1, <3>2
  <2> QED
    BY <2>1, <2>2, SeedsKept
<1>5. ASSUME NEW caller \in Accounts, NEW i \in Ids, NEW out \in OutputLists,
             NEW to \in Accounts, Split(caller, i, out, to)
      PROVE  SeedsApart'
  BY <1>5, SeedsBySplit
<1> QED
  BY <1>1, <1>2, <1>3, <1>4, <1>5, ProvenanceKinds

\* The genesis token alone is known at construction.
LEMMA InitKnown ==
    ASSUME Init
    PROVE  /\ Places = {} /\ Live = {0}
           /\ \A a \in Known : a[1] = 0 /\ a[2].seed = <<0>>
<1>1. \A s \in Ids : composeStack[s] = <<>>
  BY DEF Init
<1>2. Places = {}
  BY <1>1 DEF Places
<1>3. Live = {0}
  BY ConstantTypes, AccountsAssumption, BoundsAssumption DEF Init, Live, Ids
<1>4. shapes[0].seed = <<0>>
  BY BoundsAssumption DEF Init, GenesisShape, Ids
<1>5. SnapshotOf(0).seed = <<0>>
  BY <1>4, SnapshotSeed
<1> QED
  BY <1>2, <1>3, <1>5, KnownElim

\* SeedsApart implies that no two tokens share a seed.
LEMMA ApartDistinct ==
    ASSUME TypeOK, SeedsApart
    PROVE  SeedsDistinct
<1> DEFINE seeds == {<<i, shapes[i].seed>> : i \in Live} \cup
               UNION {{<<i, RecordAt(p).inputs[i].seed>> : i \in HeldAt(p)} :
                          p \in Places}
<1>1. ASSUME NEW x \in seeds
      PROVE  /\ \E a \in Known : a[1] = x[1] /\ a[2].seed = x[2]
             /\ x = <<x[1], x[2]>>
  <2>1. ASSUME NEW i \in Live, x = <<i, shapes[i].seed>>
        PROVE  /\ \E a \in Known : a[1] = x[1] /\ a[2].seed = x[2]
               /\ x = <<x[1], x[2]>>
    BY <2>1, KnownIntro, SnapshotSeed
  <2>2. ASSUME NEW p \in Places, NEW i \in HeldAt(p),
               x = <<i, RecordAt(p).inputs[i].seed>>
        PROVE  /\ \E a \in Known : a[1] = x[1] /\ a[2].seed = x[2]
               /\ x = <<x[1], x[2]>>
    BY <2>2, KnownIntro
  <2> QED
    BY <2>1, <2>2
<1>2. ASSUME NEW x \in seeds, NEW y \in seeds, x[2] = y[2]
      PROVE  x = y
  <2>1. PICK a \in Known : a[1] = x[1] /\ a[2].seed = x[2]
    BY <1>1
  <2>2. PICK b \in Known : b[1] = y[1] /\ b[2].seed = y[2]
    BY <1>1
  <2>3. a[2].seed \in Seeds
    BY KnownTypes DEF ComposeInput
  <2>4. Extends(b[2].seed, a[2].seed)
    BY <1>2, <2>1, <2>2, <2>3, ExtendsFacts
  <2>5. a[1] = b[1]
    BY <2>4 DEF SeedsApart
  <2> QED
    BY <1>1, <1>2, <2>1, <2>2, <2>5
<1> QED
  BY <1>2 DEF SeedsDistinct

\* No two tokens, live or held by a record at any depth, ever share a seed, for
\* every ladder and every number of ids.
THEOREM SeedsAlwaysDistinct == Spec => []SeedsDistinct
<1>1. Init => SeedsApart
  <2> SUFFICES ASSUME Init PROVE SeedsApart
    OBVIOUS
  <2>1. totalMinted = 1
    BY DEF Init
  <2> QED
    BY <2>1, InitKnown DEF SeedsApart
<1>2. TypeOK /\ Structure /\ SeedsApart /\ [Next]_vars => SeedsApart'
  BY SeedsStep
<1>3. TypeOK /\ SeedsApart => SeedsDistinct
  BY ApartDistinct
<1> QED
  BY <1>1, <1>2, <1>3, StructureAlways, PTL DEF Spec

-----------------------------------------------------------------------------
(* Split references.                                                       *)

\* A fresh id is not an issued one.
LEMMA FreshNotIssued ==
    ASSUME TypeOK, NEW i \in Ids, totalMinted <= i
    PROVE  ~(i < totalMinted)
<1>1. totalMinted \in Nat /\ i \in Nat
  BY ConstantTypes DEF TypeOK
<1> QED
  BY <1>1

\* The counter of issued ids never falls.
LEMMA MintedGrows ==
    ASSUME TypeOK, Structure, [Next]_vars
    PROVE  totalMinted <= totalMinted'
<1>1. totalMinted \in Nat
  BY ConstantTypes DEF TypeOK
<1>2. CASE Waning
  BY <1>1, <1>2 DEF Waning
<1>3. ASSUME NEW d \in Denoms, NEW q \in 1 .. MaxMinted, NEW to \in Accounts,
             MintBatch(d, q, to)
      PROVE  totalMinted <= totalMinted'
  <2>1. PICK ids : ids = NextIds(q)
    OBVIOUS
  <2> QED
    BY <1>3, <2>1, MintShapes
<1>4. ASSUME NEW caller \in Accounts, NEW s \in Ids, NEW burnIds \in SUBSET Ids,
             Compose(caller, s, burnIds)
      PROVE  totalMinted <= totalMinted'
  BY <1>1, <1>4 DEF Compose
<1>5. ASSUME NEW caller \in Accounts, NEW s \in Ids, NEW to \in Accounts,
             Decompose(caller, s, to)
      PROVE  totalMinted <= totalMinted'
  BY <1>1, <1>5 DEF Decompose
<1>6. ASSUME NEW caller \in Accounts, NEW i \in Ids, NEW out \in OutputLists,
             NEW to \in Accounts, Split(caller, i, out, to)
      PROVE  totalMinted <= totalMinted'
  <2>1. PICK children : children = NextIds(Len(out))
    OBVIOUS
  <2> QED
    BY <1>6, <2>1, SplitShapesAndRefs
<1> QED
  BY <1>2, <1>3, <1>4, <1>5, <1>6, ProvenanceKinds

\* A token that is known after a step was known before, with the same seed, or
\* has a fresh id.
LEMMA KnownAfter ==
    ASSUME TypeOK, Structure, [Next]_vars, NEW a \in Known', a[1] < totalMinted
    PROVE  \E b \in Known : a[1] = b[1] /\ a[2].seed = b[2].seed
<1>1. CASE Waning
  BY <1>1, KnownByWaning
<1>2. ASSUME NEW d \in Denoms, NEW q \in 1 .. MaxMinted, NEW to \in Accounts,
             MintBatch(d, q, to)
      PROVE  a \in Known
  <2>1. PICK ids : ids = NextIds(q)
    OBVIOUS
  <2>2. /\ Exchange({}, ids, Live) /\ composeStack' = composeStack
        /\ \A i \in ids : totalMinted <= i
    BY <1>2, <2>1, MintShapes
  <2>3. a[1] \notin ids
    BY <2>2, FreshNotIssued DEF Exchange
  <2> QED
    BY <2>2, <2>3, KnownByExchange
<1>3. ASSUME NEW caller \in Accounts, NEW s \in Ids, NEW burnIds \in SUBSET Ids,
             Compose(caller, s, burnIds)
      PROVE  \E b \in Known : a[1] = b[1] /\ a[2].seed = b[2].seed
  <2>1. s \in Live /\ shapes'[s].seed = shapes[s].seed
    BY <1>3, ComposeShapes
  <2>2. CASE a[1] # s
    BY <1>3, <2>2, KnownByCompose
  <2>3. CASE a[1] = s
    BY <1>3, <2>1, <2>3, SurvivorOfCompose, SnapshotSeed, KnownIntro
  <2> QED
    BY <2>2, <2>3
<1>4. ASSUME NEW caller \in Accounts, NEW s \in Ids, NEW to \in Accounts,
             Decompose(caller, s, to)
      PROVE  \E b \in Known : a[1] = b[1] /\ a[2].seed = b[2].seed
  <2>1. PICK rec : rec = Last(composeStack[s])
    OBVIOUS
  <2>2. s \in Live /\ shapes'[s].seed = shapes[s].seed
    BY <1>4, <2>1, DecomposeShapes
  <2>3. CASE a[1] # s
    BY <1>4, <2>3, KnownByDecompose
  <2>4. CASE a[1] = s
    BY <1>4, <2>2, <2>4, SurvivorOfDecompose, SnapshotSeed, KnownIntro
  <2> QED
    BY <2>3, <2>4
<1>5. ASSUME NEW caller \in Accounts, NEW i \in Ids, NEW out \in OutputLists,
             NEW to \in Accounts, Split(caller, i, out, to)
      PROVE  a \in Known
  <2>1. PICK children : children = NextIds(Len(out))
    OBVIOUS
  <2>2. /\ Exchange({i}, children, Live \ {i}) /\ composeStack' = composeStack
        /\ \A c \in children : totalMinted <= c
    BY <1>5, <2>1, SplitShapesAndRefs
  <2>3. a[1] \notin children
    BY <2>2, FreshNotIssued DEF Exchange
  <2> QED
    BY <2>2, <2>3, KnownByExchange
<1> QED
  BY <1>1, <1>2, <1>3, <1>4, <1>5, ProvenanceKinds

\* An id that was issued and is neither live nor held by a record.
Gone(i) == i < totalMinted /\ \A a \in Known : a[1] # i

\* Such an id stays gone, and so does what its stack held.
LEMMA GoneStays ==
    ASSUME TypeOK, Structure, [Next]_vars, NEW i \in Ids, Gone(i)
    PROVE  Gone(i)' /\ composeStack'[i] = composeStack[i]
<1>1. i \notin Live /\ i < totalMinted
  <2>1. i \in Live => /\ <<i, SnapshotOf(i)>>[1] = i
                      /\ <<i, SnapshotOf(i)>> \in Known
    BY KnownIntro
  <2> QED
    BY <2>1 DEF Gone
<1>2. composeStack'[i] = composeStack[i]
  <2>1. CASE Waning
    BY <2>1 DEF Waning
  <2>2. ASSUME NEW d \in Denoms, NEW q \in 1 .. MaxMinted, NEW to \in Accounts,
               MintBatch(d, q, to)
        PROVE  composeStack' = composeStack
    BY <2>2 DEF MintBatch
  <2>3. ASSUME NEW caller \in Accounts, NEW s \in Ids,
               NEW burnIds \in SUBSET Ids, Compose(caller, s, burnIds)
        PROVE  composeStack'[i] = composeStack[i]
    <3>1. PICK n, new, rec : /\ n = Len(composeStack[s]) + 1
                             /\ new = <<s, n>>
                             /\ rec = RecordOf(s, burnIds)
      OBVIOUS
    <3>2. s \in Live
      BY <2>3, ComposeShapes
    <3>3. \A j \in Ids \ {s} : composeStack'[j] = composeStack[j]
      BY <2>3, <3>1, ComposePlaces
    <3> QED
      BY <1>1, <3>2, <3>3
  <2>4. ASSUME NEW caller \in Accounts, NEW s \in Ids, NEW to \in Accounts,
               Decompose(caller, s, to)
        PROVE  composeStack'[i] = composeStack[i]
    <3>1. PICK n, old, rec : /\ n = Len(composeStack[s])
                             /\ old = <<s, n>>
                             /\ rec = Last(composeStack[s])
      OBVIOUS
    <3>2. s \in Live
      BY <2>4, <3>1, DecomposeShapes
    <3>3. \A j \in Ids \ {s} : composeStack'[j] = composeStack[j]
      BY <2>4, <3>1, DecomposePlaces
    <3> QED
      BY <1>1, <3>2, <3>3
  <2>5. ASSUME NEW caller \in Accounts, NEW j \in Ids, NEW out \in OutputLists,
               NEW to \in Accounts, Split(caller, j, out, to)
        PROVE  composeStack' = composeStack
    BY <2>5 DEF Split
  <2> QED
    BY <2>1, <2>2, <2>3, <2>4, <2>5, ProvenanceKinds
<1>3. ASSUME NEW a \in Known', a[1] = i
      PROVE  FALSE
  BY <1>1, <1>3, KnownAfter DEF Gone
<1>4. i < totalMinted'
  <2>1. totalMinted \in Nat /\ totalMinted' \in Nat /\ i \in Nat
    BY ConstantTypes, NextType DEF TypeOK
  <2> QED
    BY <1>1, <2>1, MintedGrows
<1> QED
  BY <1>2, <1>3, <1>4 DEF Gone

\* The record that the split reference of c points to.
RecordOfRef(c) == splitRecords[splitOriginRef[c].recordIndex + 1]

\* Where a split child comes from, and what its record says of it: the token, as
\* long as it is known, extends the seed of a parent that is gone, and the
\* record carries the denomination of the first split in the line.
Lineal(c) ==
    /\ c < totalMinted
    /\ RecordOfRef(c).parentId \in Ids
    /\ Gone(RecordOfRef(c).parentId)
    /\ \A a \in Known : a[1] = c =>
          a[2].seed = Append(RecordOfRef(c).parentSeed,
                             splitOriginRef[c].childIndex)
    /\ RecordOfRef(c).originDenom =
          IF splitOriginRef[RecordOfRef(c).parentId].exists
          THEN RecordOfRef(RecordOfRef(c).parentId).originDenom
          ELSE RecordOfRef(c).parentDenom

Lineage == \A c \in Ids : splitOriginRef[c].exists => Lineal(c)

\* References of issued ids, and the records they point to, never change, and
\* only a split adds any.
LEMMA RefsSettled ==
    ASSUME TypeOK, Structure, [Next]_vars
    PROVE  /\ \A c \in Ids : c < totalMinted =>
                 /\ splitOriginRef'[c] = splitOriginRef[c]
                 /\ splitOriginRef[c].exists => RecordOfRef(c)' = RecordOfRef(c)
           /\ \/ splitOriginRef' = splitOriginRef
              \/ \E caller \in Accounts, i \in Ids, out \in OutputLists,
                    to \in Accounts : Split(caller, i, out, to)
<1>1. CASE Waning
  BY <1>1 DEF Waning, RecordOfRef
<1>2. ASSUME NEW d \in Denoms, NEW q \in 1 .. MaxMinted, NEW to \in Accounts,
             MintBatch(d, q, to)
      PROVE  UNCHANGED <<splitRecords, splitOriginRef>>
  BY <1>2 DEF MintBatch
<1>3. ASSUME NEW caller \in Accounts, NEW s \in Ids, NEW burnIds \in SUBSET Ids,
             Compose(caller, s, burnIds)
      PROVE  UNCHANGED <<splitRecords, splitOriginRef>>
  BY <1>3 DEF Compose
<1>4. ASSUME NEW caller \in Accounts, NEW s \in Ids, NEW to \in Accounts,
             Decompose(caller, s, to)
      PROVE  UNCHANGED <<splitRecords, splitOriginRef>>
  BY <1>4 DEF Decompose
<1>5. ASSUME NEW caller \in Accounts, NEW i \in Ids, NEW out \in OutputLists,
             NEW to \in Accounts, Split(caller, i, out, to),
             NEW c \in Ids, c < totalMinted
      PROVE  /\ splitOriginRef'[c] = splitOriginRef[c]
             /\ splitOriginRef[c].exists => RecordOfRef(c)' = RecordOfRef(c)
  <2>1. PICK children : children = NextIds(Len(out))
    OBVIOUS
  <2>2. /\ \A x \in children : totalMinted <= x
        /\ \A x \in Ids : x \notin children =>
              splitOriginRef'[x] = splitOriginRef[x]
        /\ splitRecords' = Append(splitRecords, SplitRecordOf(i))
        /\ children \subseteq Ids
    BY <1>5, <2>1, SplitShapesAndRefs DEF Exchange
  <2>3. splitOriginRef'[c] = splitOriginRef[c]
    BY <1>5, <2>2, FreshNotIssued
  <2>4. PICK x : x = splitOriginRef[c]
    OBVIOUS
  <2>5. x \in SplitOriginRef /\ (x.exists => x.recordIndex < Len(splitRecords))
    BY <2>4 DEF TypeOK
  <2>6. splitRecords \in Seq(SplitRecord) /\ x.recordIndex \in Nat
    BY <2>5 DEF TypeOK, SplitOriginRef
  <2>7. ASSUME x.exists
        PROVE  splitRecords'[x.recordIndex + 1]
                   = splitRecords[x.recordIndex + 1]
    <3>1. x.recordIndex + 1 \in 1 .. Len(splitRecords)
      BY <2>5, <2>6, <2>7
    <3> QED
      BY <2>2, <2>6, <3>1
  <2> QED
    BY <2>3, <2>4, <2>7 DEF RecordOfRef
<1>6. ASSUME UNCHANGED <<splitRecords, splitOriginRef>>
      PROVE  /\ splitOriginRef' = splitOriginRef
             /\ \A c \in Ids : RecordOfRef(c)' = RecordOfRef(c)
  BY <1>6 DEF RecordOfRef
<1> QED
  BY <1>1, <1>2, <1>3, <1>4, <1>5, <1>6, ProvenanceKinds

\* A split child has the lineage its record tells from the start.
LEMMA LinealByBirth ==
    ASSUME TypeOK, Structure, NEW caller \in Accounts, NEW i \in Ids,
           NEW out \in OutputLists, NEW to \in Accounts,
           Split(caller, i, out, to), NEW c \in NextIds(Len(out))
    PROVE  Lineal(c)' /\ c \in Ids
<1>1. PICK children, k : children = NextIds(Len(out)) /\ k = c - totalMinted
  OBVIOUS
<1>2. /\ i \in Live
      /\ Exchange({i}, children, Live \ {i})
      /\ \A x \in children : /\ shapes'[x] = ChildShape(i, out, x)
                             /\ totalMinted <= x /\ x < totalMinted'
      /\ splitRecords' = Append(splitRecords, SplitRecordOf(i))
      /\ totalMinted <= totalMinted'
      /\ composeStack' = composeStack
  BY <1>1, SplitShapesAndRefs
<1>3. /\ splitOriginRef'[c] = ChildRef(c)
      /\ i \notin children => splitOriginRef'[i] = splitOriginRef[i]
  <2>1. \A x \in Ids : splitOriginRef'[x] = IF x \in children THEN ChildRef(x)
                                            ELSE splitOriginRef[x]
    BY <1>1 DEF Split
  <2>2. c \in children /\ c \in Ids
    BY <1>1, <1>2 DEF Exchange
  <2> QED
    BY <2>1, <2>2
<1>4. /\ c \in children /\ i < totalMinted
      /\ c \in Ids /\ ~(c < totalMinted) /\ c < totalMinted'
      /\ i \notin children
  <2>1. c \in children /\ c \in Ids
    BY <1>1, <1>2 DEF Exchange
  <2>2. i < totalMinted
    BY <1>2, StructureFacts
  <2>3. \A x \in children : x \in Ids /\ ~(x < totalMinted)
    BY <1>2, FreshNotIssued DEF Exchange
  <2> QED
    BY <1>2, <2>1, <2>2, <2>3
<1>5. PICK m, rec : m = Len(splitRecords) /\ rec = SplitRecordOf(i)
  OBVIOUS
<1>6. m \in Nat /\ splitRecords'[m + 1] = rec
  BY <1>2, <1>5 DEF TypeOK
<1>7. splitOriginRef'[c]
          = [exists |-> TRUE, recordIndex |-> m, childIndex |-> k]
  BY <1>1, <1>3, <1>5 DEF ChildRef
<1>8. RecordOfRef(c)' = rec
  BY <1>6, <1>7 DEF RecordOfRef
<1>9. /\ rec.parentId = i /\ rec.parentSeed = shapes[i].seed
      /\ rec.parentDenom = shapes[i].denom /\ rec.originDenom = OriginDenom(i)
  BY <1>5 DEF SplitRecordOf
<1>10. Gone(i)'
  <2>1. ASSUME NEW a \in Known', a[1] = i
        PROVE  FALSE
    BY <1>2, <1>4, <2>1, KnownByExchange
  <2>2. totalMinted \in Nat /\ i \in Nat
    BY ConstantTypes DEF TypeOK
  <2>3. i < totalMinted'
    <3>1. totalMinted' = totalMinted + Len(out) /\ Len(out) \in Nat
      BY ConstantTypes DEF Split, OutputLists
    <3> QED
      BY <1>4, <2>2, <3>1
  <2> QED
    BY <2>1, <2>3 DEF Gone
<1>11. ASSUME NEW a \in Known', a[1] = c
      PROVE  a[2].seed = Append(rec.parentSeed, k)
  <2>1. \A p \in Places' : c \notin HeldAt(p)'
    <3>1. \A p \in Places : c \notin HeldAt(p)
      BY <1>4, StructureFacts
    <3> QED
      BY <1>2, <3>1, SamePlaces
  <2>2. a[2] = SnapshotOf(c)'
    BY <1>11, <2>1, KnownElimAfter
  <2>3. shapes'[c].seed = Append(rec.parentSeed, k)
    <3>1. shapes'[c] = ChildShape(i, out, c)
      BY <1>2, <1>4
    <3> QED
      BY <1>1, <1>9, <3>1 DEF ChildShape
  <2> QED
    BY <2>2, <2>3, SnapshotSeed
<1>12. rec.originDenom = IF splitOriginRef'[i].exists
                         THEN RecordOfRef(i)'.originDenom
                         ELSE rec.parentDenom
  <2>1. splitOriginRef'[i] = splitOriginRef[i]
    BY <1>3, <1>4
  <2>2. PICK x : x = splitOriginRef[i]
    OBVIOUS
  <2>3. x \in SplitOriginRef /\ (x.exists => x.recordIndex < Len(splitRecords))
    BY <2>2 DEF TypeOK
  <2>4. splitRecords \in Seq(SplitRecord) /\ x.recordIndex \in Nat
    BY <2>3 DEF TypeOK, SplitOriginRef
  <2>5. CASE x.exists
    <3>1. x.recordIndex + 1 \in 1 .. Len(splitRecords)
      BY <2>3, <2>4, <2>5
    <3>2. splitRecords'[x.recordIndex + 1] = splitRecords[x.recordIndex + 1]
      BY <1>2, <2>4, <3>1
    <3>3. RecordOfRef(i)' = splitRecords[x.recordIndex + 1]
      BY <2>1, <2>2, <3>2 DEF RecordOfRef
    <3> QED
      BY <1>9, <2>1, <2>2, <2>5, <3>3 DEF OriginDenom
  <2>6. CASE ~x.exists
    BY <1>9, <2>1, <2>2, <2>6 DEF OriginDenom
  <2> QED
    BY <2>5, <2>6
<1> QED
  BY <1>4, <1>7, <1>8, <1>9, <1>10, <1>11, <1>12 DEF Lineal

\* A token keeps its lineage.
LEMMA LinealStays ==
    ASSUME TypeOK, Structure, [Next]_vars, NEW c \in Ids,
           splitOriginRef[c].exists, Lineal(c)
    PROVE  Lineal(c)'
<1>1. PICK rec, i : rec = RecordOfRef(c) /\ i = rec.parentId
  OBVIOUS
<1>2. /\ c < totalMinted /\ i \in Ids /\ Gone(i) /\ i < totalMinted
      /\ \A a \in Known : a[1] = c =>
            a[2].seed = Append(rec.parentSeed, splitOriginRef[c].childIndex)
      /\ rec.originDenom = IF splitOriginRef[i].exists
                           THEN RecordOfRef(i).originDenom ELSE rec.parentDenom
  BY <1>1 DEF Lineal, Gone
<1>3. /\ splitOriginRef'[c] = splitOriginRef[c] /\ RecordOfRef(c)' = rec
      /\ splitOriginRef'[i] = splitOriginRef[i]
      /\ splitOriginRef[i].exists => RecordOfRef(i)' = RecordOfRef(i)
  BY <1>1, <1>2, RefsSettled
<1>4. Gone(i)'
  BY <1>2, GoneStays
<1>5. c < totalMinted'
  <2>1. totalMinted \in Nat /\ totalMinted' \in Nat /\ c \in Nat /\ i \in Nat
    BY <1>2, ConstantTypes, NextType DEF TypeOK
  <2>2. totalMinted <= totalMinted'
    BY MintedGrows
  <2> QED
    BY <1>2, <2>1, <2>2
<1>6. ASSUME NEW a \in Known', a[1] = c
      PROVE  a[2].seed = Append(rec.parentSeed, splitOriginRef[c].childIndex)
  BY <1>2, <1>6, KnownAfter
<1>7. rec.originDenom = IF splitOriginRef'[i].exists
                        THEN RecordOfRef(i)'.originDenom ELSE rec.parentDenom
  BY <1>2, <1>3
<1> QED
  BY <1>1, <1>2, <1>3, <1>4, <1>5, <1>6, <1>7 DEF Lineal

\* Every step keeps every lineage.
LEMMA LineageStep ==
    ASSUME TypeOK, Structure, Lineage, [Next]_vars
    PROVE  Lineage'
<1> SUFFICES ASSUME NEW c \in Ids, splitOriginRef'[c].exists
             PROVE  Lineal(c)'
  BY DEF Lineage
<1>1. CASE splitOriginRef[c].exists
  BY <1>1, LinealStays DEF Lineage
<1>2. ASSUME ~splitOriginRef[c].exists,
             NEW caller \in Accounts, NEW i \in Ids, NEW out \in OutputLists,
             NEW to \in Accounts, Split(caller, i, out, to)
      PROVE  Lineal(c)'
  <2>1. PICK children : children = NextIds(Len(out))
    OBVIOUS
  <2>2. c \in children
    <3>1. \A x \in Ids : x \notin children =>
              splitOriginRef'[x] = splitOriginRef[x]
      BY <1>2, <2>1, SplitShapesAndRefs
    <3> QED
      BY <1>2, <3>1
  <2> QED
    BY <1>2, <2>1, <2>2, LinealByBirth
<1> QED
  BY <1>1, <1>2, RefsSettled

\* The lineage says what SplitProvenance says of live and of held tokens.
LEMMA LineageShows ==
    ASSUME TypeOK, Lineage
    PROVE  SplitProvenance
<1> SUFFICES ASSUME NEW c \in Ids, splitOriginRef[c].exists,
                    NEW rec, rec = RecordOfRef(c),
                    NEW childSeed,
                    childSeed = Append(rec.parentSeed,
                                       splitOriginRef[c].childIndex)
             PROVE  /\ IsLive(c) => shapes[c].seed = childSeed
                    /\ \A p \in Places : c \in HeldAt(p) =>
                           RecordAt(p).inputs[c].seed = childSeed
                    /\ ~IsLive(rec.parentId) /\ rec.parentId \notin HeldIds
                    /\ rec.originDenom =
                          IF splitOriginRef[rec.parentId].exists
                          THEN RecordOfRef(rec.parentId).originDenom
                          ELSE rec.parentDenom
  BY DEF SplitProvenance, RecordOfRef
<1>1. Lineal(c)
  BY DEF Lineage
<1>2. /\ \A a \in Known : a[1] = c => a[2].seed = childSeed
      /\ rec.parentId \in Ids
      /\ \A a \in Known : a[1] # rec.parentId
  BY <1>1 DEF Lineal, Gone
<1>3. ASSUME c \in Live PROVE shapes[c].seed = childSeed
  <2>1. /\ <<c, SnapshotOf(c)>> \in Known /\ <<c, SnapshotOf(c)>>[1] = c
        /\ <<c, SnapshotOf(c)>>[2].seed = shapes[c].seed
    BY <1>3, KnownIntro, SnapshotSeed
  <2> QED
    BY <1>2, <2>1
<1>4. ASSUME NEW p \in Places, c \in HeldAt(p)
      PROVE  RecordAt(p).inputs[c].seed = childSeed
  <2>1. PICK x : x = RecordAt(p).inputs[c]
    OBVIOUS
  <2>2. <<c, x>> \in Known
    BY <1>4, <2>1, KnownIntro
  <2> QED
    BY <1>2, <2>1, <2>2
<1>5. rec.parentId \notin Live
  BY <1>2, KnownIntro
<1>6. rec.parentId \notin HeldIds
  <2>1. ASSUME NEW p \in Places, rec.parentId \in HeldAt(p)
        PROVE  FALSE
    BY <1>2, <2>1, KnownIntro
  <2> QED
    BY <2>1 DEF HeldIds
<1> QED
  BY <1>1, <1>2, <1>3, <1>4, <1>5, <1>6, LiveMembers DEF Lineal

\* Nothing has been split at construction.
LEMMA InitLineage ==
    ASSUME Init
    PROVE  Lineage
BY DEF Init, Lineage, NoRef

\* Every split reference tells the truth at all times: the child extends its
\* parent's recorded seed, the parent is gone for good, and the recorded origin
\* is that of the first split in the line.
THEOREM SplitAlwaysProven == Spec => []SplitProvenance
<1>1. Init => Lineage
  BY InitLineage
<1>2. TypeOK /\ Structure /\ Lineage /\ [Next]_vars => Lineage'
  BY LineageStep
<1>3. TypeOK /\ Lineage => SplitProvenance
  BY LineageShows
<1> QED
  BY <1>1, <1>2, <1>3, StructureAlways, PTL DEF Spec

-----------------------------------------------------------------------------
(* Art.                                                                    *)

\* The art that the split record of c gives it at denomination d.
Born(c, d, art) ==
    art = SplitArt[<<RecordOfRef(c).parentArt,
                     SplitPool(RecordOfRef(c).parentId), d,
                     splitOriginRef[c].childIndex>>]

\* The art of the newest state of c, as it is known.
ArtAbove(c) ==
    composeStack[c] # <<>> =>
        \A a \in Known : a[1] = c =>
            a[2].art = Resampled(Last(composeStack[c]), a[2].denom)

\* The art that each record of c's stack found when it was taken.
ArtBelow(c) ==
    \A k \in 1 .. Len(composeStack[c]) - 1 :
        composeStack[c][k + 1].art
            = Resampled(composeStack[c][k], composeStack[c][k + 1].denom)

\* The art c was born with, when a split made it: in its oldest record once it
\* has been composed, in the token itself before that.
ArtBorn(c) ==
    splitOriginRef[c].exists =>
        IF composeStack[c] = <<>>
        THEN \A a \in Known : a[1] = c => Born(c, a[2].denom, a[2].art)
        ELSE Born(c, composeStack[c][1].denom, composeStack[c][1].art)

ArtLineage == \A c \in Ids : ArtAbove(c) /\ ArtBelow(c) /\ ArtBorn(c)

\* What a split record says of the art of its children never changes.
LEMMA BirthSettled ==
    ASSUME TypeOK, Structure, Lineage, [Next]_vars, NEW c \in Ids,
           splitOriginRef[c].exists
    PROVE  \A d, art : Born(c, d, art)' <=> Born(c, d, art)
<1>1. PICK rec, i : rec = RecordOfRef(c) /\ i = rec.parentId
  OBVIOUS
<1>2. c < totalMinted /\ i \in Ids /\ Gone(i)
  BY <1>1 DEF Lineage, Lineal
<1>3. splitOriginRef'[c] = splitOriginRef[c] /\ RecordOfRef(c)' = rec
  BY <1>1, <1>2, RefsSettled
<1>4. SplitPool(i)' = SplitPool(i)
  BY <1>2, GoneStays DEF SplitPool
<1> QED
  BY <1>1, <1>3, <1>4 DEF Born

\* A step that disturbs nothing the art lineage of c rests on: its stack, the
\* state it shows and its split reference.
Untouched(c) ==
    /\ composeStack'[c] = composeStack[c]
    /\ splitOriginRef'[c] = splitOriginRef[c]
    /\ \A a \in Known' : a[1] = c => a \in Known

\* Such a step keeps the art lineage of c.
LEMMA ArtUntouched ==
    ASSUME TypeOK, Structure, Lineage, ArtLineage, [Next]_vars, NEW c \in Ids,
           Untouched(c)
    PROVE  ArtAbove(c)' /\ ArtBelow(c)' /\ ArtBorn(c)'
<1>1. PICK stack : stack = composeStack[c]
  OBVIOUS
<1>2. /\ composeStack'[c] = stack
      /\ splitOriginRef'[c] = splitOriginRef[c]
      /\ \A a \in Known' : a[1] = c => a \in Known
  BY <1>1 DEF Untouched
<1>3. ArtAbove(c) /\ ArtBelow(c) /\ ArtBorn(c)
  BY DEF ArtLineage
<1>4. ArtAbove(c)'
  <2>1. ASSUME stack # <<>>, NEW a \in Known', a[1] = c
        PROVE  a[2].art = Resampled(Last(stack), a[2].denom)
    BY <1>1, <1>2, <1>3, <2>1 DEF ArtAbove
  <2> QED
    BY <1>2, <2>1 DEF ArtAbove, Last, Resampled
<1>5. ArtBelow(c)'
  BY <1>1, <1>2, <1>3 DEF ArtBelow, Resampled
<1>6. ArtBorn(c)'
  <2>1. ASSUME splitOriginRef[c].exists
        PROVE  \A d, art : Born(c, d, art)' <=> Born(c, d, art)
    BY <2>1, BirthSettled
  <2>2. ASSUME splitOriginRef[c].exists, stack = <<>>,
               NEW a \in Known', a[1] = c
        PROVE  Born(c, a[2].denom, a[2].art)'
    BY <1>1, <1>2, <1>3, <2>1, <2>2 DEF ArtBorn
  <2>3. ASSUME splitOriginRef[c].exists, stack # <<>>
        PROVE  Born(c, stack[1].denom, stack[1].art)'
    BY <1>1, <1>3, <2>1, <2>3 DEF ArtBorn
  <2> QED
    BY <1>2, <2>2, <2>3 DEF ArtBorn
<1> QED
  BY <1>4, <1>5, <1>6

\* A fresh id has no record and no split reference.
LEMMA FreshIsClean ==
    ASSUME TypeOK, Structure, Lineage, NEW c \in Ids, totalMinted <= c
    PROVE  composeStack[c] = <<>> /\ ~splitOriginRef[c].exists
<1>1. composeStack[c] = <<>>
  <2>1. totalMinted \in Nat /\ c \in Nat
    BY ConstantTypes DEF TypeOK
  <2>2. c >= totalMinted
    BY <2>1
  <2> QED
    BY <2>2 DEF Structure, FreshIdsHaveNoRecords
<1>2. ~(c < totalMinted)
  BY FreshNotIssued
<1> QED
  BY <1>1, <1>2 DEF Lineage, Lineal

\* The survivor of a compose: its new art is sampled from the record, and the
\* record keeps the art that the stack below it explains.
LEMMA ArtByCompose ==
    ASSUME TypeOK, Structure, Lineage, ArtLineage, [Next]_vars,
           NEW caller \in Accounts, NEW s \in Ids, NEW burnIds \in SUBSET Ids,
           Compose(caller, s, burnIds)
    PROVE  ArtAbove(s)' /\ ArtBelow(s)' /\ ArtBorn(s)'
<1>1. PICK stack, m, n, new, rec : /\ stack = composeStack[s]
                                   /\ m = Len(stack)
                                   /\ n = Len(composeStack[s]) + 1
                                   /\ new = <<s, n>>
                                   /\ rec = RecordOf(s, burnIds)
  OBVIOUS
<1>2. /\ stack \in Seq(ComposeRecord) /\ m \in Nat /\ n = m + 1
  BY <1>1 DEF TypeOK
<1>3. /\ s \in Live
      /\ shapes'[s].art = Resampled(RecordOf(s, burnIds), shapes'[s].denom)
      /\ splitOriginRef' = splitOriginRef
  BY ComposeShapes
<1>4. composeStack'[s] = Append(stack, rec)
  BY <1>1, ComposePlaces
<1>5. PICK top : top = Append(stack, rec)
  OBVIOUS
<1>6. /\ Len(top) = n /\ top # <<>> /\ top[n] = rec /\ Last(top) = rec
      /\ \A k \in 1 .. m : top[k] = stack[k]
      /\ composeStack'[s] = top
  <2>1. rec \in ComposeRecord
    BY <1>1, RecordType
  <2>2. /\ Len(top) = n /\ top # <<>> /\ top[n] = rec
        /\ \A k \in 1 .. m : top[k] = stack[k]
    BY <1>1, <1>2, <1>5, <2>1
  <2> QED
    BY <1>4, <1>5, <2>2 DEF Last
<1>7. /\ rec.art = shapes[s].art /\ rec.denom = shapes[s].denom
  BY <1>1 DEF RecordOf
<1>8. PICK a : a = <<s, SnapshotOf(s)>>
  OBVIOUS
<1>9. /\ a \in Known /\ a[1] = s
      /\ a[2].art = rec.art /\ a[2].denom = rec.denom
  BY <1>3, <1>7, <1>8, KnownIntro DEF SnapshotOf
<1>10. /\ stack # <<>> => rec.art = Resampled(Last(stack), rec.denom)
       /\ \A k \in 1 .. m - 1 :
             stack[k + 1].art = Resampled(stack[k], stack[k + 1].denom)
  BY <1>1, <1>9 DEF ArtLineage, ArtAbove, ArtBelow
<1>11. ASSUME NEW b \in Known', b[1] = s
       PROVE  b[2].art = Resampled(rec, b[2].denom)
  <2>1. b[2] = SnapshotOf(s)'
    BY <1>11, SurvivorOfCompose
  <2>2. b[2].art = shapes'[s].art /\ b[2].denom = shapes'[s].denom
    BY <2>1 DEF SnapshotOf
  <2> QED
    BY <1>1, <1>3, <2>2
<1>12. ArtAbove(s)'
  <2>1. \A b \in Known' : b[1] = s =>
            b[2].art = Resampled(Last(top), b[2].denom)
    BY <1>6, <1>11
  <2> QED
    BY <1>4, <1>5, <2>1 DEF ArtAbove, Resampled, Last
<1>13. ArtBelow(s)'
  <2>1. ASSUME NEW k \in 1 .. n - 1
        PROVE  top[k + 1].art = Resampled(top[k], top[k + 1].denom)
    <3>1. k \in 1 .. m /\ top[k] = stack[k]
      BY <1>2, <1>6
    <3>2. CASE k = m
      <4>1. stack # <<>> /\ Last(stack) = stack[k]
        BY <1>1, <1>2, <3>1, <3>2 DEF Last
      <4>2. top[k + 1] = rec
        BY <1>2, <1>6, <3>2
      <4> QED
        BY <1>10, <3>1, <4>1, <4>2
    <3>3. CASE k # m
      <4>1. k \in 1 .. m - 1 /\ k + 1 \in 1 .. m
        BY <1>2, <3>1, <3>3
      <4> QED
        BY <1>6, <1>10, <3>1, <4>1
    <3> QED
      BY <3>2, <3>3
  <2> QED
    BY <1>6, <2>1 DEF ArtBelow, Resampled
<1>14. ArtBorn(s)'
  <2>1. ASSUME splitOriginRef[s].exists
        PROVE  Born(s, top[1].denom, top[1].art)
    <3>1. ArtBorn(s)
      BY DEF ArtLineage
    <3>2. CASE stack = <<>>
      <4>1. top[1] = rec
        BY <1>1, <1>2, <1>6, <3>2
      <4> QED
        BY <1>1, <1>9, <2>1, <3>1, <3>2, <4>1 DEF ArtBorn
    <3>3. CASE stack # <<>>
      <4>1. top[1] = stack[1]
        BY <1>1, <1>2, <1>6, <3>3
      <4> QED
        BY <1>1, <2>1, <3>1, <3>3, <4>1 DEF ArtBorn
    <3> QED
      BY <3>2, <3>3
  <2>2. ASSUME splitOriginRef[s].exists
        PROVE  Born(s, top[1].denom, top[1].art)'
    <3>1. \A d, art : Born(s, d, art)' <=> Born(s, d, art)
      BY <2>2, BirthSettled
    <3> QED
      BY <2>1, <2>2, <3>1
  <2> QED
    BY <1>3, <1>4, <1>5, <1>6, <2>2 DEF ArtBorn
<1> QED
  BY <1>12, <1>13, <1>14

\* The survivor of a decompose shows the art that its newest record kept, which
\* the record below explains or, when there is none, its birth.
LEMMA ArtByDecompose ==
    ASSUME TypeOK, Structure, Lineage, ArtLineage, [Next]_vars,
           NEW caller \in Accounts, NEW s \in Ids, NEW to \in Accounts,
           Decompose(caller, s, to)
    PROVE  ArtAbove(s)' /\ ArtBelow(s)' /\ ArtBorn(s)'
<1>1. PICK stack, n, old, rec : /\ stack = composeStack[s]
                                /\ n = Len(composeStack[s])
                                /\ old = <<s, n>>
                                /\ rec = Last(composeStack[s])
  OBVIOUS
<1>2. /\ stack # <<>>
      /\ shapes'[s].art = rec.art /\ shapes'[s].denom = rec.denom
      /\ splitOriginRef' = splitOriginRef
  BY <1>1, DecomposeShapes
<1>3. /\ stack \in Seq(ComposeRecord) /\ n \in Nat \ {0} /\ rec = stack[n]
      /\ Len(stack) = n
  BY <1>1, <1>2 DEF TypeOK, Last
<1>4. composeStack'[s] = Front(stack)
  BY <1>1, DecomposePlaces
<1>5. PICK rest : rest = Front(stack)
  OBVIOUS
<1>6. /\ Len(rest) = n - 1 /\ (rest = <<>> <=> n = 1)
      /\ \A k \in 1 .. n - 1 : rest[k] = stack[k]
  BY <1>3, <1>5 DEF Front
<1>7. \A k \in 1 .. n - 1 :
          stack[k + 1].art = Resampled(stack[k], stack[k + 1].denom)
  BY <1>1 DEF ArtLineage, ArtBelow
<1>8. ASSUME NEW b \in Known', b[1] = s
      PROVE  b[2].art = rec.art /\ b[2].denom = rec.denom
  <2>1. b[2] = SnapshotOf(s)'
    BY <1>8, SurvivorOfDecompose
  <2> QED
    BY <1>2, <2>1 DEF SnapshotOf
<1>9. ArtAbove(s)'
  <2>1. ASSUME rest # <<>>
        PROVE  rec.art = Resampled(Last(rest), rec.denom)
    <3>1. /\ n - 1 \in 1 .. n - 1 /\ Last(rest) = stack[n - 1]
          /\ rec = stack[(n - 1) + 1]
      BY <1>3, <1>6, <2>1 DEF Last
    <3> QED
      BY <1>7, <3>1
  <2>2. ASSUME rest # <<>>, NEW b \in Known', b[1] = s
        PROVE  b[2].art = Resampled(Last(rest), b[2].denom)
    BY <1>8, <2>1, <2>2
  <2> QED
    BY <1>4, <1>5, <2>2 DEF ArtAbove, Resampled, Last
<1>10. ArtBelow(s)'
  <2>1. ASSUME NEW k \in 1 .. (n - 1) - 1
        PROVE  rest[k + 1].art = Resampled(rest[k], rest[k + 1].denom)
    <3>1. k \in 1 .. n - 1 /\ k + 1 \in 1 .. n - 1
      BY <1>3
    <3> QED
      BY <1>6, <1>7, <3>1
  <2> QED
    BY <1>4, <1>5, <1>6, <2>1 DEF ArtBelow, Resampled
<1>11. ArtBorn(s)'
  <2>1. ASSUME splitOriginRef[s].exists
        PROVE  \A d, art : Born(s, d, art)' <=> Born(s, d, art)
    BY <2>1, BirthSettled
  <2>2. ASSUME splitOriginRef[s].exists
        PROVE  Born(s, stack[1].denom, stack[1].art)
    BY <1>1, <1>2, <2>2 DEF ArtLineage, ArtBorn
  <2>3. ASSUME splitOriginRef[s].exists, rest = <<>>, NEW b \in Known', b[1] = s
        PROVE  Born(s, b[2].denom, b[2].art)'
    <3>1. rec = stack[1]
      BY <1>3, <1>6, <2>3
    <3> QED
      BY <1>8, <2>1, <2>2, <2>3, <3>1
  <2>4. ASSUME splitOriginRef[s].exists, rest # <<>>
        PROVE  Born(s, rest[1].denom, rest[1].art)'
    <3>1. rest[1] = stack[1]
      BY <1>3, <1>6, <2>4
    <3> QED
      BY <2>1, <2>2, <2>4, <3>1
  <2> QED
    BY <1>2, <1>4, <1>5, <2>3, <2>4 DEF ArtBorn
<1> QED
  BY <1>9, <1>10, <1>11

\* A split child shows the art its record explains.
LEMMA ArtByBirth ==
    ASSUME TypeOK, Structure, Lineage, NEW caller \in Accounts, NEW i \in Ids,
           NEW out \in OutputLists, NEW to \in Accounts,
           Split(caller, i, out, to), NEW c \in NextIds(Len(out))
    PROVE  ArtAbove(c)' /\ ArtBelow(c)' /\ ArtBorn(c)'
<1>1. PICK children, k : children = NextIds(Len(out)) /\ k = c - totalMinted
  OBVIOUS
<1>2. /\ Exchange({i}, children, Live \ {i})
      /\ \A x \in children : /\ shapes'[x] = ChildShape(i, out, x)
                             /\ totalMinted <= x
      /\ splitRecords' = Append(splitRecords, SplitRecordOf(i))
      /\ composeStack' = composeStack
  BY <1>1, SplitShapesAndRefs
<1>3. /\ c \in Ids /\ totalMinted <= c /\ shapes'[c] = ChildShape(i, out, c)
  BY <1>1, <1>2 DEF Exchange
<1>4. composeStack'[c] = <<>>
  BY <1>2, <1>3, FreshIsClean
<1>5. splitOriginRef'[c] = ChildRef(c)
  <2>1. \A x \in Ids : splitOriginRef'[x] = IF x \in children THEN ChildRef(x)
                                            ELSE splitOriginRef[x]
    BY <1>1 DEF Split
  <2> QED
    BY <1>1, <1>3, <2>1
<1>6. PICK m, rec : m = Len(splitRecords) /\ rec = SplitRecordOf(i)
  OBVIOUS
<1>7. m \in Nat /\ splitRecords'[m + 1] = rec
  BY <1>2, <1>6 DEF TypeOK
<1>8. splitOriginRef'[c]
          = [exists |-> TRUE, recordIndex |-> m, childIndex |-> k]
  BY <1>1, <1>5, <1>6 DEF ChildRef
<1>9. RecordOfRef(c)' = rec
  BY <1>7, <1>8 DEF RecordOfRef
<1>10. rec.parentId = i /\ rec.parentArt = shapes[i].art
  BY <1>6 DEF SplitRecordOf
<1>11. SplitPool(i)' = SplitPool(i)
  BY <1>2 DEF SplitPool
<1>12. ASSUME NEW a \in Known', a[1] = c
       PROVE  Born(c, a[2].denom, a[2].art)'
  <2>1. \A p \in Places' : c \notin HeldAt(p)'
    <3>1. ~(c < totalMinted)
      BY <1>3, FreshNotIssued
    <3>2. \A p \in Places : c \notin HeldAt(p)
      BY <3>1, StructureFacts
    <3> QED
      BY <1>2, <3>2, SamePlaces
  <2>2. a[2] = SnapshotOf(c)'
    BY <1>12, <2>1, KnownElimAfter
  <2>3. PICK shape : shape = ChildShape(i, out, c)
    OBVIOUS
  <2>4. a[2].denom = shape.denom /\ a[2].art = shape.art
    BY <1>3, <2>2, <2>3 DEF SnapshotOf
  <2>5. shape.art = SplitArt[<<shapes[i].art, SplitPool(i), shape.denom, k>>]
    BY <1>1, <2>3 DEF ChildShape
  <2> QED
    BY <1>8, <1>9, <1>10, <1>11, <2>4, <2>5 DEF Born
<1> QED
  BY <1>4, <1>12 DEF ArtAbove, ArtBelow, ArtBorn

\* Every step keeps the art lineage of every id.
LEMMA ArtStep ==
    ASSUME TypeOK, Structure, Lineage, ArtLineage, [Next]_vars
    PROVE  ArtLineage'
<1> SUFFICES ASSUME NEW c \in Ids
             PROVE  ArtAbove(c)' /\ ArtBelow(c)' /\ ArtBorn(c)'
  BY DEF ArtLineage
<1> DEFINE Kept == ArtAbove(c)' /\ ArtBelow(c)' /\ ArtBorn(c)'
<1> HIDE DEF Kept
<1>1. Untouched(c) => Kept
  BY ArtUntouched DEF Kept
<1>2. ASSUME Waning PROVE Kept
  BY <1>1, <1>2, KnownByWaning DEF Waning, Untouched
<1>3. ASSUME NEW d \in Denoms, NEW q \in 1 .. MaxMinted, NEW to \in Accounts,
             MintBatch(d, q, to)
      PROVE  Kept
  <2>1. PICK ids : ids = NextIds(q)
    OBVIOUS
  <2>2. /\ Exchange({}, ids, Live) /\ composeStack' = composeStack
        /\ splitOriginRef' = splitOriginRef
        /\ \A i \in ids : totalMinted <= i
    BY <1>3, <2>1, MintShapes
  <2>3. CASE c \in ids
    <3>1. totalMinted <= c
      BY <2>2, <2>3
    <3>2. composeStack'[c] = <<>> /\ ~splitOriginRef'[c].exists
      BY <2>2, <3>1, FreshIsClean
    <3> QED
      BY <3>2 DEF Kept, ArtAbove, ArtBelow, ArtBorn
  <2>4. CASE c \notin ids
    <3>1. \A a \in Known' : a[1] = c => a \in Known
      BY <2>2, <2>4, KnownByExchange
    <3> QED
      BY <1>1, <2>2, <3>1 DEF Untouched
  <2> QED
    BY <2>3, <2>4
<1>4. ASSUME NEW caller \in Accounts, NEW s \in Ids, NEW burnIds \in SUBSET Ids,
             Compose(caller, s, burnIds)
      PROVE  Kept
  <2>1. CASE c = s
    BY <1>4, <2>1, ArtByCompose DEF Kept
  <2>2. CASE c # s
    <3>1. PICK n, new, rec : /\ n = Len(composeStack[s]) + 1
                             /\ new = <<s, n>>
                             /\ rec = RecordOf(s, burnIds)
      OBVIOUS
    <3>2. \A i \in Ids \ {s} : composeStack'[i] = composeStack[i]
      BY <1>4, <3>1, ComposePlaces
    <3>3. splitOriginRef' = splitOriginRef
      BY <1>4 DEF Compose
    <3>4. \A a \in Known' : a[1] = c => a \in Known
      BY <1>4, <2>2, KnownByCompose
    <3> QED
      BY <1>1, <2>2, <3>2, <3>3, <3>4 DEF Untouched
  <2> QED
    BY <2>1, <2>2
<1>5. ASSUME NEW caller \in Accounts, NEW s \in Ids, NEW to \in Accounts,
             Decompose(caller, s, to)
      PROVE  Kept
  <2>1. CASE c = s
    BY <1>5, <2>1, ArtByDecompose DEF Kept
  <2>2. CASE c # s
    <3>1. PICK n, old, rec : /\ n = Len(composeStack[s])
                             /\ old = <<s, n>>
                             /\ rec = Last(composeStack[s])
      OBVIOUS
    <3>2. \A i \in Ids \ {s} : composeStack'[i] = composeStack[i]
      BY <1>5, <3>1, DecomposePlaces
    <3>3. splitOriginRef' = splitOriginRef
      BY <1>5 DEF Decompose
    <3>4. \A a \in Known' : a[1] = c => a \in Known
      BY <1>5, <2>2, KnownByDecompose
    <3> QED
      BY <1>1, <2>2, <3>2, <3>3, <3>4 DEF Untouched
  <2> QED
    BY <2>1, <2>2
<1>6. ASSUME NEW caller \in Accounts, NEW i \in Ids, NEW out \in OutputLists,
             NEW to \in Accounts, Split(caller, i, out, to)
      PROVE  Kept
  <2>1. PICK children : children = NextIds(Len(out))
    OBVIOUS
  <2>2. Exchange({i}, children, Live \ {i}) /\ composeStack' = composeStack
    BY <1>6, <2>1, SplitShapesAndRefs
  <2>3. \A x \in Ids : splitOriginRef'[x] = IF x \in children THEN ChildRef(x)
                                            ELSE splitOriginRef[x]
    BY <1>6, <2>1 DEF Split
  <2>4. CASE c \in children
    BY <1>6, <2>1, <2>4, ArtByBirth DEF Kept
  <2>5. CASE c \notin children
    <3>1. \A a \in Known' : a[1] = c => a \in Known
      BY <2>2, <2>5, KnownByExchange
    <3> QED
      BY <1>1, <2>2, <2>3, <2>5, <3>1 DEF Untouched
  <2> QED
    BY <2>4, <2>5
<1>7. Kept
  BY <1>2, <1>3, <1>4, <1>5, <1>6, ProvenanceKinds
<1> QED
  BY <1>7 DEF Kept

\* The art lineage says what ArtReconstructs says of live tokens and of stacks.
LEMMA ArtShows ==
    ASSUME TypeOK, ArtLineage
    PROVE  ArtReconstructs
<1>1. ASSUME NEW s \in Live
      PROVE  /\ s \in Ids /\ ArtAbove(s) /\ ArtBorn(s)
             /\ \E a \in Known : /\ a[1] = s /\ a[2].art = shapes[s].art
                                 /\ a[2].denom = shapes[s].denom
  <2>1. s \in Ids
    BY LiveMembers
  <2>2. PICK a : a = <<s, SnapshotOf(s)>>
    OBVIOUS
  <2>3. /\ a \in Known /\ a[1] = s
        /\ a[2].art = shapes[s].art /\ a[2].denom = shapes[s].denom
    BY <2>2, KnownIntro DEF SnapshotOf
  <2> QED
    BY <2>1, <2>3 DEF ArtLineage
<1>2. ASSUME NEW s \in Live, composeStack[s] # <<>>
      PROVE  shapes[s].art = Resampled(Last(composeStack[s]), shapes[s].denom)
  BY <1>1, <1>2 DEF ArtAbove
<1>3. ASSUME NEW c \in Live, splitOriginRef[c].exists, composeStack[c] = <<>>
      PROVE  Born(c, shapes[c].denom, shapes[c].art)
  BY <1>1, <1>3 DEF ArtBorn
<1>4. \A s \in Ids : ArtBelow(s)
  BY DEF ArtLineage
<1> QED
  BY <1>2, <1>3, <1>4 DEF ArtReconstructs, ArtBelow, Born, RecordOfRef

\* Nothing has been composed or split at construction.
LEMMA InitArt ==
    ASSUME Init
    PROVE  ArtLineage
<1>1. ASSUME NEW c \in Ids
      PROVE  composeStack[c] = <<>> /\ ~splitOriginRef[c].exists
  BY DEF Init, NoRef
<1>2. Len(<<>>) = 0
  OBVIOUS
<1> QED
  BY <1>1, <1>2 DEF ArtLineage, ArtAbove, ArtBelow, ArtBorn

\* The reconstruction recipes hold at all times, for every sampling of art:
\* from a record for the art above it, and from a split record for the art of a
\* child that has not been composed.
THEOREM ArtAlwaysReconstructs == Spec => []ArtReconstructs
<1>1. Init => Lineage /\ ArtLineage
  BY InitLineage, InitArt
<1>2. TypeOK /\ Structure /\ Lineage /\ ArtLineage /\ [Next]_vars
          => Lineage' /\ ArtLineage'
  BY LineageStep, ArtStep
<1>3. TypeOK /\ ArtLineage => ArtReconstructs
  BY ArtShows
<1> QED
  BY <1>1, <1>2, <1>3, StructureAlways, PTL DEF Spec
=============================================================================
