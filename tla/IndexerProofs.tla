--------------------------- MODULE IndexerProofs ---------------------------
(***************************************************************************)
(* The tables of the indexer are what the chain is, whenever it has read   *)
(* every event.  The invariant speaks of every moment: the events not yet  *)
(* handled lead from the tables to tables that mirror the chain as it will *)
(* be once the running call has handed out what it owes.  An operation is  *)
(* judged by where its events lead (module IndexerEffects) against what it *)
(* does to the chain, and a handler by taking the first of the events.     *)
(***************************************************************************)
EXTENDS IndexerEffects, ShapesCallsProofs

-----------------------------------------------------------------------------
(* The invariant.                                                          *)

\* A row says what a token is: `held` its owner once the call that runs has
\* handed out what it owes, `owner` its owner now, `from` and `origin` what its
\* split record says.
RowIs(row, held, owner, shape, depth, from, origin) ==
    /\ row.live <=> held # NoOne
    /\ row.depth = depth
    /\ row.splitFrom = from /\ row.splitOrigin = origin
    /\ owner # NoOne => row.owner = owner
    /\ held # NoOne =>
          /\ RowIsShape(row, shape)
          /\ row.black = shape.black
          /\ row.backing = IF shape.black THEN 0 ELSE Units[shape.denom]

\* The denomination of the token that a child of a split came from.
SplitFromOf(i) ==
    IF splitOriginRef[i].exists
    THEN splitRecords[splitOriginRef[i].recordIndex + 1].parentDenom ELSE Null

\* The denomination that its line started from.
SplitOriginOf(i) ==
    IF splitOriginRef[i].exists
    THEN splitRecords[splitOriginRef[i].recordIndex + 1].originDenom ELSE Null

\* Row r says what token i is.
RowMirrors(r, i) ==
    RowIs(r, SettledOwners[i], owners[i], shapes[i], Len(composeStack[i]),
          SplitFromOf(i), SplitOriginOf(i))

\* The rows are the tokens,
RowsMirror(rows) == \A i \in 0 .. totalMinted - 1 : RowMirrors(rows[i], i)

\* and those of the inputs a record holds are what it restores.
RowIsInput(row, input) ==
    RowIsShape(row, input) /\ row.black = FALSE /\ row.backing = Units[row.denom]

\* The rows of the inputs a record holds are what a decompose restores.
HeldMirror(rows) ==
    \A s \in Ids : \A n \in 1 .. Len(composeStack[s]) :
        \A b \in composeStack[s][n].burned :
            RowIsInput(rows[b], composeStack[s][n].inputs[b])

\* The owner row names the owner token, and its holder once it has one.
OwnerRowIs(row, next, holder) ==
    /\ row.tokenId = next
    /\ IF next = 0 THEN row.address = NoOne
       ELSE holder # NoOne => row.address = holder
OwnerRowMirrors(row) == OwnerRowIs(row, ownerToken, owners[ownerToken - 1])

\* The merges that a stack stands for, the last of which made the token d.
Standing(stack, d) ==
    [k \in 1 .. Len(stack) |->
        [burned |-> stack[k].burned,
         denom |-> IF k = Len(stack) THEN d ELSE stack[k + 1].denom]]

\* Replaying the edges of a token gives the merges its stack stands for.
MergesMirror(rows, edges) ==
    /\ \A i \in 0 .. totalMinted - 1 :
          MergesFrom(edges, i) = Standing(composeStack[i], rows[i].denom)
    /\ \A i \in Ids : i >= totalMinted => MergesFrom(edges, i) = <<>>

\* The cards are the first entries of the tokens that entered the house, and
\* there is one for each of those.
CardsMirror(cards) ==
    /\ entered \in Seq(Card)
    /\ cards = FirstOf(entered)
    /\ \A k \in DOMAIN entered : \E card \in cards : card[1] = entered[k][1]

\* The tables u are what the chain is, as seen once the running call has handed
\* out what it owes.
Mirrors(u) ==
    /\ u \in TablesOf(totalMinted)
    /\ RowsMirror(u.token) /\ HeldMirror(u.token)
    /\ OwnerRowMirrors(u.collectionOwner)
    /\ MergesMirror(u.token, u.lineageEdge)
    /\ touched \cup call.todo \subseteq Told(u.activity)
    /\ CardsMirror(u.escrowedCard)

\* No token of a call is approved to another, a transaction is open while a call
\* runs, the house sends none, and only an id minted has a split record.
Kept ==
    /\ approvals = [i \in Ids |-> NoOne]
    /\ operatorApprovals = {}
    /\ tx.from \in Accounts
    /\ tx.open => tx.from # House
    /\ call # Idle => tx.open
    /\ \A i \in Ids : splitOriginRef[i].exists => i < totalMinted

\* The inductive invariant: the events not yet handled lead from the tables to
\* tables that are what the chain is.
IndexInv ==
    /\ CallsInv /\ Kept /\ ~stopped
    /\ \E u : Yields(tx.from, tables, log, u) /\ Mirrors(u)

\* A step appends no event and the tables still are what the chain is, or it
\* appends events that lead to what the chain is after it.
Carried(u) == \/ log' = log /\ Mirrors(u)'
              \/ \E E, v : /\ log' = log \o E
                           /\ Yields(tx.from, u, E, v) /\ Mirrors(v)'

\* Events that lead to what the chain is after the step carry the step.
LEMMA Leading ==
    ASSUME NEW u, NEW E, NEW f, NEW w, NEW L, NEW D, NEW C, log' = log \o E,
           Leads(tx.from, u, E, totalMinted', f, w, L, D, C),
           RowsMirror(f)', HeldMirror(f)', OwnerRowMirrors(w)',
           MergesMirror(f, L)', touched' \cup call'.todo \subseteq D,
           CardsMirror(C)'
    PROVE  Carried(u)
<1>1. PICK v \in TablesOf(totalMinted') :
          /\ Yields(tx.from, u, E, v)
          /\ v.token = f /\ v.collectionOwner = w
          /\ v.lineageEdge = L /\ D \subseteq Told(v.activity)
          /\ v.escrowedCard = C
  BY DEF Leads
<1>2. RowsMirror(v.token)' /\ HeldMirror(v.token)'
  BY <1>1 DEF RowsMirror, HeldMirror
<1>3. OwnerRowMirrors(v.collectionOwner)' /\ CardsMirror(v.escrowedCard)'
  BY <1>1 DEF OwnerRowMirrors, CardsMirror
<1>4. MergesMirror(v.token, v.lineageEdge)'
  BY <1>1 DEF MergesMirror
<1>5. touched' \cup call'.todo \subseteq Told(v.activity)
  BY <1>1
<1>6. Mirrors(v)'
  BY <1>1, <1>2, <1>3, <1>4, <1>5 DEF Mirrors, Told
<1> QED
  BY <1>1, <1>6 DEF Carried

\* What the invariant of the calls says of the types of the state.
LEMMA ChainTypes ==
    ASSUME CallsInv
    PROVE  /\ shapes \in [Ids -> ShapeData]
           /\ composeStack \in [Ids -> Seq(ComposeRecord)]
           /\ splitRecords \in Seq(SplitRecord)
           /\ splitOriginRef \in [Ids -> SplitOriginRef]
           /\ \A i \in Ids : splitOriginRef[i].exists =>
                 splitOriginRef[i].recordIndex < Len(splitRecords)
           /\ totalMinted \in Nat /\ totalMinted <= MaxMinted
           /\ 0 .. totalMinted - 1 \subseteq Ids
           /\ owners \in [Ids -> Accounts \cup {NoOne}]
           /\ SettledOwners \in [Ids -> Accounts \cup {NoOne}]
           /\ ownerToken \in 0 .. MaxMinted
<1>1. /\ shapes \in [Ids -> ShapeData]
      /\ composeStack \in [Ids -> Seq(ComposeRecord)]
  BY DEF CallsInv, Settled!TypeOK, Settled!Ids, Ids, Settled!ShapeData,
     ShapeData, Settled!Seeds, Seeds, Settled!Denoms, Denoms,
     Settled!ComposeRecord, ComposeRecord, Settled!ComposeInput, ComposeInput
<1>2. /\ splitRecords \in Seq(SplitRecord)
      /\ splitOriginRef \in [Ids -> SplitOriginRef]
      /\ \A i \in Ids : splitOriginRef[i].exists =>
            splitOriginRef[i].recordIndex < Len(splitRecords)
  BY DEF CallsInv, Settled!TypeOK, Settled!Ids, Ids, Settled!SplitRecord,
     SplitRecord, Settled!Seeds, Seeds, Settled!Denoms, Denoms,
     Settled!SplitOriginRef, SplitOriginRef
<1>3. totalMinted \in Nat /\ totalMinted <= MaxMinted
  BY SettledFacts, CallConstants
<1>4. 0 .. totalMinted - 1 \subseteq Ids
  BY <1>3, CallConstants DEF Ids
<1>5. /\ owners \in [Ids -> Accounts \cup {NoOne}]
      /\ ownerToken \in 0 .. MaxMinted
  BY DEF CallsInv, Framed
<1> QED
  BY <1>1, <1>2, <1>3, <1>4, <1>5, SettledFacts

\* A token with an owner was minted.
LEMMA LiveMinted ==
    ASSUME CallsInv, NEW i \in Ids, SettledOwners[i] # NoOne
    PROVE  i \in 0 .. totalMinted - 1
BY ChainTypes, SettledFacts, CallConstants

\* A token handed out has its owner, and is not owed any more.
LEMMA OwnedIsSettled ==
    ASSUME CallsInv, NEW i \in Ids, owners[i] # NoOne
    PROVE  SettledOwners[i] = owners[i] /\ i \notin call.todo
BY DEF CallsInv, Framed, SettledOwners

\* An id that a record holds was minted and is not live.
LEMMA HeldDead ==
    ASSUME CallsInv, NEW s \in Ids, NEW n \in 1 .. Len(composeStack[s]),
           NEW b \in composeStack[s][n].burned
    PROVE  /\ b \in Ids /\ b \in 0 .. totalMinted - 1
           /\ SettledOwners[b] = NoOne
<1>1. <<s, n>> \in Settled!Places /\ Settled!HeldAt(<<s, n>>) = composeStack[s][n].burned
  BY DEF Settled!Places, Settled!Ids, Ids, Settled!HeldAt, Settled!RecordAt
<1>2. SettledOwners[b] = NoOne /\ b < totalMinted
  BY <1>1 DEF CallsInv, Settled!Inductive, Settled!Structure,
     Settled!HeldShapesAreDeadAndUnique, Settled!IsLive
<1>3. b \in Ids
  <2>1. composeStack[s] \in Seq(ComposeRecord)
    BY ChainTypes
  <2>2. composeStack[s][n] \in ComposeRecord
    BY <2>1
  <2> QED
    BY <2>2 DEF ComposeRecord
<1>4. b \in Nat
  BY <1>3, CallConstants
<1> QED
  BY <1>2, <1>3, <1>4, ChainTypes

\* No id is held by two records.
LEMMA HeldOnce ==
    ASSUME CallsInv, NEW s \in Ids, NEW n \in 1 .. Len(composeStack[s]),
           NEW r \in Ids, NEW k \in 1 .. Len(composeStack[r]),
           NEW b, b \in composeStack[s][n].burned, b \in composeStack[r][k].burned
    PROVE  s = r /\ n = k
<1>1. /\ <<s, n>> \in Settled!Places /\ <<r, k>> \in Settled!Places
      /\ Settled!HeldAt(<<s, n>>) = composeStack[s][n].burned
      /\ Settled!HeldAt(<<r, k>>) = composeStack[r][k].burned
  BY DEF Settled!Places, Settled!Ids, Ids, Settled!HeldAt, Settled!RecordAt
<1>2. <<s, n>> = <<r, k>>
  BY <1>1 DEF CallsInv, Settled!Inductive, Settled!Structure,
     Settled!HeldShapesAreDeadAndUnique
<1> QED
  BY <1>2

\* An id not yet minted has no records.
LEMMA FreshUncomposed ==
    ASSUME CallsInv, NEW i \in Ids, i >= totalMinted
    PROVE  composeStack[i] = <<>>
BY DEF CallsInv, Settled!Inductive, Settled!Structure,
   Settled!FreshIdsHaveNoRecords, Settled!Ids, Ids

\* A record more on the stack is a merge more that stands.
LEMMA StandingPush ==
    ASSUME NEW T, NEW st \in Seq(T), NEW rec, NEW d, NEW e, rec.denom = d
    PROVE  Append(Standing(st, d), [burned |-> rec.burned, denom |-> e])
               = Standing(Append(st, rec), e)
<1>1. PICK n : n = Len(st) /\ n \in Nat
  OBVIOUS
<1>2. PICK st2 : st2 = Append(st, rec)
  OBVIOUS
<1>3. st2 \in Seq(T \cup {rec})
  BY <1>2
<1>4. Len(st2) = n + 1 /\ st2[n + 1] = rec /\ \A k \in 1 .. n : st2[k] = st[k]
  BY <1>1, <1>2
<1>5. PICK f : f = Standing(st, d)
  OBVIOUS
<1>6. PICK R : R = [k \in 1 .. n |-> f[k]]
  OBVIOUS
<1>7. f = [k \in 1 .. n |-> f[k]]
  BY <1>1, <1>5 DEF Standing
<1>8. \A k \in 1 .. n : f[k] = [burned |-> st[k].burned,
                                denom |-> IF k = n THEN d ELSE st[k + 1].denom]
  BY <1>1, <1>5 DEF Standing
<1>9. PICK x : x = [burned |-> rec.burned, denom |-> e]
  OBVIOUS
<1>10. f \in Seq({f[k] : k \in 1 .. n}) /\ Len(f) = n
  <2>1. f \in [1 .. n -> {f[k] : k \in 1 .. n}]
    BY <1>7
  <2> QED
    BY <1>1, <2>1
<1>11. Append(f, x) = [k \in 1 .. n + 1 |-> IF k = n + 1 THEN x ELSE f[k]]
  <2>1. PICK S : S = {f[k] : k \in 1 .. n} \cup {x}
    OBVIOUS
  <2>2. f \in Seq(S) /\ x \in S
    BY <1>10, <2>1
  <2>3. PICK g : g = Append(f, x)
    OBVIOUS
  <2>4. /\ g \in Seq(S) /\ Len(g) = n + 1 /\ g[n + 1] = x
        /\ \A k \in 1 .. n : g[k] = f[k]
    BY <1>1, <1>10, <2>2, <2>3
  <2>5. g = [k \in 1 .. n + 1 |-> g[k]]
    BY <2>4
  <2>6. \A k \in 1 .. n + 1 : g[k] = IF k = n + 1 THEN x ELSE f[k]
    BY <1>1, <2>4
  <2> QED
    BY <2>3, <2>5, <2>6
<1>12. Standing(st2, e) = [k \in 1 .. n + 1 |->
            [burned |-> st2[k].burned,
             denom |-> IF k = n + 1 THEN e ELSE st2[k + 1].denom]]
  BY <1>4 DEF Standing
<1>13. ASSUME NEW k \in 1 .. n + 1
       PROVE  (IF k = n + 1 THEN x ELSE f[k]) =
              [burned |-> st2[k].burned,
               denom |-> IF k = n + 1 THEN e ELSE st2[k + 1].denom]
  <2>1. CASE k = n + 1
    BY <1>4, <1>9, <2>1
  <2>2. CASE k # n + 1
    <3>1. k \in 1 .. n
      BY <1>1, <2>2
    <3>2. CASE k = n
      BY <1>1, <1>4, <1>8, <3>1, <3>2
    <3>3. CASE k # n
      <4>1. k + 1 \in 1 .. n
        BY <1>1, <3>1, <3>3
      <4> QED
        BY <1>1, <1>4, <1>8, <2>2, <3>1, <3>3, <4>1
    <3> QED
      BY <3>2, <3>3
  <2> QED
    BY <2>1, <2>2
<1> QED
  BY <1>2, <1>5, <1>9, <1>11, <1>12, <1>13

\* A record less is a merge less.
LEMMA StandingPop ==
    ASSUME NEW T, NEW st \in Seq(T), st # <<>>, NEW d
    PROVE  /\ Standing(st, d) # <<>>
           /\ Front(Standing(st, d)) = Standing(Front(st), Last(st).denom)
<1>1. PICK n : n = Len(st) /\ n \in Nat \ {0}
  OBVIOUS
<1>2. PICK st2 : st2 = Front(st)
  OBVIOUS
<1>3. Len(st2) = n - 1 /\ \A k \in 1 .. n - 1 : st2[k] = st[k]
  BY <1>1, <1>2 DEF Front
<1>4. PICK f : f = Standing(st, d)
  OBVIOUS
<1>5. f = [k \in 1 .. n |-> f[k]]
  BY <1>1, <1>4 DEF Standing
<1>6. \A k \in 1 .. n : f[k] = [burned |-> st[k].burned,
                                denom |-> IF k = n THEN d ELSE st[k + 1].denom]
  BY <1>1, <1>4 DEF Standing
<1>7. f \in Seq({f[k] : k \in 1 .. n}) /\ Len(f) = n
  <2>1. f \in [1 .. n -> {f[k] : k \in 1 .. n}]
    BY <1>5
  <2> QED
    BY <1>1, <2>1
<1>8. Front(f) = [k \in 1 .. n - 1 |-> f[k]]
  BY <1>1, <1>7 DEF Front
<1>9. Standing(st2, Last(st).denom) = [k \in 1 .. n - 1 |->
            [burned |-> st2[k].burned,
             denom |-> IF k = n - 1 THEN Last(st).denom ELSE st2[k + 1].denom]]
  BY <1>3 DEF Standing
<1>10. ASSUME NEW k \in 1 .. n - 1
       PROVE  f[k] = [burned |-> st2[k].burned,
                      denom |-> IF k = n - 1 THEN Last(st).denom
                                ELSE st2[k + 1].denom]
  <2>1. k \in 1 .. n /\ k # n
    BY <1>1
  <2>2. CASE k = n - 1
    <3>1. k + 1 = n /\ Last(st) = st[n]
      BY <1>1, <2>2 DEF Last
    <3> QED
      BY <1>3, <1>6, <2>1, <2>2, <3>1
  <2>3. CASE k # n - 1
    <3>1. k + 1 \in 1 .. n - 1
      BY <1>1, <2>3
    <3> QED
      BY <1>3, <1>6, <2>1, <2>3, <3>1
  <2> QED
    BY <2>2, <2>3
<1>11. f # <<>>
  BY <1>1, <1>7
<1> QED
  BY <1>2, <1>4, <1>8, <1>9, <1>10, <1>11

-----------------------------------------------------------------------------
(* What a step leaves, and the first operations.                           *)

\* A row stands for its token as long as the token is what it was.
LEMMA RowStays ==
    ASSUME NEW r, NEW i, RowMirrors(r, i),
           SettledOwners'[i] = SettledOwners[i], owners'[i] = owners[i],
           shapes'[i] = shapes[i], composeStack'[i] = composeStack[i],
           SplitFromOf(i)' = SplitFromOf(i), SplitOriginOf(i)' = SplitOriginOf(i)
    PROVE  RowMirrors(r, i)'
BY DEF RowMirrors

\* The split records stay what they are unless a split adds one.
LEMMA SplitOfStays ==
    ASSUME UNCHANGED <<splitRecords, splitOriginRef>>
    PROVE  \A i : /\ SplitFromOf(i)' = SplitFromOf(i)
                  /\ SplitOriginOf(i)' = SplitOriginOf(i)
BY DEF SplitFromOf, SplitOriginOf

\* The rows of held inputs stay as long as no live token takes their ids.
LEMMA HeldStays ==
    ASSUME CallsInv, NEW f, NEW g, HeldMirror(f), composeStack' = composeStack,
           \A b \in 0 .. totalMinted - 1 : SettledOwners[b] = NoOne => g[b] = f[b]
    PROVE  HeldMirror(g)'
<1> SUFFICES ASSUME NEW s \in Ids, NEW n \in 1 .. Len(composeStack[s]),
                    NEW b \in composeStack[s][n].burned
             PROVE  RowIsInput(g[b], composeStack[s][n].inputs[b])
  BY DEF HeldMirror
<1>1. g[b] = f[b]
  BY HeldDead
<1>2. RowIsInput(f[b], composeStack[s][n].inputs[b])
  BY DEF HeldMirror
<1> QED
  BY <1>1, <1>2

\* The merges stay as long as no edge, record or denomination changes.
LEMMA MergesStay ==
    ASSUME NEW f, NEW g, NEW L, MergesMirror(f, L), composeStack' = composeStack,
           totalMinted' = totalMinted,
           \A i \in 0 .. totalMinted - 1 : g[i].denom = f[i].denom
    PROVE  MergesMirror(g, L)'
BY DEF MergesMirror

\* A step touches no id but those whose owner or data it changes.
LEMMA TouchedWithin ==
    ASSUME Witnessed, NEW S,
           \A i \in Ids : i \notin S => owners'[i] = owners[i] /\ shapes'[i] = shapes[i]
    PROVE  touched' \subseteq touched \cup S
BY DEF Witnessed

\* No token enters the house unless one is transferred there.
LEMMA NoneEntered ==
    ASSUME Witnessed, entered \in Seq(Card),
           \A i \in Ids : owners'[i] = House => owners[i] = House
    PROVE  entered' = entered
<1>1. PICK A, s : /\ A = Arrived
                  /\ s = [k \in 1 .. Cardinality(A) |->
                            <<Listed(A)[k], shapes'[Listed(A)[k]].denom>>]
  OBVIOUS
<1>2. A = {} /\ Cardinality(A) = 0
  BY <1>1, FS_EmptySet DEF Arrived
<1>3. s = <<>>
  BY <1>1, <1>2
<1>4. entered' = entered \o s
  BY <1>1 DEF Witnessed, Each
<1> QED
  BY <1>3, <1>4

\* A token that enters the house is written down after those that did before.
LEMMA OneEntered ==
    ASSUME Witnessed, entered \in Seq(Card), NEW i, Arrived = {i}
    PROVE  entered' = Append(entered, <<i, shapes'[i].denom>>)
<1>1. PICK A, L, s : /\ A = Arrived /\ L = Listed(A)
                     /\ s = [k \in 1 .. Cardinality(A) |->
                               <<L[k], shapes'[L[k]].denom>>]
  OBVIOUS
<1>2. A = {i} /\ A \in SUBSET Ids /\ Cardinality(A) = 1
  BY <1>1, FS_Singleton DEF Arrived
<1>3. L \in [1 .. 1 -> {i}]
  BY <1>1, <1>2, ListedAll
<1>4. s = <<<<i, shapes'[i].denom>>>>
  <2>1. PICK x : x = <<i, shapes'[i].denom>>
    OBVIOUS
  <2>2. L[1] = i
    BY <1>3
  <2>3. s = [k \in 1 .. 1 |-> <<L[k], shapes'[L[k]].denom>>]
    BY <1>1, <1>2
  <2>4. \A k \in 1 .. 1 : <<L[k], shapes'[L[k]].denom>> = x
    BY <2>1, <2>2
  <2>5. s = [k \in 1 .. 1 |-> x]
    BY <2>3, <2>4
  <2>6. s = <<x>>
    BY <2>5
  <2> QED
    BY <2>1, <2>6
<1>5. entered' = entered \o s
  BY <1>1 DEF Witnessed, Each
<1> QED
  BY <1>4, <1>5

\* The cards stay as long as no token enters the house.
LEMMA CardsStay ==
    ASSUME NEW C, CardsMirror(C), entered' = entered
    PROVE  CardsMirror(C)'
BY DEF CardsMirror, FirstOf

\* One more entry, of the token it names, is its first unless there is one.
LEMMA FirstAfter ==
    ASSUME NEW s \in Seq(Card), NEW c \in Card, NEW r, r = Append(s, c)
    PROVE  FirstOf(r) = IF \E k \in DOMAIN s : s[k][1] = c[1] THEN FirstOf(s)
                        ELSE FirstOf(s) \cup {c}
<1>1. PICK n : n = Len(s)
  OBVIOUS
<1>2. /\ n \in Nat /\ DOMAIN s = 1 .. n /\ DOMAIN r = 1 .. n + 1
      /\ r[n + 1] = c /\ \A k \in 1 .. n : r[k] = s[k]
  BY <1>1
<1>3. \A k \in 1 .. n :
         (\A j \in 1 .. k - 1 : r[j][1] # r[k][1])
           <=> (\A j \in 1 .. k - 1 : s[j][1] # s[k][1])
  BY <1>2
<1>4. (\A j \in 1 .. n + 1 - 1 : r[j][1] # r[n + 1][1])
         <=> ~\E k \in DOMAIN s : s[k][1] = c[1]
  BY <1>2
<1>5. FirstOf(s) \subseteq FirstOf(r)
  BY <1>2, <1>3 DEF FirstOf
<1>6. ASSUME NEW x \in FirstOf(r)
      PROVE  \/ x \in FirstOf(s)
             \/ x = c /\ ~\E k \in DOMAIN s : s[k][1] = c[1]
  <2>1. PICK k \in 1 .. n + 1 :
            x = r[k] /\ \A j \in 1 .. k - 1 : r[j][1] # r[k][1]
    BY <1>2 DEF FirstOf
  <2>2. CASE k = n + 1
    BY <1>2, <1>4, <2>1, <2>2
  <2>3. CASE k \in 1 .. n
    BY <1>2, <1>3, <2>1, <2>3 DEF FirstOf
  <2> QED
    BY <1>2, <2>1, <2>2, <2>3
<1>7. (~\E k \in DOMAIN s : s[k][1] = c[1]) => c \in FirstOf(r)
  BY <1>2, <1>4 DEF FirstOf
<1> QED
  BY <1>5, <1>6, <1>7

\* What the tables that mirror the chain are.
LEMMA MirrorTypes ==
    ASSUME NEW u, Mirrors(u)
    PROVE  /\ u \in TablesOf(totalMinted)
           /\ u.token \in [0 .. totalMinted - 1 -> Row]
           /\ u.collectionOwner \in OwnerRow /\ u.lineageEdge \in Seq(Edge)
           /\ u.activity \in SUBSET FeedRow /\ u.escrowedCard \in SUBSET Card
           /\ RowsMirror(u.token) /\ HeldMirror(u.token)
           /\ OwnerRowMirrors(u.collectionOwner)
           /\ MergesMirror(u.token, u.lineageEdge)
           /\ touched \subseteq Told(u.activity)
           /\ call.todo \subseteq Told(u.activity)
           /\ CardsMirror(u.escrowedCard) /\ entered \in Seq(Card)
BY DEF Mirrors, TablesOf, CardsMirror

\* Steps that change nothing the tables are about.
LEMMA FrameCarried ==
    ASSUME NEW u, Mirrors(u), log' = log, UNCHANGED <<vars, touched, entered>>,
           call'.todo = call.todo, call'.to = call.to
    PROVE  Carried(u)
<1>1. /\ totalMinted' = totalMinted /\ owners' = owners /\ shapes' = shapes
      /\ composeStack' = composeStack /\ splitOriginRef' = splitOriginRef
      /\ splitRecords' = splitRecords /\ ownerToken' = ownerToken
  BY DEF vars, storeVars, erc721Vars
<1>2. SettledOwners' = SettledOwners
  BY <1>1 DEF SettledOwners
<1>3. RowsMirror(u.token)'
  BY <1>1, <1>2, SplitOfStays, RowStays, MirrorTypes DEF RowsMirror
<1>4. HeldMirror(u.token)' /\ OwnerRowMirrors(u.collectionOwner)'
      /\ CardsMirror(u.escrowedCard)' /\ MergesMirror(u.token, u.lineageEdge)'
  BY <1>1, MirrorTypes DEF HeldMirror, OwnerRowMirrors, CardsMirror, MergesMirror,
         FirstOf
<1>5. u \in TablesOf(totalMinted')
  BY <1>1, MirrorTypes
<1>6. touched' \cup call'.todo \subseteq Told(u.activity)
  BY MirrorTypes
<1>7. Mirrors(u)'
  BY <1>3, <1>4, <1>5, <1>6 DEF Mirrors, Told, TablesOf
<1> QED
  BY <1>7 DEF Carried

\* mintBatch.
LEMMA MintMirrored ==
    ASSUME CallsInv, Kept, NEW u, Mirrors(u), Witnessed,
           NEW caller \in Accounts, NEW d \in Denoms, NEW q \in 1 .. MaxMinted,
           NEW to \in Accounts, MintBatchTo(caller, d, q, to)
    PROVE  Kept' /\ Carried(u)
<1>1. PICK ids, m : ids = NextIds(q) /\ m = totalMinted
  OBVIOUS
<1>2. /\ call = Idle /\ call' = Minting("mint", to, ids)
      /\ owners' = owners /\ approvals' = approvals
      /\ operatorApprovals' = operatorApprovals /\ ownerToken' = ownerToken
      /\ composeStack' = composeStack /\ splitRecords' = splitRecords
      /\ splitOriginRef' = splitOriginRef
      /\ m + q <= MaxMinted /\ totalMinted' = m + q
      /\ tx.open /\ tx' = [tx EXCEPT !.last = "mint"]
      /\ log' = log \o [k \in 1 .. q |-> ShapeMinted(m + k - 1, to, d)]
      /\ shapes' = [i \in Ids |-> IF i \in ids THEN MintedShape(i, d)
                                  ELSE shapes[i]]
  BY <1>1 DEF MintBatchTo, MayEnter, MaySend, Sent, erc721Vars
<1>3. call'.todo = ids /\ call'.to = to
  BY <1>2 DEF Minting, Idle
<1>4. /\ m \in Nat /\ q \in Nat /\ MaxMinted \in Nat
      /\ ids = m .. m + q - 1 /\ 0 .. m + q - 1 \subseteq Ids
      /\ \A i \in Ids : i \in Nat
  BY <1>1, <1>2, ChainTypes, CallConstants DEF NextIds, Ids
<1>5. /\ SettledOwners = owners
      /\ SettledOwners' = [i \in Ids |-> IF i \in ids THEN to ELSE owners[i]]
  BY <1>2, <1>3, Unguarded DEF SettledOwners
<1>6. PICK E : E = [k \in 1 .. q |-> ShapeMinted(m + k - 1, to, d)]
  OBVIOUS
<1>7. Leads(tx.from, u, E, m + q, MintedRows(u, m, q, to, d), u.collectionOwner,
            u.lineageEdge, Told(u.activity) \cup (m .. m + q - 1), u.escrowedCard)
  BY <1>1, <1>4, <1>6, MirrorTypes, MintEffect
<1>8. PICK f : f = MintedRows(u, m, q, to, d)
  OBVIOUS
<1>9. /\ \A i \in 0 .. m - 1 : f[i] = u.token[i]
      /\ \A i \in ids : f[i] = MintRow(to, MintedShape(i, d))
  BY <1>4, <1>8 DEF MintedRows
<1>91. totalMinted' = m + q
  BY <1>2
<1>10. RowsMirror(f)'
  <2> SUFFICES ASSUME NEW i \in 0 .. m + q - 1 PROVE RowMirrors(f[i], i)'
    BY <1>4, <1>91 DEF RowsMirror
  <2>1. CASE i < m
    <3>1. i \in 0 .. m - 1 /\ i \in Ids /\ i \notin ids
      BY <1>4, <2>1
    <3>2. RowMirrors(f[i], i)
      BY <1>1, <1>9, <3>1, MirrorTypes DEF RowsMirror
    <3>3. /\ SettledOwners'[i] = SettledOwners[i] /\ shapes'[i] = shapes[i]
          /\ owners'[i] = owners[i] /\ composeStack'[i] = composeStack[i]
          /\ UNCHANGED <<splitRecords, splitOriginRef>>
      BY <1>2, <1>5, <3>1
    <3> QED
      BY <3>2, <3>3, RowStays, SplitOfStays
  <2>2. CASE ~(i < m)
    <3>1. i \in ids /\ i \in Ids /\ i >= totalMinted
      BY <1>1, <1>4, <2>2
    <3>2. f[i] = MintRow(to, MintedShape(i, d))
      BY <1>9, <3>1
    <3>3. /\ SettledOwners'[i] = to /\ shapes'[i] = MintedShape(i, d)
          /\ owners'[i] = NoOne /\ to # NoOne
      BY <1>2, <1>5, <3>1, SettledFacts, CallConstants
    <3>4. composeStack'[i] = <<>>
      BY <1>2, <3>1, FreshUncomposed
    <3>5. ~splitOriginRef'[i].exists
      BY <1>2, <1>4, <3>1, ChainTypes DEF Kept
    <3>6. SplitFromOf(i)' = Null /\ SplitOriginOf(i)' = Null
      BY <3>5 DEF SplitFromOf, SplitOriginOf
    <3>7. RowIs(f[i], to, NoOne, MintedShape(i, d), 0, Null, Null)
      BY <3>2, <3>3 DEF RowIs, MintRow, MintedShape, RowIsShape
    <3>8. Len(composeStack'[i]) = 0
      BY <3>4
    <3> QED
      BY <3>3, <3>6, <3>7, <3>8 DEF RowMirrors
  <2> QED
    BY <2>1, <2>2
<1>11. HeldMirror(f)'
  BY <1>1, <1>2, <1>9, MirrorTypes, HeldStays
<1>12. OwnerRowMirrors(u.collectionOwner)'
  BY <1>2, MirrorTypes DEF OwnerRowMirrors
<1>13. MergesMirror(f, u.lineageEdge)'
  <2>1. ASSUME NEW i \in 0 .. m + q - 1
        PROVE  MergesFrom(u.lineageEdge, i) = Standing(composeStack[i], f[i].denom)
    <3>1. CASE i < m
      BY <1>1, <1>4, <1>9, <3>1, MirrorTypes DEF MergesMirror
    <3>2. CASE ~(i < m)
      <4>1. i \in Ids /\ i >= totalMinted
        BY <1>1, <1>4, <3>2
      <4>2. MergesFrom(u.lineageEdge, i) = <<>> /\ composeStack[i] = <<>>
        BY <4>1, MirrorTypes, FreshUncomposed DEF MergesMirror
      <4>3. \A x : Standing(<<>>, x) = <<>>
        BY DEF Standing
      <4> QED
        BY <4>2, <4>3
    <3> QED
      BY <3>1, <3>2
  <2>2. ASSUME NEW i \in Ids, i >= m + q
        PROVE  MergesFrom(u.lineageEdge, i) = <<>>
    BY <1>1, <1>4, <2>2, MirrorTypes DEF MergesMirror
  <2>3. composeStack' = composeStack
    BY <1>2
  <2> QED
    BY <1>4, <1>91, <2>1, <2>2, <2>3 DEF MergesMirror
<1>14. touched' \cup call'.todo \subseteq Told(u.activity) \cup (m .. m + q - 1)
  <2>1. touched' \subseteq touched \cup ids
    BY <1>2, TouchedWithin
  <2> QED
    BY <1>3, <1>4, <2>1, MirrorTypes
<1>15. CardsMirror(u.escrowedCard)'
  BY <1>2, NoneEntered, CardsStay, MirrorTypes
<1>16. Carried(u)
  BY <1>2, <1>6, <1>7, <1>8, <1>10, <1>11, <1>12, <1>13, <1>14, <1>15, Leading
<1>17. Kept'
  BY <1>2, <1>4, <1>1 DEF Kept
<1> QED
  BY <1>16, <1>17

-----------------------------------------------------------------------------
(* Handing a token to its owner.                                           *)

\* A token goes to `to`: its row and the owner row follow.
LEMMA OwnerRowFollows ==
    ASSUME CallsInv, NEW w, OwnerRowMirrors(w), w \in OwnerRow, NEW i \in Ids, NEW to,
           owners' = [j \in Ids |-> IF j = i THEN to ELSE owners[j]],
           ownerToken' = ownerToken
    PROVE  OwnerRowMirrors(OwnerRowAfter(w, i, to))'
<1>1. /\ w.tokenId = ownerToken /\ ownerToken \in Nat /\ i \in Nat
      /\ ownerToken \in 0 .. MaxMinted
  BY ChainTypes, CallConstants DEF OwnerRowMirrors, OwnerRowIs
<1>2. PICK x : x = OwnerRowAfter(w, i, to)
  OBVIOUS
<1>3. CASE ownerToken = i + 1
  <2>1. x.tokenId = ownerToken /\ x.address = to
    BY <1>1, <1>2, <1>3 DEF OwnerRowAfter, OwnerRow
  <2>2. owners'[ownerToken - 1] = to /\ ownerToken # 0
    BY <1>1, <1>3
  <2>3. OwnerRowIs(x, ownerToken', owners'[ownerToken' - 1])
    BY <2>1, <2>2 DEF OwnerRowIs
  <2> QED
    BY <1>2, <2>3 DEF OwnerRowMirrors
<1>4. CASE ownerToken # i + 1
  <2>1. x = w
    BY <1>1, <1>2, <1>4 DEF OwnerRowAfter
  <2>2. CASE ownerToken = 0
    <3>1. OwnerRowIs(w, ownerToken', owners'[ownerToken' - 1])
      BY <2>2 DEF OwnerRowIs, OwnerRowMirrors
    <3> QED
      BY <1>2, <2>1, <3>1 DEF OwnerRowMirrors
  <2>3. CASE ownerToken # 0
    <3>1. ownerToken - 1 \in Ids /\ ownerToken - 1 # i
      BY <1>1, <1>4, <2>3, CallConstants DEF Ids
    <3>2. owners'[ownerToken - 1] = owners[ownerToken - 1]
      BY <3>1
    <3>3. OwnerRowIs(w, ownerToken', owners'[ownerToken' - 1])
      BY <3>2 DEF OwnerRowMirrors
    <3> QED
      BY <1>2, <2>1, <3>3 DEF OwnerRowMirrors
  <2> QED
    BY <2>2, <2>3
<1> QED
  BY <1>3, <1>4

\* The rows once token i went to `to`.
LEMMA RowsFollow ==
    ASSUME CallsInv, NEW f \in [0 .. totalMinted - 1 -> Row], RowsMirror(f),
           NEW i \in 0 .. totalMinted - 1, NEW to \in Accounts,
           SettledOwners[i] # NoOne, SettledOwners'[i] # NoOne,
           \A j \in Ids : j # i => SettledOwners'[j] = SettledOwners[j],
           owners' = [j \in Ids |-> IF j = i THEN to ELSE owners[j]],
           UNCHANGED storeVars, NEW g, g = [f EXCEPT ![i].owner = to]
    PROVE  /\ RowsMirror(g)'
           /\ \A j \in 0 .. totalMinted - 1 : g[j].denom = f[j].denom
           /\ \A b \in 0 .. totalMinted - 1 : SettledOwners[b] = NoOne => g[b] = f[b]
<1>1. /\ totalMinted' = totalMinted /\ shapes' = shapes
      /\ composeStack' = composeStack
      /\ UNCHANGED <<splitRecords, splitOriginRef>>
  BY DEF storeVars
<1>2. /\ totalMinted \in Nat /\ i \in Ids /\ 0 .. totalMinted - 1 \subseteq Ids
  BY ChainTypes
<1>3. /\ \A j \in 0 .. totalMinted - 1 : j # i => g[j] = f[j]
      /\ g[i] = [f[i] EXCEPT !.owner = to]
  OBVIOUS
<1>4. PICK r : r = f[i] /\ r \in Row
  OBVIOUS
<1>5. /\ g[i] = [r EXCEPT !.owner = to] /\ g[i].owner = to
      /\ g[i].live = r.live /\ g[i].depth = r.depth
      /\ g[i].splitFrom = r.splitFrom /\ g[i].splitOrigin = r.splitOrigin
      /\ g[i].seed = r.seed /\ g[i].denom = r.denom
      /\ g[i].origins = r.origins /\ g[i].art = r.art
      /\ g[i].black = r.black /\ g[i].backing = r.backing
  BY <1>3, <1>4 DEF Row
<1>6. RowMirrors(g[i], i)'
  <2>1. RowIs(r, SettledOwners[i], owners[i], shapes[i], Len(composeStack[i]),
              SplitFromOf(i), SplitOriginOf(i))
    BY <1>4 DEF RowsMirror, RowMirrors
  <2>2. owners'[i] = to
    BY <1>2
  <2>3. RowIs(g[i], SettledOwners'[i], owners'[i], shapes[i],
              Len(composeStack[i]), SplitFromOf(i), SplitOriginOf(i))
    BY <1>5, <2>1, <2>2 DEF RowIs, RowIsShape
  <2> QED
    BY <1>1, <2>3, SplitOfStays DEF RowMirrors
<1>7. ASSUME NEW j \in 0 .. totalMinted - 1, j # i
      PROVE  RowMirrors(g[j], j)'
  <2>1. RowMirrors(g[j], j)
    BY <1>3, <1>7 DEF RowsMirror
  <2>2. /\ SettledOwners'[j] = SettledOwners[j] /\ owners'[j] = owners[j]
        /\ shapes'[j] = shapes[j] /\ composeStack'[j] = composeStack[j]
    BY <1>1, <1>2, <1>7
  <2> QED
    BY <1>1, <2>1, <2>2, RowStays, SplitOfStays
<1>8. RowsMirror(g)'
  BY <1>1, <1>6, <1>7 DEF RowsMirror
<1>9. \A j \in 0 .. totalMinted - 1 : g[j].denom = f[j].denom
  BY <1>3, <1>4, <1>5
<1> QED
  BY <1>3, <1>8, <1>9

\* The card of a token that goes to the house.
LEMMA CardFollows ==
    ASSUME CallsInv, NEW u, Mirrors(u), Witnessed, NEW i \in 0 .. totalMinted - 1,
           NEW to \in Accounts, to = House => owners[i] # House,
           SettledOwners[i] # NoOne,
           owners' = [j \in Ids |-> IF j = i THEN to ELSE owners[j]],
           shapes' = shapes
    PROVE  CardsMirror(CardsAfter(u, i, to))'
<1>1. /\ i \in Ids /\ entered \in Seq(Card) /\ u.token[i] \in Row
      /\ u.escrowedCard \in SUBSET Card
  BY ChainTypes, MirrorTypes
<1>2. PICK s, c, C : /\ s = entered /\ c = <<i, shapes[i].denom>>
                     /\ C = u.escrowedCard
  OBVIOUS
<1>3. u.token[i].denom = shapes[i].denom /\ shapes[i].denom \in Denoms
  BY <1>1, MirrorTypes DEF RowsMirror, RowMirrors, RowIs, RowIsShape, Row
<1>4. /\ c \in Card /\ c[1] = i /\ s \in Seq(Card) /\ C = FirstOf(s)
      /\ C \in SUBSET Card
      /\ \A k \in DOMAIN s : \E card \in C : card[1] = s[k][1]
  BY <1>1, <1>2, <1>3, MirrorTypes DEF CardsMirror, Card
<1>5. CASE to = House
  <2>1. Arrived = {i}
    BY <1>1, <1>5 DEF Arrived
  <2>2. PICK r : r = entered'
    OBVIOUS
  <2>3. r = Append(s, c)
    BY <1>1, <1>2, <2>1, <2>2, OneEntered
  <2>4. PICK D : D = CardsWith(C, i, shapes[i].denom)
    OBVIOUS
  <2>5. CardsAfter(u, i, to) = D
    BY <1>2, <1>3, <1>5, <2>4 DEF CardsAfter
  <2>6. D = IF \A card \in C : card[1] # i THEN C \cup {c} ELSE C
    BY <1>2, <2>4 DEF CardsWith
  <2>7. (\E k \in DOMAIN s : s[k][1] = i) <=> (\E card \in C : card[1] = i)
    BY <1>4 DEF FirstOf
  <2>8. D = FirstOf(r)
    <3>1. s \in Seq(Card) /\ c \in Card
      BY <1>4
    <3>2. FirstOf(r) = IF \E k \in DOMAIN s : s[k][1] = c[1] THEN FirstOf(s)
                       ELSE FirstOf(s) \cup {c}
      BY ONLY <2>3, <3>1, FirstAfter, ZenonT(60)
    <3>3. FirstOf(r) = IF \E k \in DOMAIN s : s[k][1] = i THEN C ELSE C \cup {c}
      BY <1>4, <3>2
    <3> QED
      BY <2>6, <2>7, <3>3
  <2>9. r \in Seq(Card) /\ \A k \in DOMAIN r : \E card \in D : card[1] = r[k][1]
    <3>1. PICK n : n = Len(s)
      OBVIOUS
    <3>2. /\ n \in Nat /\ DOMAIN s = 1 .. n /\ DOMAIN r = 1 .. n + 1
          /\ r \in Seq(Card)
          /\ r[n + 1] = c /\ \A k \in 1 .. n : r[k] = s[k]
      BY <1>4, <2>3, <3>1
    <3>3. C \subseteq D /\ \E card \in D : card[1] = i
      BY <1>4, <2>6
    <3>4. ASSUME NEW k \in 1 .. n
          PROVE  \E card \in D : card[1] = r[k][1]
      BY <1>4, <3>2, <3>3
    <3>5. \E card \in D : card[1] = r[n + 1][1]
      BY <1>4, <3>2, <3>3
    <3> QED
      BY <3>2, <3>4, <3>5
  <2> QED
    BY <2>2, <2>5, <2>8, <2>9 DEF CardsMirror, FirstOf
<1>6. CASE to # House
  <2>1. entered' = entered
    BY <1>1, <1>6, NoneEntered
  <2>2. CardsAfter(u, i, to) = u.escrowedCard
    BY <1>6 DEF CardsAfter
  <2> QED
    BY <2>1, <2>2, CardsStay, MirrorTypes
<1> QED
  BY <1>5, <1>6

\* A turn of the loop of _safeMint.
LEMMA SafeMintMirrored ==
    ASSUME CallsInv, CallsInv', Kept, NEW u, Mirrors(u), Witnessed, SafeMint
    PROVE  Kept' /\ Carried(u)
<1>1. PICK i \in NextToMint :
          /\ Mintable({i}, call.to)
          /\ UpdateOwners({}, {i}, call.to)
          /\ call' = [call EXCEPT !.todo = @ \ {i},
                                  !.hook = call.to \in Contracts]
          /\ log' = Append(log, Transfer(NoOne, call.to, i))
  BY DEF SafeMint
<1>2. PICK to : to = call.to
  OBVIOUS
<1>3. /\ call \in Frames /\ i \in call.todo /\ i \in Ids /\ to \in Accounts
      /\ owners[i] = NoOne
  BY <1>1, <1>2 DEF CallsInv, Framed, Frames, NextToMint
<1>4. /\ owners' = [j \in Ids |-> IF j = i THEN to ELSE owners[j]]
      /\ approvals' = [j \in Ids |-> IF j \in {} THEN NoOne ELSE approvals[j]]
      /\ operatorApprovals' = operatorApprovals
      /\ ownerToken' = ownerToken /\ tx' = tx /\ UNCHANGED storeVars
  BY <1>1, <1>2 DEF UpdateOwners, SafeMint
<1>5. call'.todo = call.todo \ {i} /\ call'.to = to /\ call # Idle
  BY <1>1, <1>2, <1>3 DEF Frames, Idle
<1>6. SettledOwners[i] = to /\ SettledOwners' = SettledOwners
  <2>1. SettledOwners[i] = to
    BY <1>2, <1>3 DEF SettledOwners
  <2>2. \A j \in Ids : (IF j \in call'.todo THEN call'.to ELSE owners'[j])
                       = (IF j \in call.todo THEN call.to ELSE owners[j])
    BY <1>2, <1>3, <1>4, <1>5
  <2> QED
    BY <2>1, <2>2 DEF SettledOwners
<1>7. PICK m : m = totalMinted
  OBVIOUS
<1>8. i \in 0 .. m - 1 /\ m \in Nat /\ to # NoOne /\ to \in Accounts
  BY <1>3, <1>6, <1>7, LiveMinted, ChainTypes, CallConstants
<1>9. PICK e : e = Transfer(NoOne, to, i)
  OBVIOUS
<1>10. Leads(tx.from, u, <<e>>, m, [u.token EXCEPT ![i].owner = to],
             OwnerRowAfter(u.collectionOwner, i, to), u.lineageEdge,
             Told(u.activity) \cup (IF NoOne = NoOne THEN {} ELSE {i}),
             CardsAfter(u, i, to))
  BY <1>3, <1>7, <1>8, <1>9, MirrorTypes, TransferEffect
<1>11. PICK g : g = [u.token EXCEPT ![i].owner = to]
  OBVIOUS
<1>12. PICK D : D = Told(u.activity) \cup (IF NoOne = NoOne THEN {} ELSE {i})
  OBVIOUS
<1>13. /\ RowsMirror(g)'
       /\ \A j \in 0 .. totalMinted - 1 : g[j].denom = u.token[j].denom
       /\ \A b \in 0 .. totalMinted - 1 : SettledOwners[b] = NoOne => g[b] = u.token[b]
  <2>1. /\ u.token \in [0 .. totalMinted - 1 -> Row] /\ RowsMirror(u.token)
        /\ i \in 0 .. totalMinted - 1
    BY <1>7, <1>8, MirrorTypes
  <2>2. /\ SettledOwners[i] # NoOne /\ SettledOwners'[i] # NoOne
        /\ \A j \in Ids : j # i => SettledOwners'[j] = SettledOwners[j]
    BY <1>6, <1>8
  <2> QED
    BY <1>4, <1>8, <1>11, <2>1, <2>2, RowsFollow
<1>14. composeStack' = composeStack /\ totalMinted' = totalMinted /\ shapes' = shapes
       /\ splitOriginRef' = splitOriginRef
  BY <1>4 DEF storeVars
<1>15. HeldMirror(g)' /\ MergesMirror(g, u.lineageEdge)'
  BY <1>13, <1>14, HeldStays, MergesStay, MirrorTypes
<1>16. OwnerRowMirrors(OwnerRowAfter(u.collectionOwner, i, to))'
  BY <1>3, <1>4, OwnerRowFollows, MirrorTypes
<1>17. CardsMirror(CardsAfter(u, i, to))'
  <2>1. owners[i] # House
    BY <1>3, ContractsAssumption, CallConstants
  <2> QED
    BY <1>4, <1>6, <1>7, <1>8, <1>14, <2>1, CardFollows
<1>18. touched' \cup call'.todo \subseteq D
  <2>1. touched' \subseteq touched \cup {i}
    BY <1>4, <1>14, TouchedWithin
  <2> QED
    BY <1>3, <1>5, <1>12, <2>1, MirrorTypes
<1>19. log' = log \o <<e>>
  BY <1>1, <1>2, <1>9
<1>20. Carried(u)
  BY <1>7, <1>10, <1>11, <1>12, <1>13, <1>14, <1>15, <1>16, <1>17, <1>18, <1>19,
     Leading
<1>21. Kept'
  BY <1>4, <1>5, <1>14 DEF Kept
<1> QED
  BY <1>20, <1>21

-----------------------------------------------------------------------------
(* Transfers, returns and burned backing.                                  *)

\* transferFrom, of its owner's own: the house releases what it took.
LEMMA TransferMirrored ==
    ASSUME CallsInv, Kept, NEW u, Mirrors(u), Witnessed,
           NEW caller \in Accounts, NEW i \in Live, NEW to \in Accounts,
           TransferCall(caller, i, to)
    PROVE  Kept' /\ Carried(u)
<1>1. /\ i \in Ids /\ owners[i] # NoOne
      /\ TransferFrom(caller, i, to) /\ call' = call
      /\ tx' = tx \/ tx' = [tx EXCEPT !.last = TransferKind(caller, to)]
      /\ log' = Append(log, Transfer(owners[i], to, i))
  BY DEF TransferCall, Live
<1>2. PICK from : from = owners[i]
  OBVIOUS
<1>3. owners[i] = caller
  BY <1>1, CallConstants DEF TransferFrom, Authorised, Kept
<1>4. /\ SettledOwners[i] = from /\ i \notin call.todo /\ from # NoOne
      /\ to = House => owners[i] # House
  <2>1. to = House => caller # House
    <3>1. SUFFICES ASSUME caller = House PROVE to # House
      OBVIOUS
    <3>2. ReleasedTo(to) /\ (call.hook \/ tx.open)
      BY <3>1 DEF TransferCall, MaySend
    <3>3. call.hook = TRUE => call # Idle
      BY DEF Idle
    <3>4. call.hook \in BOOLEAN
      BY DEF CallsInv, Framed, Frames
    <3> QED
      BY <3>2, <3>3, <3>4, ContractsAssumption DEF ReleasedTo, Kept
  <2> QED
    BY <1>1, <1>2, <1>3, <2>1, OwnedIsSettled
<1>5. /\ owners' = [owners EXCEPT ![i] = to]
      /\ approvals' = [approvals EXCEPT ![i] = NoOne]
      /\ operatorApprovals' = operatorApprovals
      /\ ownerToken' = ownerToken /\ UNCHANGED storeVars
  BY <1>1 DEF TransferFrom
<1>6. owners' = [j \in Ids |-> IF j = i THEN to ELSE owners[j]]
  <2>1. owners \in [Ids -> Accounts \cup {NoOne}]
    BY ChainTypes
  <2> QED
    BY <1>5, <2>1
<1>7. PICK m : m = totalMinted
  OBVIOUS
<1>8. i \in 0 .. m - 1 /\ m \in Nat /\ to # NoOne
  BY <1>1, <1>4, <1>7, LiveMinted, ChainTypes, CallConstants
<1>9. /\ SettledOwners'[i] = to
      /\ \A j \in Ids : j # i => SettledOwners'[j] = SettledOwners[j]
  BY <1>1, <1>4, <1>6 DEF SettledOwners
<1>10. PICK e : e = Transfer(from, to, i)
  OBVIOUS
<1>11. Leads(tx.from, u, <<e>>, m, [u.token EXCEPT ![i].owner = to],
             OwnerRowAfter(u.collectionOwner, i, to), u.lineageEdge,
             Told(u.activity) \cup (IF from = NoOne THEN {} ELSE {i}),
             CardsAfter(u, i, to))
  BY <1>1, <1>7, <1>8, <1>10, MirrorTypes, TransferEffect
<1>12. PICK g : g = [u.token EXCEPT ![i].owner = to]
  OBVIOUS
<1>13. PICK D : D = Told(u.activity) \cup (IF from = NoOne THEN {} ELSE {i})
  OBVIOUS
<1>14. /\ RowsMirror(g)'
       /\ \A j \in 0 .. totalMinted - 1 : g[j].denom = u.token[j].denom
       /\ \A b \in 0 .. totalMinted - 1 : SettledOwners[b] = NoOne => g[b] = u.token[b]
  <2>1. /\ u.token \in [0 .. totalMinted - 1 -> Row] /\ RowsMirror(u.token)
        /\ i \in 0 .. totalMinted - 1
    BY <1>7, <1>8, MirrorTypes
  <2>2. SettledOwners[i] # NoOne /\ SettledOwners'[i] # NoOne
    BY <1>4, <1>8, <1>9
  <2>3. /\ UNCHANGED storeVars
        /\ \A j \in Ids : j # i => SettledOwners'[j] = SettledOwners[j]
    BY <1>5, <1>9
  <2> QED
    BY <1>6, <1>12, <2>1, <2>2, <2>3, RowsFollow
<1>15. composeStack' = composeStack /\ totalMinted' = totalMinted /\ shapes' = shapes
       /\ splitOriginRef' = splitOriginRef
  BY <1>5 DEF storeVars
<1>16. HeldMirror(g)' /\ MergesMirror(g, u.lineageEdge)'
  BY <1>14, <1>15, HeldStays, MergesStay, MirrorTypes
<1>17. OwnerRowMirrors(OwnerRowAfter(u.collectionOwner, i, to))'
  BY <1>1, <1>5, <1>6, OwnerRowFollows, MirrorTypes
<1>18. CardsMirror(CardsAfter(u, i, to))'
  BY <1>4, <1>6, <1>7, <1>8, <1>15, CardFollows
<1>19. touched' \cup call'.todo \subseteq D
  <2>1. touched' \subseteq touched \cup {i}
    BY <1>6, <1>15, TouchedWithin
  <2>2. D = Told(u.activity) \cup {i}
    BY <1>4, <1>13
  <2> QED
    BY <1>1, <2>1, <2>2, MirrorTypes
<1>20. log' = log \o <<e>>
  BY <1>1, <1>2, <1>10
<1>21. Carried(u)
  BY <1>7, <1>11, <1>12, <1>13, <1>14, <1>15, <1>16, <1>17, <1>18, <1>19, <1>20,
     Leading
<1>22. Kept'
  <2>1. tx'.from = tx.from /\ tx'.open = tx.open
    <3>1. CASE tx' = tx
      BY <3>1
    <3>2. CASE tx' = [tx EXCEPT !.last = TransferKind(caller, to)]
      BY <3>2
    <3> QED
      BY <1>1, <3>1, <3>2
  <2>2. approvals' = [j \in Ids |-> NoOne]
    BY <1>5 DEF Kept
  <2> QED
    BY <1>1, <1>5, <1>15, <2>1, <2>2 DEF Kept
<1> QED
  BY <1>21, <1>22

\* The end of a call.
LEMMA ReturnMirrored ==
    ASSUME CallsInv, Kept, NEW u, Mirrors(u), Witnessed, CallReturns
    PROVE  Kept' /\ Carried(u)
<1>1. /\ call' = Idle /\ call.todo = {} /\ owners' = owners
      /\ approvals' = approvals /\ operatorApprovals' = operatorApprovals
      /\ UNCHANGED storeVars /\ tx' = tx
      /\ IF call.ownerTokenNext = 0
         THEN UNCHANGED <<ownerToken, log>>
         ELSE /\ ownerToken' = call.ownerTokenNext
              /\ log' = Append(log, OwnerTokenMoved(call.survivor + 1,
                                                    call.ownerTokenNext))
  BY DEF CallReturns, erc721Vars
<1>2. /\ totalMinted' = totalMinted /\ shapes' = shapes
      /\ composeStack' = composeStack /\ splitOriginRef' = splitOriginRef
      /\ splitRecords' = splitRecords
  BY <1>1 DEF storeVars
<1>3. call'.todo = {}
  BY <1>1 DEF Idle
<1>4. SettledOwners = owners /\ SettledOwners' = owners
  <2>1. owners \in [Ids -> Accounts \cup {NoOne}]
    BY ChainTypes
  <2> QED
    BY <1>1, <1>3, <2>1 DEF SettledOwners
<1>5. RowsMirror(u.token)'
  BY <1>1, <1>2, <1>4, SplitOfStays, RowStays, MirrorTypes DEF RowsMirror
<1>6. HeldMirror(u.token)' /\ MergesMirror(u.token, u.lineageEdge)'
  BY <1>2, MirrorTypes DEF HeldMirror, MergesMirror
<1>7. touched' \subseteq touched
  BY <1>1, <1>2, TouchedWithin
<1>8. CardsMirror(u.escrowedCard)'
  BY <1>1, NoneEntered, CardsStay, MirrorTypes
<1>9. Carried(u)
  <2>1. CASE call.ownerTokenNext = 0
    <3>1. ownerToken' = ownerToken /\ log' = log
      BY <1>1, <2>1
    <3>2. OwnerRowMirrors(u.collectionOwner)'
      BY <1>1, <3>1, MirrorTypes DEF OwnerRowMirrors
    <3>3. /\ u \in TablesOf(totalMinted')
          /\ touched' \cup call'.todo \subseteq Told(u.activity)
      BY <1>2, <1>3, <1>7, MirrorTypes
    <3>4. Mirrors(u)'
      BY <1>5, <1>6, <1>8, <3>2, <3>3 DEF Mirrors, Told, TablesOf
    <3> QED
      BY <3>1, <3>4 DEF Carried
  <2>2. CASE call.ownerTokenNext # 0
    <3>1. PICK next, from : next = call.ownerTokenNext /\ from = call.survivor + 1
      OBVIOUS
    <3>2. PICK e : e = OwnerTokenMoved(from, next)
      OBVIOUS
    <3>3. /\ next \in 0 .. MaxMinted /\ from \in 0 .. MaxMinted /\ next # 0
      <4>1. call \in Frames
        BY DEF CallsInv, Framed
      <4>2. call.survivor \in Ids /\ call.ownerTokenNext \in 0 .. MaxMinted
        BY <4>1 DEF Frames
      <4> QED
        BY <2>2, <3>1, <4>2, CallConstants
    <3>4. PICK m : m = totalMinted
      OBVIOUS
    <3>5. Leads(tx.from, u, <<e>>, m, u.token, RowOfOwner(u, m, next), u.lineageEdge,
                Told(u.activity), u.escrowedCard)
      BY <3>2, <3>3, <3>4, MirrorTypes, ChainTypes, MovedEffect
    <3>6. PICK i \in Ids : next = i + 1 /\ owners[i] # NoOne
      BY <1>4, <2>2, <3>1, SettledFacts DEF SettledOwnerToken
    <3>7. i \in Int /\ next - 1 = i /\ i \in 0 .. m - 1
      BY <1>4, <3>4, <3>6, LiveMinted, CallConstants
    <3>8. u.token[i].owner = owners[i]
      BY <1>4, <3>4, <3>6, <3>7, MirrorTypes DEF RowsMirror, RowMirrors, RowIs
    <3>9. PICK w : w = RowOfOwner(u, m, next)
      OBVIOUS
    <3>10. w.tokenId = next /\ w.address = owners[i]
      BY <3>7, <3>8, <3>9 DEF RowOfOwner
    <3>11. ownerToken' = next /\ log' = Append(log, e)
      BY <1>1, <2>2, <3>1, <3>2
    <3>12. OwnerRowMirrors(w)'
      BY <1>1, <3>3, <3>7, <3>10, <3>11 DEF OwnerRowMirrors, OwnerRowIs
    <3>13. touched' \cup call'.todo \subseteq Told(u.activity)
      BY <1>3, <1>7, MirrorTypes
    <3>14. log' = log \o <<e>>
      BY <3>11
    <3> QED
      BY <1>2, <1>5, <1>6, <1>8, <3>4, <3>5, <3>9, <3>12, <3>13, <3>14, Leading
  <2> QED
    BY <2>1, <2>2
<1>10. Kept'
  BY <1>1, <1>2 DEF Kept
<1> QED
  BY <1>9, <1>10

\* burnBacking.
LEMMA BlackMirrored ==
    ASSUME CallsInv, Kept, NEW u, Mirrors(u), Witnessed,
           NEW caller \in Accounts, NEW i \in Live, BurnBackingCall(caller, i)
    PROVE  Kept' /\ Carried(u)
<1>1. /\ call = Idle /\ call' = call /\ i \in Ids /\ owners[i] # NoOne
      /\ owners' = owners /\ approvals' = approvals
      /\ operatorApprovals' = operatorApprovals /\ ownerToken' = ownerToken
      /\ shapes' = [shapes EXCEPT ![i].black = TRUE]
      /\ totalMinted' = totalMinted
      /\ composeStack' = composeStack /\ splitOriginRef' = splitOriginRef
      /\ splitRecords' = splitRecords
      /\ tx.open /\ tx' = [tx EXCEPT !.last = "burnBacking"]
      /\ log' = log \o <<BlackShapeCreated(i)>>
  BY DEF BurnBackingCall, BurnBacking, MayEnter, MaySend, Sent, erc721Vars, Live
<1>2. SettledOwners = owners /\ SettledOwners' = owners /\ call'.todo = {}
  <2>1. SettledOwners = owners /\ call.todo = {}
    BY <1>1, Unguarded
  <2>2. SettledOwners' = SettledOwners
    BY <1>1 DEF SettledOwners
  <2> QED
    BY <1>1, <2>1, <2>2
<1>3. PICK m : m = totalMinted
  OBVIOUS
<1>4. i \in 0 .. m - 1 /\ m \in Nat /\ 0 .. m - 1 \subseteq Ids
  BY <1>1, <1>2, <1>3, LiveMinted, ChainTypes
<1>5. Leads(tx.from, u, <<BlackShapeCreated(i)>>, m,
            [u.token EXCEPT ![i] = BlackRow(@)], u.collectionOwner,
            u.lineageEdge, Told(u.activity) \cup {i}, u.escrowedCard)
  BY <1>1, <1>3, <1>4, MirrorTypes, BlackEffect
<1>6. PICK g : g = [u.token EXCEPT ![i] = BlackRow(@)]
  OBVIOUS
<1>7. /\ u.token \in [0 .. m - 1 -> Row]
      /\ \A j \in 0 .. m - 1 : RowMirrors(u.token[j], j)
  BY <1>3, MirrorTypes DEF RowsMirror
<1>8. /\ \A j \in 0 .. m - 1 : j # i => g[j] = u.token[j]
      /\ g[i] = BlackRow(u.token[i])
  BY <1>4, <1>6, <1>7
<1>9. PICK r : r = u.token[i] /\ r \in Row
  BY <1>4, <1>7
<1>10. /\ g[i].live = r.live /\ g[i].depth = r.depth /\ g[i].owner = r.owner
       /\ g[i].splitFrom = r.splitFrom /\ g[i].splitOrigin = r.splitOrigin
       /\ g[i].seed = r.seed /\ g[i].denom = r.denom
       /\ g[i].origins = r.origins /\ g[i].art = r.art
       /\ g[i].black = TRUE /\ g[i].backing = 0
  BY <1>8, <1>9 DEF Row, BlackRow
<1>11. PICK sh, sh2 : sh = shapes[i] /\ sh2 = shapes'[i]
  OBVIOUS
<1>12. /\ sh2.seed = sh.seed /\ sh2.denom = sh.denom /\ sh2.origins = sh.origins
       /\ sh2.art = sh.art /\ sh2.black = TRUE
       /\ \A j \in Ids : j # i => shapes'[j] = shapes[j]
  <2>1. shapes \in [Ids -> ShapeData] /\ sh \in ShapeData
    BY <1>1, <1>11, ChainTypes
  <2>2. sh2 = [sh EXCEPT !.black = TRUE]
    BY <1>1, <1>11, <2>1
  <2> QED
    BY <1>1, <1>11, <2>1, <2>2 DEF ShapeData
<1>13. RowMirrors(g[i], i)'
  <2>1. RowIs(r, SettledOwners[i], owners[i], sh, Len(composeStack[i]),
              SplitFromOf(i), SplitOriginOf(i))
    BY <1>4, <1>7, <1>9, <1>11 DEF RowMirrors
  <2>2. RowIs(g[i], owners[i], owners[i], sh2, Len(composeStack[i]),
              SplitFromOf(i), SplitOriginOf(i))
    BY <1>1, <1>2, <1>10, <1>12, <2>1 DEF RowIs, RowIsShape
  <2> QED
    BY <1>1, <1>2, <1>11, <2>2, SplitOfStays DEF RowMirrors
<1>14. ASSUME NEW j \in 0 .. m - 1, j # i PROVE RowMirrors(g[j], j)'
  <2>1. RowMirrors(g[j], j)
    BY <1>7, <1>8, <1>14
  <2>2. /\ SettledOwners'[j] = SettledOwners[j] /\ owners'[j] = owners[j]
        /\ shapes'[j] = shapes[j] /\ composeStack'[j] = composeStack[j]
    BY <1>1, <1>2, <1>4, <1>12, <1>14
  <2> QED
    BY <1>1, <2>1, <2>2, RowStays, SplitOfStays
<1>15. RowsMirror(g)'
  BY <1>1, <1>3, <1>13, <1>14 DEF RowsMirror
<1>16. HeldMirror(g)'
  <2>1. \A b \in 0 .. totalMinted - 1 : SettledOwners[b] = NoOne => g[b] = u.token[b]
    BY <1>1, <1>2, <1>3, <1>8
  <2> QED
    BY <1>1, <2>1, HeldStays, MirrorTypes
<1>17. MergesMirror(g, u.lineageEdge)'
  <2>1. \A j \in 0 .. totalMinted - 1 : g[j].denom = u.token[j].denom
    BY <1>3, <1>8, <1>9, <1>10
  <2> QED
    BY <1>1, <2>1, MergesStay, MirrorTypes
<1>18. OwnerRowMirrors(u.collectionOwner)'
  BY <1>1, MirrorTypes DEF OwnerRowMirrors
<1>19. touched' \cup call'.todo \subseteq Told(u.activity) \cup {i}
  <2>1. touched' \subseteq touched \cup {i}
    BY <1>1, <1>12, TouchedWithin
  <2> QED
    BY <1>2, <2>1, MirrorTypes
<1>20. CardsMirror(u.escrowedCard)'
  BY <1>1, NoneEntered, CardsStay, MirrorTypes
<1>21. Carried(u)
  BY <1>1, <1>3, <1>5, <1>6, <1>15, <1>16, <1>17, <1>18, <1>19, <1>20, Leading
<1>22. Kept'
  BY <1>1 DEF Kept
<1> QED
  BY <1>21, <1>22

-----------------------------------------------------------------------------
(* Redemptions.                                                            *)

\* Events that lead somewhere, after events that were read.
LEMMA LeadsThen ==
    ASSUME NEW sender, NEW t, NEW E, NEW u, NEW F, NEW m, NEW f, NEW w, NEW L,
           NEW D, NEW C, Yields(sender, t, E, u), Leads(sender, u, F, m, f, w, L, D, C)
    PROVE  Leads(sender, t, E \o F, m, f, w, L, D, C)
<1>1. PICK v \in TablesOf(m) :
          /\ Yields(sender, u, F, v)
          /\ v.token = f /\ v.collectionOwner = w
          /\ v.lineageEdge = L /\ D \subseteq Told(v.activity)
          /\ v.escrowedCard = C
  BY DEF Leads
<1>2. Yields(sender, t, E \o F, v)
  BY <1>1, YieldsThen
<1> QED
  BY <1>1, <1>2 DEF Leads

\* The owner row does not follow a token other than the owner token.
LEMMA OwnerRowStays ==
    ASSUME CallsInv, NEW w, OwnerRowMirrors(w), ownerToken' = ownerToken,
           \A j \in Ids : j = ownerToken - 1 => owners'[j] = owners[j]
    PROVE  OwnerRowMirrors(w)'
<1>1. ownerToken \in 0 .. MaxMinted /\ MaxMinted \in Nat
  BY ChainTypes, CallConstants
<1>2. CASE ownerToken = 0
  <2>1. OwnerRowIs(w, ownerToken', owners'[ownerToken' - 1])
    BY <1>2 DEF OwnerRowIs, OwnerRowMirrors
  <2> QED
    BY <2>1 DEF OwnerRowMirrors
<1>3. CASE ownerToken # 0
  <2>1. ownerToken - 1 \in Ids
    BY <1>1, <1>3 DEF Ids
  <2>2. owners'[ownerToken - 1] = owners[ownerToken - 1]
    BY <2>1
  <2>3. OwnerRowIs(w, ownerToken', owners'[ownerToken' - 1])
    BY <2>2 DEF OwnerRowMirrors
  <2> QED
    BY <2>3 DEF OwnerRowMirrors
<1> QED
  BY <1>2, <1>3

\* A token that died: its row is no longer live.
LEMMA RowDies ==
    ASSUME NEW r \in Row, NEW i, RowMirrors(r, i),
           SettledOwners'[i] = NoOne, owners'[i] = NoOne,
           composeStack'[i] = composeStack[i],
           SplitFromOf(i)' = SplitFromOf(i), SplitOriginOf(i)' = SplitOriginOf(i)
    PROVE  RowMirrors(DeadRow(r), i)'
<1>1. PICK x : x = DeadRow(r)
  OBVIOUS
<1>2. /\ x.live = FALSE /\ x.depth = r.depth
      /\ x.splitFrom = r.splitFrom /\ x.splitOrigin = r.splitOrigin
  BY <1>1 DEF DeadRow, Row
<1>3. RowIs(x, SettledOwners'[i], owners'[i], shapes'[i], Len(composeStack'[i]),
            SplitFromOf(i)', SplitOriginOf(i)')
  BY <1>2 DEF RowIs, RowMirrors
<1> QED
  BY <1>1, <1>3 DEF RowMirrors

\* redeem, burn and redeemBatch.
LEMMA RedeemMirrored ==
    ASSUME CallsInv, Kept, NEW u, Mirrors(u), Witnessed,
           NEW caller \in Accounts \ {House}, NEW S \in SUBSET Live,
           NEW allowBlack \in BOOLEAN, NEW to \in Accounts,
           RedeemCall(caller, S, allowBlack, to)
    PROVE  Kept' /\ Carried(u)
<1>1. /\ call = Idle /\ RedeemSet(caller, S, allowBlack)
      /\ call' \in {call, [Idle EXCEPT !.kind = "redeem", !.to = to, !.hook = TRUE]}
      /\ tx.open /\ tx' = [tx EXCEPT !.last = "redeem"]
      /\ log' = log \o RedeemLog(S, to)
  BY DEF RedeemCall, MayEnter, MaySend, Sent, Burned, Each, RedeemLog
<1>2. PICK E : E = RedeemLog(S, to)
  OBVIOUS
<1>3. /\ owners' = [i \in Ids |-> IF i \in {} THEN NoOne
                                  ELSE IF i \in S THEN NoOne ELSE owners[i]]
      /\ approvals' = [i \in Ids |-> IF i \in S THEN NoOne ELSE approvals[i]]
      /\ operatorApprovals' = operatorApprovals
      /\ ownerToken' = OwnerTokenAfterRedeeming(S)
      /\ shapes' = [i \in Ids |-> IF i \in S THEN Blank ELSE shapes[i]]
      /\ composeStack' = composeStack /\ splitRecords' = splitRecords
      /\ splitOriginRef' = splitOriginRef /\ totalMinted' = totalMinted
      /\ \A i \in S : owners[i] = caller
  BY <1>1 DEF RedeemSet, UpdateOwners, MayRedeem
<1>4. call'.todo = {}
  <2>1. CASE call' = call
    BY <1>1, <2>1 DEF Idle
  <2>2. CASE call' = [Idle EXCEPT !.kind = "redeem", !.to = to, !.hook = TRUE]
    BY <2>2 DEF Idle
  <2> QED
    BY <1>1, <2>1, <2>2
<1>5. /\ SettledOwners = owners /\ SettledOwners' = owners'
      /\ owners \in [Ids -> Accounts \cup {NoOne}]
  <2>1. SettledOwners = owners
    BY <1>1, Unguarded
  <2>2. owners' = [i \in Ids |-> owners'[i]]
    BY <1>3
  <2>3. SettledOwners' = owners'
    BY <1>4, <2>2 DEF SettledOwners
  <2> QED
    BY <2>1, <2>3, ChainTypes
<1>6. PICK m : m = totalMinted
  OBVIOUS
<1>7. /\ m \in Nat /\ 0 .. m - 1 \subseteq Ids
      /\ S \in SUBSET Ids /\ S \subseteq 0 .. m - 1
  <2>1. S \in SUBSET Ids /\ \A i \in S : owners[i] # NoOne
    BY DEF Live
  <2> QED
    BY <1>5, <1>6, <2>1, LiveMinted, ChainTypes
<1>8. PICK w : w = IF ownerToken - 1 \in S THEN [tokenId |-> 0, address |-> NoOne]
                   ELSE u.collectionOwner
  OBVIOUS
<1>9. PICK g : g = Dead(u, m, S)
  OBVIOUS
<1>10. Leads(tx.from, u, E, m, g, w, u.lineageEdge, Told(u.activity) \cup S,
             u.escrowedCard)
  <2>1. u \in TablesOf(m) /\ ownerToken \in 0 .. MaxMinted
    BY <1>6, MirrorTypes, ChainTypes
  <2>2. PICK sender : sender = tx.from
    OBVIOUS
  <2>3. Leads(sender, u, RedeemLog(S, to), m,
              Dead(u, m, S),
              IF ownerToken - 1 \in S THEN [tokenId |-> 0, address |-> NoOne]
              ELSE u.collectionOwner,
              u.lineageEdge, Told(u.activity) \cup S, u.escrowedCard)
    BY <1>7, <2>1, RedeemedEffect
  <2> QED
    BY <1>2, <1>8, <1>9, <2>2, <2>3
<1>11. /\ u.token \in [0 .. m - 1 -> Row]
       /\ \A j \in 0 .. m - 1 : RowMirrors(u.token[j], j)
  BY <1>6, MirrorTypes DEF RowsMirror
<1>12. \A j \in 0 .. m - 1 : g[j] = IF j \in S THEN DeadRow(u.token[j]) ELSE u.token[j]
  BY <1>9 DEF Dead, DeadRow
<1>13. RowsMirror(g)'
  <2>1. ASSUME NEW j \in 0 .. m - 1 PROVE RowMirrors(g[j], j)'
    <3>1. j \in Ids /\ u.token[j] \in Row /\ RowMirrors(u.token[j], j)
      BY <1>7, <1>11
    <3>2. composeStack'[j] = composeStack[j] /\ UNCHANGED <<splitRecords, splitOriginRef>>
      BY <1>3
    <3>3. CASE j \in S
      <4>1. owners'[j] = NoOne /\ SettledOwners'[j] = NoOne
        BY <1>3, <1>5, <3>1, <3>3
      <4>2. RowMirrors(DeadRow(u.token[j]), j)'
        BY <3>1, <3>2, <4>1, RowDies, SplitOfStays
      <4> QED
        BY <1>12, <3>3, <4>2
    <3>4. CASE j \notin S
      <4>1. /\ owners'[j] = owners[j] /\ SettledOwners'[j] = SettledOwners[j]
            /\ shapes'[j] = shapes[j]
        BY <1>3, <1>5, <3>1, <3>4
      <4>2. RowMirrors(u.token[j], j)'
        BY <3>1, <3>2, <4>1, RowStays, SplitOfStays
      <4> QED
        BY <1>12, <3>4, <4>2
    <3> QED
      BY <3>3, <3>4
  <2>2. totalMinted' = m
    BY <1>3, <1>6
  <2> QED
    BY <2>1, <2>2 DEF RowsMirror
<1>14. HeldMirror(g)'
  <2>1. ASSUME NEW b \in 0 .. totalMinted - 1, SettledOwners[b] = NoOne
        PROVE  g[b] = u.token[b]
    BY <1>5, <1>6, <1>12, <2>1 DEF Live
  <2> QED
    BY <1>3, <2>1, HeldStays, MirrorTypes
<1>15. MergesMirror(g, u.lineageEdge)'
  <2>1. ASSUME NEW j \in 0 .. totalMinted - 1 PROVE g[j].denom = u.token[j].denom
    <3>1. u.token[j] \in Row /\ g[j] \in {u.token[j], DeadRow(u.token[j])}
      BY <1>6, <1>11, <1>12
    <3> QED
      BY <3>1 DEF DeadRow, Row
  <2> QED
    BY <1>3, <2>1, MergesStay, MirrorTypes
<1>16. OwnerRowMirrors(w)'
  <2>1. CASE ownerToken - 1 \in S
    <3>1. ownerToken' = 0 /\ w.tokenId = 0 /\ w.address = NoOne
      BY <1>3, <1>8, <2>1 DEF OwnerTokenAfterRedeeming
    <3> QED
      BY <3>1 DEF OwnerRowMirrors, OwnerRowIs
  <2>2. CASE ownerToken - 1 \notin S
    <3>1. ownerToken' = ownerToken /\ w = u.collectionOwner
      BY <1>3, <1>8, <2>2 DEF OwnerTokenAfterRedeeming
    <3>2. \A j \in Ids : j = ownerToken - 1 => owners'[j] = owners[j]
      BY <1>3, <2>2
    <3> QED
      BY <3>1, <3>2, OwnerRowStays, MirrorTypes
  <2> QED
    BY <2>1, <2>2
<1>17. touched' \cup call'.todo \subseteq Told(u.activity) \cup S
  <2>1. touched' \subseteq touched \cup S
    BY <1>3, TouchedWithin
  <2> QED
    BY <1>4, <2>1, MirrorTypes
<1>18. CardsMirror(u.escrowedCard)'
  <2>1. NoOne # House /\ caller # House
    BY ContractsAssumption, CallConstants
  <2>2. \A i \in Ids : owners'[i] = House <=> owners[i] = House
    BY <1>3, <2>1
  <2> QED
    BY <2>2, NoneEntered, CardsStay, MirrorTypes
<1>19. log' = log \o E /\ totalMinted' = m
  BY <1>1, <1>2, <1>3, <1>6
<1>20. Carried(u)
  BY <1>10, <1>13, <1>14, <1>15, <1>16, <1>17, <1>18, <1>19, Leading
<1>21. Kept'
  <2>1. approvals' = [i \in Ids |-> NoOne]
    BY <1>3 DEF Kept
  <2>2. tx' = [tx EXCEPT !.last = "redeem"]
    BY <1>1, Zenon
  <2>3. tx'.from = tx.from /\ tx'.open = tx.open
    BY <2>2
  <2> QED
    BY <1>1, <1>3, <2>1, <2>3 DEF Kept
<1> QED
  BY <1>20, <1>21

-----------------------------------------------------------------------------
(* Composing.                                                              *)

\* Another token's edge, and a split, leave the merges of a token.
LEMMA EdgeOfAnother ==
    ASSUME NEW L \in Seq(Edge), NEW kind, NEW p, NEW c, NEW d, NEW i,
           i # p \/ kind = "split"
    PROVE  MergesFrom(Append(L, Edges(kind, p, c, d)), i) = MergesFrom(L, i)
<1>1. PICK e : e = Edges(kind, p, c, d)
  OBVIOUS
<1>2. e.parent = p /\ e.kind = kind
  BY <1>1 DEF Edges
<1>3. MergesFrom(Append(L, e), i) = Replayed(MergesFrom(L, i), e, i)
  BY MergesAppend
<1> QED
  BY <1>1, <1>2, <1>3 DEF Replayed

\* The edge of a compose is one merge more.
LEMMA EdgeOfCompose ==
    ASSUME NEW L \in Seq(Edge), NEW p, NEW c, NEW d
    PROVE  MergesFrom(Append(L, Edges("continuation", p, c, d)), p)
               = Append(MergesFrom(L, p), [burned |-> c, denom |-> d])
<1>1. PICK e : e = Edges("continuation", p, c, d)
  OBVIOUS
<1>2. /\ e.parent = p /\ e.kind = "continuation"
      /\ e.children = c /\ e.parentDenom = d
  BY <1>1 DEF Edges
<1>3. MergesFrom(Append(L, e), p) = Replayed(MergesFrom(L, p), e, p)
  BY MergesAppend
<1> QED
  BY <1>1, <1>2, <1>3 DEF Replayed, Replay

\* The edge of a decompose undoes the last merge.
LEMMA EdgeOfDecompose ==
    ASSUME NEW L \in Seq(Edge), NEW p, NEW c, NEW d, MergesFrom(L, p) # <<>>
    PROVE  MergesFrom(Append(L, Edges("revival", p, c, d)), p)
               = Front(MergesFrom(L, p))
<1>1. PICK e : e = Edges("revival", p, c, d)
  OBVIOUS
<1>2. e.parent = p /\ e.kind = "revival"
  BY <1>1 DEF Edges
<1>3. MergesFrom(Append(L, e), p) = Replayed(MergesFrom(L, p), e, p)
  BY MergesAppend
<1> QED
  BY <1>1, <1>2, <1>3 DEF Replayed, Replay

\* What compose does, in the terms of the tables.
LEMMA ComposeParts ==
    ASSUME CallsInv, CallsInv', NEW caller \in Accounts, NEW s \in Live,
           NEW B \in SUBSET (Live \ {s}), ComposeCall(caller, s, B)
    PROVE  /\ call = Idle /\ call' = call /\ s \in Ids /\ B \in SUBSET Ids
           /\ s \notin B /\ owners[s] = caller /\ ~shapes[s].black
           /\ \A b \in B : owners[b] = caller /\ ~shapes[b].black
           /\ owners' = [i \in Ids |-> IF i \in B THEN NoOne ELSE owners[i]]
           /\ approvals' = [i \in Ids |-> IF i \in B THEN NoOne ELSE approvals[i]]
           /\ operatorApprovals' = operatorApprovals
           /\ ownerToken' = IF ownerToken - 1 \in B THEN s + 1 ELSE ownerToken
           /\ shapes' \in [Ids -> ShapeData]
           /\ \A i \in Ids : i # s /\ i \notin B => shapes'[i] = shapes[i]
           /\ shapes'[s].seed = shapes[s].seed /\ ~shapes'[s].black
           /\ composeStack' = [composeStack EXCEPT ![s] = Append(@, RecordOf(s, B))]
           /\ UNCHANGED <<splitRecords, splitOriginRef, totalMinted>>
           /\ tx.open /\ tx' = [tx EXCEPT !.last = "compose"]
           /\ log' = log \o (BurnLog(B, s + 1, caller)
                             \o <<ComposedInto(s, B, shapes'[s]),
                                  ArtSet(s, shapes'[s].art)>>)
<1>1. /\ call = Idle /\ call' = call /\ Compose(caller, s, B)
      /\ tx.open /\ tx' = [tx EXCEPT !.last = "compose"]
      /\ log' = log \o (BurnLog(B, s + 1, caller)
                        \o <<ComposedInto(s, B, shapes'[s]),
                             ArtSet(s, shapes'[s].art)>>)
  BY DEF ComposeCall, MayEnter, MaySend, Sent, Burned, Each, BurnLog
<1>2. s \in Ids /\ B \in SUBSET Ids /\ s \notin B
  BY DEF Live
<1>3. /\ owners[s] = caller /\ ~shapes[s].black
      /\ \A b \in B : owners[b] = caller /\ ~shapes[b].black
      /\ owners' = [i \in Ids |-> IF i \in {} THEN NoOne
                                  ELSE IF i \in B THEN NoOne ELSE owners[i]]
      /\ approvals' = [i \in Ids |-> IF i \in B THEN NoOne ELSE approvals[i]]
      /\ operatorApprovals' = operatorApprovals
      /\ ownerToken' = IF ownerToken - 1 \in B THEN s + 1 ELSE ownerToken
      /\ composeStack' = [composeStack EXCEPT ![s] = Append(@, RecordOf(s, B))]
      /\ UNCHANGED <<splitRecords, splitOriginRef, totalMinted>>
  BY <1>1 DEF Compose, MayCompose, CallerOwnsLive, UpdateOwners,
              OwnerTokenAfterCompose
<1>4. owners' = [i \in Ids |-> IF i \in B THEN NoOne ELSE owners[i]]
  BY <1>3
<1>5. shapes' \in [Ids -> ShapeData]
  BY DEF CallsInv, Settled!TypeOK, Settled!Ids, Ids, Settled!ShapeData,
     ShapeData, Settled!Seeds, Seeds, Settled!Denoms, Denoms
<1>6. PICK d \in Denoms :
          shapes' = [i \in Ids |-> IF i = s THEN Composed(s, B, d)
                                   ELSE IF i \in B THEN Blank ELSE shapes[i]]
  BY <1>1 DEF Compose
<1>7. \A i \in Ids : i # s /\ i \notin B => shapes'[i] = shapes[i]
  BY <1>6
<1>8. shapes'[s].seed = shapes[s].seed /\ shapes'[s].black = shapes[s].black
  <2>1. PICK sh, o, x : /\ sh = shapes[s] /\ o = SumOver(OriginCounts, B \cup {s})
                        /\ x = ComposeArt[<<shapes[s].art,
                                            {shapes[b].art : b \in B}, d>>]
    OBVIOUS
  <2>2. sh \in ShapeData
    BY <1>2, <2>1, ChainTypes
  <2>3. shapes'[s] = [sh EXCEPT !.denom = d, !.origins = o, !.art = x]
    BY <1>2, <1>6, <2>1 DEF Composed
  <2> QED
    BY <2>1, <2>2, <2>3 DEF ShapeData
<1> QED
  BY <1>1, <1>2, <1>3, <1>4, <1>5, <1>7, <1>8

\* The row of the survivor of a compose.
LEMMA RowComposed ==
    ASSUME NEW r \in Row, NEW s, RowMirrors(r, s), NEW sh, sh = shapes'[s],
           SettledOwners[s] # NoOne, NEW B, NEW T,
           shapes[s].seed = sh.seed, shapes[s].black = FALSE, sh.black = FALSE,
           SettledOwners'[s] = SettledOwners[s], owners'[s] = owners[s],
           composeStack[s] \in Seq(T),
           composeStack'[s] = Append(composeStack[s], RecordOf(s, B)),
           SplitFromOf(s)' = SplitFromOf(s), SplitOriginOf(s)' = SplitOriginOf(s)
    PROVE  RowMirrors(ComposedRow(r, sh.denom, sh.origins, sh.art), s)'
<1>1. PICK d, o, a, n : /\ d = sh.denom /\ o = sh.origins /\ a = sh.art
                        /\ n = r.depth + 1
  OBVIOUS
<1>2. PICK b : b = Units[d]
  OBVIOUS
<1>3. PICK x : x = ComposedRow(r, d, o, a)
  OBVIOUS
<1>4. x = [r EXCEPT !.denom = d, !.backing = b, !.origins = o, !.depth = n,
                    !.art = a]
  BY <1>1, <1>2, <1>3 DEF ComposedRow, Row
<1>5. /\ x.denom = d /\ x.backing = b /\ x.origins = o /\ x.depth = n /\ x.art = a
      /\ x.seed = r.seed /\ x.black = r.black /\ x.live = r.live
      /\ x.owner = r.owner /\ x.splitFrom = r.splitFrom
      /\ x.splitOrigin = r.splitOrigin
  BY <1>4 DEF Row
<1>6. Len(composeStack'[s]) = Len(composeStack[s]) + 1
  OBVIOUS
<1>7. RowIs(r, SettledOwners[s], owners[s], shapes[s], Len(composeStack[s]),
            SplitFromOf(s), SplitOriginOf(s))
  BY DEF RowMirrors
<1>8. r.black \in BOOLEAN
  BY DEF Row
<1>9. RowIs(x, SettledOwners'[s], owners'[s], sh, Len(composeStack'[s]),
            SplitFromOf(s), SplitOriginOf(s))
  <2>1. /\ r.live <=> SettledOwners[s] # NoOne
        /\ r.depth = Len(composeStack[s])
        /\ r.splitFrom = SplitFromOf(s) /\ r.splitOrigin = SplitOriginOf(s)
        /\ owners[s] # NoOne => r.owner = owners[s]
        /\ r.seed = shapes[s].seed /\ r.black = shapes[s].black
    BY <1>7 DEF RowIs, RowIsShape
  <2>2. x.live <=> SettledOwners'[s] # NoOne
    BY <1>5, <2>1
  <2>3. x.depth = Len(composeStack'[s])
    BY <1>1, <1>5, <1>6, <2>1
  <2>4. x.splitFrom = SplitFromOf(s) /\ x.splitOrigin = SplitOriginOf(s)
    BY <1>5, <2>1
  <2>5. owners'[s] # NoOne => x.owner = owners'[s]
    BY <1>5, <2>1
  <2>6. RowIsShape(x, sh)
    BY <1>1, <1>5, <2>1 DEF RowIsShape
  <2>7. x.black = sh.black
    BY <1>5, <2>1
  <2>8. x.backing = IF sh.black THEN 0 ELSE Units[sh.denom]
    BY <1>1, <1>2, <1>5
  <2> QED
    BY <2>2, <2>3, <2>4, <2>5, <2>6, <2>7, <2>8 DEF RowIs
<1> QED
  BY <1>1, <1>3, <1>9 DEF RowMirrors

\* compose.
LEMMA ComposeMirrored ==
    ASSUME CallsInv, CallsInv', Kept, NEW u, Mirrors(u), Witnessed,
           NEW caller \in Accounts \ {House}, NEW s \in Live,
           NEW B \in SUBSET (Live \ {s}), ComposeCall(caller, s, B)
    PROVE  Kept' /\ Carried(u)
<1>1. /\ call = Idle /\ call' = call /\ s \in Ids /\ B \in SUBSET Ids
      /\ s \notin B /\ owners[s] = caller /\ ~shapes[s].black
      /\ \A b \in B : owners[b] = caller /\ ~shapes[b].black
      /\ owners' = [i \in Ids |-> IF i \in B THEN NoOne ELSE owners[i]]
      /\ approvals' = [i \in Ids |-> IF i \in B THEN NoOne ELSE approvals[i]]
      /\ operatorApprovals' = operatorApprovals
      /\ ownerToken' = IF ownerToken - 1 \in B THEN s + 1 ELSE ownerToken
      /\ shapes' \in [Ids -> ShapeData]
      /\ \A i \in Ids : i # s /\ i \notin B => shapes'[i] = shapes[i]
      /\ shapes'[s].seed = shapes[s].seed /\ ~shapes'[s].black
      /\ composeStack' = [composeStack EXCEPT ![s] = Append(@, RecordOf(s, B))]
      /\ UNCHANGED <<splitRecords, splitOriginRef, totalMinted>>
      /\ tx.open /\ tx' = [tx EXCEPT !.last = "compose"]
      /\ log' = log \o (BurnLog(B, s + 1, caller)
                        \o <<ComposedInto(s, B, shapes'[s]),
                             ArtSet(s, shapes'[s].art)>>)
  BY ComposeParts
<1>2. PICK m, sh, sender, next, rec :
          /\ m = totalMinted /\ sh = shapes'[s] /\ sender = tx.from /\ next = s + 1
          /\ rec = RecordOf(s, B)
  OBVIOUS
<1>3. /\ SettledOwners = owners /\ SettledOwners' = owners'
      /\ owners \in [Ids -> Accounts \cup {NoOne}] /\ call'.todo = {}
  <2>1. SettledOwners = owners /\ call.todo = {}
    BY <1>1, Unguarded
  <2>2. owners' = [i \in Ids |-> owners'[i]]
    BY <1>1
  <2>3. call'.todo = {}
    BY <1>1, <2>1
  <2>4. SettledOwners' = owners'
    BY <2>2, <2>3 DEF SettledOwners
  <2> QED
    BY <2>1, <2>3, <2>4, ChainTypes
<1>4. /\ m \in Nat /\ 0 .. m - 1 \subseteq Ids /\ next \in 0 .. MaxMinted
      /\ s \in 0 .. m - 1 /\ B \in SUBSET (0 .. m - 1) /\ sh \in ShapeData
      /\ caller # NoOne
  <2>1. caller # NoOne
    BY CallConstants
  <2>2. s \in 0 .. m - 1 /\ B \in SUBSET (0 .. m - 1)
    BY <1>1, <1>2, <1>3, <2>1, LiveMinted
  <2>3. next \in 0 .. MaxMinted
    BY <1>1, <1>2, CallConstants
  <2>4. sh \in ShapeData
    BY <1>1, <1>2
  <2> QED
    BY <1>2, <2>1, <2>2, <2>3, <2>4, ChainTypes
<1>5. PICK v \in TablesOf(m) :
          /\ Yields(sender, u, BurnLog(B, next, caller), v)
          /\ v.token = u.token /\ v.collectionOwner = OwnerRowLeft(u, m, B, next)
          /\ v.lineageEdge = u.lineageEdge
          /\ Told(u.activity) \subseteq Told(v.activity)
          /\ v.escrowedCard = u.escrowedCard
  <2>1. u \in TablesOf(m) /\ ownerToken \in 0 .. MaxMinted
    BY <1>2, MirrorTypes, ChainTypes
  <2>2. Leads(sender, u, BurnLog(B, next, caller), m, u.token,
              OwnerRowLeft(u, m, B, next), u.lineageEdge, Told(u.activity),
              u.escrowedCard)
    BY <1>1, <1>4, <2>1, BurnedEffect
  <2> QED
    BY <2>2 DEF Leads
<1>6. PICK g, w, L, D :
          /\ g = ComposedRows(v, m, s, B, sh) /\ w = v.collectionOwner
          /\ L = Append(v.lineageEdge, Edges("continuation", s, B, sh.denom))
          /\ D = Told(v.activity) \cup {s} \cup B
  OBVIOUS
<1>7. PICK E, F : /\ E = BurnLog(B, next, caller)
                  /\ F = <<ComposedInto(s, B, sh), ArtSet(s, sh.art)>>
  OBVIOUS
<1>8. Leads(sender, u, E \o F, m, g, w, L, D, v.escrowedCard)
  <2>1. Leads(sender, v, <<ComposedInto(s, B, sh), ArtSet(s, sh.art)>>, m,
              ComposedRows(v, m, s, B, sh), v.collectionOwner,
              Append(v.lineageEdge, Edges("continuation", s, B, sh.denom)),
              Told(v.activity) \cup {s} \cup B, v.escrowedCard)
    BY <1>1, <1>4, ComposedEffect
  <2> QED
    BY <1>5, <1>6, <1>7, <2>1, LeadsThen
<1>9. /\ u.token \in [0 .. m - 1 -> Row]
      /\ \A j \in 0 .. m - 1 : RowMirrors(u.token[j], j)
  BY <1>2, MirrorTypes DEF RowsMirror
<1>10. \A j \in 0 .. m - 1 :
          g[j] = IF j = s THEN ComposedRow(u.token[j], sh.denom, sh.origins, sh.art)
                 ELSE IF j \in B THEN DeadRow(u.token[j]) ELSE u.token[j]
  BY <1>5, <1>6 DEF ComposedRows
<1>11. /\ composeStack[s] \in Seq(ComposeRecord)
       /\ composeStack'[s] = Append(composeStack[s], rec)
       /\ \A j \in Ids : j # s => composeStack'[j] = composeStack[j]
  BY <1>1, <1>2, ChainTypes
<1>12. RowsMirror(g)'
  <2>1. ASSUME NEW j \in 0 .. m - 1 PROVE RowMirrors(g[j], j)'
    <3>1. j \in Ids /\ u.token[j] \in Row /\ RowMirrors(u.token[j], j)
      BY <1>4, <1>9
    <3>2. SplitFromOf(j)' = SplitFromOf(j) /\ SplitOriginOf(j)' = SplitOriginOf(j)
      BY <1>1, SplitOfStays
    <3>3. CASE j = s
      <4>1. /\ SettledOwners[s] # NoOne /\ owners'[s] = owners[s]
            /\ SettledOwners'[s] = SettledOwners[s]
        BY <1>1, <1>3, <1>4
      <4>2. PICK r, B2, T : /\ r = u.token[s] /\ B2 = B /\ T = ComposeRecord
        OBVIOUS
      <4>3. /\ r \in Row /\ RowMirrors(r, s) /\ sh = shapes'[s]
            /\ SplitFromOf(s)' = SplitFromOf(s)
            /\ SplitOriginOf(s)' = SplitOriginOf(s)
        BY <1>2, <3>1, <3>2, <3>3, <4>2
      <4>4. /\ shapes[s].seed = sh.seed /\ shapes[s].black = FALSE
            /\ sh.black = FALSE
        <5>1. shapes[s] \in ShapeData /\ sh \in ShapeData
          BY <1>1, <1>4, ChainTypes
        <5>2. shapes[s].black \in BOOLEAN /\ sh.black \in BOOLEAN
          BY <5>1 DEF ShapeData
        <5>3. ~shapes[s].black /\ ~sh.black /\ shapes[s].seed = sh.seed
          BY <1>1, <1>2
        <5> QED
          BY <5>2, <5>3
      <4>5. /\ composeStack[s] \in Seq(T)
            /\ composeStack'[s] = Append(composeStack[s], RecordOf(s, B2))
        BY <1>2, <1>11, <4>2
      <4>6. RowMirrors(ComposedRow(r, sh.denom, sh.origins, sh.art), s)'
        BY ONLY <4>1, <4>3, <4>4, <4>5, RowComposed
      <4> QED
        BY <1>10, <3>3, <4>2, <4>6
    <3>4. CASE j # s /\ j \in B
      <4>1. owners'[j] = NoOne /\ SettledOwners'[j] = NoOne
        BY <1>1, <1>3, <3>1, <3>4
      <4>2. RowMirrors(DeadRow(u.token[j]), j)'
        BY <1>11, <3>1, <3>2, <3>4, <4>1, RowDies
      <4> QED
        BY <1>10, <3>4, <4>2
    <3>5. CASE j # s /\ j \notin B
      <4>1. /\ owners'[j] = owners[j] /\ SettledOwners'[j] = SettledOwners[j]
            /\ shapes'[j] = shapes[j]
        BY <1>1, <1>3, <3>1, <3>5
      <4>2. RowMirrors(u.token[j], j)'
        BY <1>11, <3>1, <3>2, <3>5, <4>1, RowStays
      <4> QED
        BY <1>10, <3>5, <4>2
    <3> QED
      BY <3>3, <3>4, <3>5
  <2>2. totalMinted' = m
    BY <1>1, <1>2
  <2> QED
    BY <2>1, <2>2 DEF RowsMirror
<1>13. HeldMirror(g)'
  <2> SUFFICES ASSUME NEW t \in Ids, NEW n \in 1 .. Len(composeStack'[t]),
                      NEW b \in composeStack'[t][n].burned
               PROVE  RowIsInput(g[b], composeStack'[t][n].inputs[b])
    BY DEF HeldMirror
  <2>1. ASSUME n \in 1 .. Len(composeStack[t]),
               composeStack'[t][n] = composeStack[t][n]
        PROVE  RowIsInput(g[b], composeStack'[t][n].inputs[b])
    <3>1. b \in 0 .. totalMinted - 1 /\ SettledOwners[b] = NoOne
      BY <2>1, HeldDead
    <3>2. b # s /\ b \notin B
      BY <1>1, <1>3, <1>4, <3>1
    <3>3. g[b] = u.token[b]
      BY <1>2, <1>10, <3>1, <3>2
    <3>4. HeldMirror(u.token)
      BY MirrorTypes
    <3>5. RowIsInput(u.token[b], composeStack[t][n].inputs[b])
      BY <2>1, <3>4 DEF HeldMirror
    <3> QED
      BY <2>1, <3>3, <3>5
  <2>2. CASE t # s
    <3>1. composeStack'[t] = composeStack[t]
      BY <1>11, <2>2
    <3> QED
      BY <2>1, <3>1
  <2>3. CASE t = s
    <3>1. PICK k : k = Len(composeStack[s]) /\ k \in Nat
      BY <1>11
    <3>2. /\ Len(composeStack'[s]) = k + 1
          /\ composeStack'[s][k + 1] = rec
          /\ \A j \in 1 .. k : composeStack'[s][j] = composeStack[s][j]
      BY <1>11, <3>1
    <3>3. CASE n \in 1 .. k
      BY <2>1, <2>3, <3>1, <3>2, <3>3
    <3>4. CASE n \notin 1 .. k
      <4>1. n = k + 1
        BY <2>3, <3>1, <3>2, <3>4
      <4>2. composeStack'[t][n] = rec /\ b \in B
        BY <1>2, <2>3, <3>2, <4>1 DEF RecordOf
      <4>3. rec.inputs[b] = SnapshotOf(b)
        BY <1>1, <1>2, <4>2 DEF RecordOf
      <4>4. PICK r, old : r = u.token[b] /\ old = shapes[b]
        OBVIOUS
      <4>5. b \in 0 .. m - 1 /\ r \in Row /\ g[b] = DeadRow(r) /\ b # s
        BY <1>1, <1>4, <1>9, <1>10, <4>2, <4>4
      <4>6. RowIsShape(r, old) /\ r.black = old.black
            /\ r.backing = IF old.black THEN 0 ELSE Units[old.denom]
        <5>1. SettledOwners[b] # NoOne
          BY <1>1, <1>3, <1>4, <4>2
        <5>2. RowMirrors(r, b)
          BY <1>9, <4>4, <4>5
        <5> QED
          BY <4>4, <5>1, <5>2 DEF RowMirrors, RowIs
      <4>7. old.black = FALSE
        <5>1. old \in ShapeData /\ ~old.black
          BY <1>1, <4>2, <4>4, ChainTypes
        <5> QED
          BY <5>1 DEF ShapeData
      <4>8. PICK x, y : x = DeadRow(r) /\ y = SnapshotOf(b)
        OBVIOUS
      <4>9. /\ x.seed = r.seed /\ x.denom = r.denom /\ x.origins = r.origins
            /\ x.art = r.art /\ x.black = r.black /\ x.backing = r.backing
        BY <4>5, <4>8 DEF DeadRow, Row
      <4>10. /\ y.seed = old.seed /\ y.denom = old.denom
             /\ y.origins = old.origins /\ y.art = old.art
        BY <4>4, <4>8 DEF SnapshotOf
      <4>11. RowIsInput(x, y)
        BY <4>6, <4>7, <4>9, <4>10 DEF RowIsInput, RowIsShape
      <4> QED
        BY <4>2, <4>3, <4>5, <4>8, <4>11
    <3> QED
      BY <3>3, <3>4
  <2> QED
    BY <2>2, <2>3
<1>14. OwnerRowMirrors(w)'
  <2>1. CASE ownerToken - 1 \in B
    <3>1. w = RowOfOwner(u, m, next) /\ ownerToken' = next
      BY <1>1, <1>2, <1>5, <1>6, <2>1 DEF OwnerRowLeft
    <3>2. next - 1 = s /\ next # 0
      BY <1>1, <1>2, CallConstants
    <3>3. w.tokenId = next /\ w.address = u.token[s].owner
      BY <1>4, <3>1, <3>2 DEF RowOfOwner
    <3>4. u.token[s].owner = owners[s] /\ owners'[s] = owners[s]
      BY <1>1, <1>4, <1>9 DEF RowMirrors, RowIs
    <3> QED
      BY <3>1, <3>2, <3>3, <3>4 DEF OwnerRowMirrors, OwnerRowIs
  <2>2. CASE ownerToken - 1 \notin B
    <3>1. w = u.collectionOwner /\ ownerToken' = ownerToken
      BY <1>1, <1>5, <1>6, <2>2 DEF OwnerRowLeft
    <3>2. \A j \in Ids : j = ownerToken - 1 => owners'[j] = owners[j]
      BY <1>1, <2>2
    <3> QED
      BY <3>1, <3>2, OwnerRowStays, MirrorTypes
  <2> QED
    BY <2>1, <2>2
<1>15. MergesMirror(g, L)'
  <2>1. PICK K : K = u.lineageEdge /\ K \in Seq(Edge)
    BY MirrorTypes
  <2>2. L = Append(K, Edges("continuation", s, B, sh.denom))
    BY <1>5, <1>6, <2>1
  <2>3. MergesMirror(u.token, K)
    BY <2>1, MirrorTypes
  <2>4. \A i : i # s => MergesFrom(L, i) = MergesFrom(K, i)
    BY <2>1, <2>2, EdgeOfAnother
  <2>5. ASSUME NEW j \in 0 .. m - 1
        PROVE  MergesFrom(L, j) = Standing(composeStack'[j], g[j].denom)
    <3>1. CASE j = s
      <4>1. PICK d, e, st : d = u.token[s].denom /\ e = sh.denom
                            /\ st = composeStack[s]
        OBVIOUS
      <4>2. MergesFrom(K, s) = Standing(st, d)
        BY <1>2, <1>4, <2>3, <4>1 DEF MergesMirror
      <4>3. MergesFrom(L, s) = Append(Standing(st, d), [burned |-> B, denom |-> e])
        BY <2>1, <2>2, <4>1, <4>2, EdgeOfCompose
      <4>4. rec.burned = B /\ rec.denom = d
        <5>1. shapes[s].denom = d
          BY <1>1, <1>3, <1>4, <1>9, <4>1 DEF RowMirrors, RowIs, RowIsShape
        <5> QED
          BY <1>2, <5>1 DEF RecordOf
      <4>5. Append(Standing(st, d), [burned |-> rec.burned, denom |-> e])
            = Standing(Append(st, rec), e)
        BY <1>11, <4>1, <4>4, StandingPush
      <4>6. g[s].denom = e
        <5>1. g[s] = ComposedRow(u.token[s], e, sh.origins, sh.art)
          BY <1>4, <1>10, <4>1
        <5>2. u.token[s] \in Row
          BY <1>4, <1>9
        <5> QED
          BY <5>1, <5>2 DEF ComposedRow, Row
      <4> QED
        BY <1>11, <3>1, <4>1, <4>3, <4>4, <4>5, <4>6
    <3>2. CASE j # s
      <4>1. g[j].denom = u.token[j].denom
        <5>1. u.token[j] \in Row /\ g[j] \in {u.token[j], DeadRow(u.token[j])}
          BY <1>9, <1>10, <3>2
        <5> QED
          BY <5>1 DEF DeadRow, Row
      <4>2. MergesFrom(K, j) = Standing(composeStack[j], u.token[j].denom)
        BY <1>2, <2>3 DEF MergesMirror
      <4> QED
        BY <1>4, <1>11, <2>4, <3>2, <4>1, <4>2
    <3> QED
      BY <3>1, <3>2
  <2>6. ASSUME NEW i \in Ids, i >= m PROVE MergesFrom(L, i) = <<>>
    <3>1. i # s
      BY <1>4, <2>6
    <3>2. MergesFrom(K, i) = <<>>
      BY <1>2, <2>3, <2>6 DEF MergesMirror
    <3> QED
      BY <2>4, <3>1, <3>2
  <2>7. totalMinted' = m
    BY <1>1, <1>2
  <2> QED
    BY <2>5, <2>6, <2>7 DEF MergesMirror
<1>16. touched' \cup call'.todo \subseteq D
  <2>1. touched' \subseteq touched \cup ({s} \cup B)
    <3>1. \A i \in Ids : i \notin {s} \cup B => owners'[i] = owners[i]
                                                /\ shapes'[i] = shapes[i]
      BY <1>1
    <3> QED
      BY <3>1, TouchedWithin
  <2> QED
    BY <1>3, <1>5, <1>6, <2>1, MirrorTypes
<1>17. CardsMirror(v.escrowedCard)'
  <2>1. NoOne # House /\ caller # House
    BY ContractsAssumption, CallConstants
  <2>2. \A i \in Ids : owners'[i] = House <=> owners[i] = House
    BY <1>1, <2>1
  <2>3. CardsMirror(u.escrowedCard)'
    BY <2>2, NoneEntered, CardsStay, MirrorTypes
  <2> QED
    BY <1>5, <2>3
<1>18. log' = log \o (E \o F) /\ totalMinted' = m /\ sender = tx.from
  BY <1>1, <1>2, <1>7
<1>19. Carried(u)
  BY <1>8, <1>12, <1>13, <1>14, <1>15, <1>16, <1>17, <1>18, Leading
<1>20. Kept'
  <2>1. approvals' = [i \in Ids |-> NoOne]
    BY <1>1 DEF Kept
  <2>2. tx' = [tx EXCEPT !.last = "compose"]
    BY <1>1
  <2>3. tx'.from = tx.from /\ tx'.open = tx.open
    BY <2>2
  <2>4. call' # Idle => tx'.open
    BY <1>1
  <2> QED
    BY <1>1, <2>1, <2>3, <2>4 DEF Kept
<1> QED
  BY <1>19, <1>20

-----------------------------------------------------------------------------
(* Splitting.                                                              *)

\* What the split of i into out changes: its children N are minted after m ids.
SplitChange(caller, i, out, to, m, q, N, or) ==
    /\ call = Idle /\ call' = Minting("split", to, N)
    /\ i \in Ids /\ owners[i] = caller
    /\ q \in Nat /\ m \in Nat /\ m + q <= MaxMinted /\ 2 <= q
    /\ out \in [1 .. q -> Denoms] /\ or \in [1 .. q -> Nat]
    /\ N \in SUBSET Ids /\ i \notin N
    /\ owners' = [c \in Ids |-> IF c = i THEN NoOne ELSE owners[c]]
    /\ approvals' = [c \in Ids |-> IF c = i THEN NoOne ELSE approvals[c]]
    /\ operatorApprovals' = operatorApprovals
    /\ ownerToken' = IF ownerToken - 1 = i THEN m + 1 ELSE ownerToken
    /\ shapes' \in [Ids -> ShapeData]
    /\ \A c \in N : /\ shapes'[c].seed = Append(shapes[i].seed, c - m)
                    /\ shapes'[c].denom = out[c - m + 1]
                    /\ shapes'[c].origins = or[c - m + 1]
                    /\ shapes'[c].black = FALSE
    /\ \A c \in Ids : c # i /\ c \notin N => shapes'[c] = shapes[c]
    /\ splitRecords' = Append(splitRecords, SplitRecordOf(i))
    /\ splitOriginRef' = [c \in Ids |-> IF c \in N THEN ChildRef(c)
                                        ELSE splitOriginRef[c]]
    /\ composeStack' = composeStack /\ totalMinted' = m + q
    /\ tx.open /\ tx' = [tx EXCEPT !.last = "split"]
    /\ log' = log \o (<<Transfer(caller, NoOne, i)>>
                      \o MovedFrom({i}, m + 1)
                      \o <<SplitInto(i, out)>>
                      \o [k \in 1 .. Cardinality(N) |->
                            ArtSet(Listed(N)[k], shapes'[Listed(N)[k]].art)])

\* What split does, in the terms of the tables.
LEMMA SplitParts ==
    ASSUME CallsInv, CallsInv', NEW caller \in Accounts, NEW i \in Live,
           NEW out \in OutputLists, NEW to \in Accounts,
           SplitTo(caller, i, out, to),
           NEW m, m = totalMinted, NEW q, q = Len(out),
           NEW N, N = m .. m + q - 1,
           NEW or, or = AllocateSplitOrigins(shapes[i].origins, out)
    PROVE  SplitChange(caller, i, out, to, m, q, N, or)
<1>1. q \in Nat /\ m \in Nat /\ MaxMinted \in Nat /\ out \in [1 .. q -> Denoms]
  <2>1. totalMinted \in Nat /\ MaxMinted \in Nat
    BY ChainTypes, CallConstants
  <2>2. PICK k \in 1 .. MaxMinted - totalMinted : out \in [1 .. k -> Denoms]
    BY DEF OutputLists
  <2>3. k \in Nat /\ Len(out) = k
    BY <2>1, <2>2
  <2> QED
    BY <2>1, <2>2, <2>3
<1>2. NextIds(Len(out)) = N
  BY DEF NextIds
<1>3. /\ call = Idle /\ call' = Minting("split", to, N)
      /\ owners[i] = caller /\ m + q <= MaxMinted /\ 2 <= q
      /\ operatorApprovals' = operatorApprovals
      /\ splitRecords' = Append(splitRecords, SplitRecordOf(i))
      /\ splitOriginRef' = [c \in Ids |-> IF c \in N THEN ChildRef(c)
                                          ELSE splitOriginRef[c]]
      /\ composeStack' = composeStack /\ totalMinted' = m + q
      /\ tx.open /\ tx' = [tx EXCEPT !.last = "split"]
  BY <1>2 DEF SplitTo, MayEnter, MaySend, Sent, CallerOwnsLive, UpdateOwners
<1>4. /\ owners' = [c \in Ids |-> IF c \in {} THEN NoOne
                                  ELSE IF c \in {i} THEN NoOne ELSE owners[c]]
      /\ approvals' = [c \in Ids |-> IF c \in {i} THEN NoOne ELSE approvals[c]]
      /\ ownerToken' = IF ownerToken - 1 = i THEN m + 1 ELSE ownerToken
  BY DEF SplitTo, UpdateOwners, OwnerTokenAfterSplit
<1>5. /\ owners' = [c \in Ids |-> IF c = i THEN NoOne ELSE owners[c]]
      /\ approvals' = [c \in Ids |-> IF c = i THEN NoOne ELSE approvals[c]]
  BY <1>4
<1>6. PICK cs : cs = [c \in N |-> ChildShape(i, out, c)]
  OBVIOUS
<1>7. /\ shapes' = [c \in Ids |-> IF c \in N THEN cs[c]
                                  ELSE IF c = i THEN Blank ELSE shapes[c]]
      /\ log' = log \o (<<Transfer(caller, NoOne, i)>>
                        \o MovedFrom({i}, m + 1)
                        \o <<SplitInto(i, out)>>
                        \o [k \in 1 .. Cardinality(N) |->
                              ArtSet(Listed(N)[k], cs[Listed(N)[k]].art)])
  BY <1>2, <1>6 DEF SplitTo, Sent, Each
<1>8. N \in SUBSET Ids /\ i \in Ids
  BY <1>1, <1>3 DEF Ids, Live
<1>9. i \notin N
  <2>1. i \in 0 .. m - 1
    <3>1. SettledOwners[i] # NoOne
      <4>1. SettledOwners = owners
        BY <1>3, Unguarded
      <4> QED
        BY <4>1 DEF Live
    <3> QED
      BY <1>8, <3>1, LiveMinted
  <2> QED
    BY <1>1, <2>1
<1>10. shapes' \in [Ids -> ShapeData]
  BY DEF CallsInv, Settled!TypeOK, Settled!Ids, Ids, Settled!ShapeData,
     ShapeData, Settled!Seeds, Seeds, Settled!Denoms, Denoms
<1>11. ASSUME NEW c \in N
       PROVE  /\ shapes'[c].seed = Append(shapes[i].seed, c - m)
              /\ shapes'[c].denom = out[c - m + 1]
              /\ shapes'[c].origins = or[c - m + 1]
              /\ shapes'[c].black = FALSE
  <2>1. shapes'[c] = ChildShape(i, out, c)
    BY <1>6, <1>7, <1>8
  <2> QED
    BY <2>1 DEF ChildShape
<1>12. or \in [1 .. q -> Nat]
  <2>1. or = [k \in 1 .. q |-> or[k]]
    <3>1. DOMAIN out = 1 .. q
      BY <1>1
    <3> QED
      BY <3>1 DEF AllocateSplitOrigins
  <2>2. ASSUME NEW k \in 1 .. q PROVE or[k] \in Nat
    <3>1. PICK c : c = m + k - 1
      OBVIOUS
    <3>2. c \in N /\ c - m + 1 = k
      BY <1>1, <3>1
    <3>3. shapes'[c] \in ShapeData
      BY <1>8, <1>10, <3>2
    <3>4. shapes'[c].origins \in Nat
      BY <3>3 DEF ShapeData
    <3> QED
      BY <1>11, <3>2, <3>4
  <2> QED
    BY <2>1, <2>2
<1>13. \A k \in 1 .. Cardinality(N) : cs[Listed(N)[k]] = shapes'[Listed(N)[k]]
  <2>1. \A k \in 1 .. Cardinality(N) : Listed(N)[k] \in N
    BY <1>8, ListedAll
  <2> QED
    BY <1>7, <1>8, <2>1
<1>14. [k \in 1 .. Cardinality(N) |-> ArtSet(Listed(N)[k], cs[Listed(N)[k]].art)]
       = [k \in 1 .. Cardinality(N) |->
             ArtSet(Listed(N)[k], shapes'[Listed(N)[k]].art)]
  BY <1>13
<1>15. \A c \in Ids : c # i /\ c \notin N => shapes'[c] = shapes[c]
  BY <1>7
<1>16. log' = log \o (<<Transfer(caller, NoOne, i)>>
                      \o MovedFrom({i}, m + 1)
                      \o <<SplitInto(i, out)>>
                      \o [k \in 1 .. Cardinality(N) |->
                            ArtSet(Listed(N)[k], shapes'[Listed(N)[k]].art)])
  BY <1>7, <1>14
<1> QED
  BY <1>1, <1>3, <1>4, <1>5, <1>8, <1>9, <1>10, <1>11, <1>12, <1>15, <1>16
     DEF SplitChange

\* A child's row is the child, once it is the owner of the call's recipient.
LEMMA RowOfChild ==
    ASSUME NEW r \in Row, NEW i, RowMirrors(r, i), SettledOwners[i] # NoOne,
           OriginDenom(i) # Null, NEW sd, sd = shapes[i].seed,
           NEW c, NEW sh, sh = shapes'[c], NEW d, NEW k, NEW e, NEW sender,
           sh.seed = Append(sd, k - 1), sh.denom = e.out[k],
           sh.origins = e.origins[k], sh.black = FALSE,
           SettledOwners'[c] # NoOne, owners'[c] = NoOne, composeStack'[c] = <<>>,
           SplitFromOf(c)' = shapes[i].denom, SplitOriginOf(c)' = OriginDenom(i)
    PROVE  RowMirrors([SplitRow(r, e, k, sender) EXCEPT !.art = sh.art], c)'
<1>1. PICK x, y, a : /\ x = SplitRow(r, e, k, sender) /\ a = sh.art
                     /\ y = [x EXCEPT !.art = a]
  OBVIOUS
<1>2. PICK dn, b, o, od : dn = e.out[k] /\ b = Units[dn] /\ o = e.origins[k]
                          /\ od = RowOriginDenom(r)
  OBVIOUS
<1>3. PICK s2 : s2 = Append(r.seed, k - 1)
  OBVIOUS
<1>4. x = [seed |-> s2, denom |-> dn, backing |-> b, origins |-> o, depth |-> 0,
           art |-> BlankArt, black |-> FALSE, live |-> TRUE, owner |-> sender,
           splitFrom |-> r.denom, splitOrigin |-> od, mintDenom |-> dn]
  BY <1>1, <1>2, <1>3 DEF SplitRow
<1>5. /\ y.seed = s2 /\ y.denom = dn /\ y.backing = b /\ y.origins = o
      /\ y.depth = 0 /\ y.art = a /\ y.black = FALSE /\ y.live = TRUE
      /\ y.splitFrom = r.denom /\ y.splitOrigin = od
  BY <1>1, <1>4
<1>6. PICK old : old = shapes[i]
  OBVIOUS
<1>7. /\ r.seed = old.seed /\ r.denom = old.denom
      /\ r.splitOrigin = SplitOriginOf(i)
  BY <1>6 DEF RowMirrors, RowIs, RowIsShape
<1>8. od = OriginDenom(i)
  <2>1. CASE splitOriginRef[i].exists
    <3>1. SplitOriginOf(i) = OriginDenom(i)
      BY <2>1 DEF SplitOriginOf, OriginDenom
    <3> QED
      BY <1>2, <1>7, <3>1 DEF RowOriginDenom
  <2>2. CASE ~splitOriginRef[i].exists
    <3>1. SplitOriginOf(i) = Null /\ OriginDenom(i) = old.denom
      BY <1>6, <2>2 DEF SplitOriginOf, OriginDenom
    <3> QED
      BY <1>2, <1>7, <3>1 DEF RowOriginDenom
  <2> QED
    BY <2>1, <2>2
<1>9. RowIsShape(y, sh)
  BY <1>1, <1>2, <1>3, <1>5, <1>6, <1>7 DEF RowIsShape
<1>10. Len(composeStack'[c]) = 0
  OBVIOUS
<1>11. y.backing = IF sh.black THEN 0 ELSE Units[sh.denom]
  BY <1>2, <1>5
<1>12. RowIs(y, SettledOwners'[c], owners'[c], sh, Len(composeStack'[c]),
             SplitFromOf(c)', SplitOriginOf(c)')
  BY <1>5, <1>6, <1>7, <1>8, <1>9, <1>10, <1>11 DEF RowIs
<1> QED
  BY <1>1, <1>12 DEF RowMirrors

\* A split leaves what is known of the splits before it, and tells its children.
LEMMA SplitOfChildren ==
    ASSUME CallsInv, NEW i \in Ids, NEW N \in SUBSET Ids,
           splitRecords' = Append(splitRecords, SplitRecordOf(i)),
           splitOriginRef' = [c \in Ids |-> IF c \in N THEN ChildRef(c)
                                            ELSE splitOriginRef[c]]
    PROVE  /\ OriginDenom(i) # Null
           /\ \A c \in Ids \ N : /\ SplitFromOf(c)' = SplitFromOf(c)
                                 /\ SplitOriginOf(c)' = SplitOriginOf(c)
           /\ \A c \in N : /\ SplitFromOf(c)' = shapes[i].denom
                           /\ SplitOriginOf(c)' = OriginDenom(i)
<1>1. /\ splitRecords \in Seq(SplitRecord) /\ shapes \in [Ids -> ShapeData]
      /\ splitOriginRef \in [Ids -> SplitOriginRef]
      /\ \A c \in Ids : splitOriginRef[c].exists =>
            splitOriginRef[c].recordIndex < Len(splitRecords)
  BY ChainTypes
<1>2. PICK n, rec : n = Len(splitRecords) /\ rec = SplitRecordOf(i) /\ n \in Nat
  BY <1>1
<1>3. /\ splitRecords'[n + 1] = rec
      /\ \A k \in 1 .. n : splitRecords'[k] = splitRecords[k]
  BY <1>1, <1>2
<1>4. \A c \in Ids : splitOriginRef[c].exists =>
          /\ splitOriginRef[c].recordIndex + 1 \in 1 .. n
          /\ splitRecords[splitOriginRef[c].recordIndex + 1] \in SplitRecord
  <2> SUFFICES ASSUME NEW c \in Ids, splitOriginRef[c].exists
               PROVE  /\ splitOriginRef[c].recordIndex + 1 \in 1 .. n
                      /\ splitRecords[splitOriginRef[c].recordIndex + 1] \in SplitRecord
    OBVIOUS
  <2>1. PICK k : k = splitOriginRef[c].recordIndex
    OBVIOUS
  <2>2. k \in Nat
    <3>1. splitOriginRef[c] \in SplitOriginRef
      BY <1>1
    <3> QED
      BY <2>1, <3>1 DEF SplitOriginRef
  <2>3. k < n
    BY <1>1, <1>2, <2>1
  <2>4. k + 1 \in 1 .. n
    BY <1>2, <2>2, <2>3
  <2> QED
    BY <1>1, <1>2, <2>1, <2>4
<1>5. OriginDenom(i) \in Denoms
  <2>1. CASE splitOriginRef[i].exists
    <3>1. splitRecords[splitOriginRef[i].recordIndex + 1] \in SplitRecord
      BY <1>4, <2>1
    <3> QED
      BY <2>1, <3>1 DEF OriginDenom, SplitRecord
  <2>2. CASE ~splitOriginRef[i].exists
    <3>1. shapes[i] \in ShapeData
      BY <1>1
    <3> QED
      BY <2>2, <3>1 DEF OriginDenom, ShapeData
  <2> QED
    BY <2>1, <2>2
<1>6. ASSUME NEW c \in Ids \ N
      PROVE  SplitFromOf(c)' = SplitFromOf(c) /\ SplitOriginOf(c)' = SplitOriginOf(c)
  <2>1. splitOriginRef'[c] = splitOriginRef[c]
    OBVIOUS
  <2>2. CASE splitOriginRef[c].exists
    <3>1. splitRecords'[splitOriginRef[c].recordIndex + 1]
          = splitRecords[splitOriginRef[c].recordIndex + 1]
      BY <1>3, <1>4, <2>2
    <3> QED
      BY <2>1, <3>1 DEF SplitFromOf, SplitOriginOf
  <2>3. CASE ~splitOriginRef[c].exists
    BY <2>1, <2>3 DEF SplitFromOf, SplitOriginOf
  <2> QED
    BY <2>2, <2>3
<1>7. ASSUME NEW c \in N
      PROVE  SplitFromOf(c)' = shapes[i].denom /\ SplitOriginOf(c)' = OriginDenom(i)
  <2>1. splitOriginRef'[c].exists = TRUE /\ splitOriginRef'[c].recordIndex = n
    BY <1>2 DEF ChildRef
  <2>2. rec.parentDenom = shapes[i].denom /\ rec.originDenom = OriginDenom(i)
    BY <1>2 DEF SplitRecordOf
  <2> QED
    BY <1>3, <2>1, <2>2 DEF SplitFromOf, SplitOriginOf
<1>8. \A d \in Denoms : d # Null
  BY DEF Denoms, Null
<1> QED
  BY <1>5, <1>6, <1>7, <1>8

\* split.
LEMMA SplitMirrored ==
    ASSUME CallsInv, CallsInv', Kept, NEW u, Mirrors(u), Witnessed,
           NEW caller \in Accounts \ {House}, NEW i \in Live,
           NEW out \in OutputLists, NEW to \in Accounts \ {House},
           SplitTo(caller, i, out, to)
    PROVE  Kept' /\ Carried(u)
<1>1. PICK m, q, or : /\ m = totalMinted /\ q = Len(out)
                      /\ or = AllocateSplitOrigins(shapes[i].origins, out)
  OBVIOUS
<1>2. PICK N : N = m .. m + q - 1
  OBVIOUS
<1>3. /\ call = Idle /\ call' = Minting("split", to, N)
      /\ i \in Ids /\ owners[i] = caller
      /\ q \in Nat /\ m \in Nat /\ m + q <= MaxMinted /\ 2 <= q
      /\ out \in [1 .. q -> Denoms] /\ or \in [1 .. q -> Nat]
      /\ N \in SUBSET Ids /\ i \notin N
      /\ owners' = [c \in Ids |-> IF c = i THEN NoOne ELSE owners[c]]
      /\ approvals' = [c \in Ids |-> IF c = i THEN NoOne ELSE approvals[c]]
      /\ operatorApprovals' = operatorApprovals
      /\ ownerToken' = IF ownerToken - 1 = i THEN m + 1 ELSE ownerToken
      /\ shapes' \in [Ids -> ShapeData]
      /\ \A c \in N : /\ shapes'[c].seed = Append(shapes[i].seed, c - m)
                      /\ shapes'[c].denom = out[c - m + 1]
                      /\ shapes'[c].origins = or[c - m + 1]
                      /\ shapes'[c].black = FALSE
      /\ \A c \in Ids : c # i /\ c \notin N => shapes'[c] = shapes[c]
      /\ splitRecords' = Append(splitRecords, SplitRecordOf(i))
      /\ splitOriginRef' = [c \in Ids |-> IF c \in N THEN ChildRef(c)
                                          ELSE splitOriginRef[c]]
      /\ composeStack' = composeStack /\ totalMinted' = m + q
      /\ tx.open /\ tx' = [tx EXCEPT !.last = "split"]
      /\ log' = log \o (<<Transfer(caller, NoOne, i)>>
                        \o MovedFrom({i}, m + 1)
                        \o <<SplitInto(i, out)>>
                        \o [k \in 1 .. Cardinality(N) |->
                              ArtSet(Listed(N)[k], shapes'[Listed(N)[k]].art)])
  <2>1. caller \in Accounts /\ to \in Accounts
    OBVIOUS
  <2>2. /\ m = totalMinted /\ q = Len(out) /\ N = m .. m + q - 1
        /\ or = AllocateSplitOrigins(shapes[i].origins, out)
    BY <1>1, <1>2
  <2>3. SplitChange(caller, i, out, to, m, q, N, or)
    BY <2>1, <2>2, SplitParts
  <2> QED
    BY <2>3 DEF SplitChange
<1>4. call'.todo = N /\ to # NoOne /\ caller # NoOne
  <2>1. call'.todo = N
    BY <1>3 DEF Minting, Idle
  <2> QED
    BY <2>1, CallConstants
<1>5. /\ SettledOwners = owners /\ owners \in [Ids -> Accounts \cup {NoOne}]
      /\ SettledOwners' = [c \in Ids |-> IF c \in N THEN to ELSE owners'[c]]
  <2>1. SettledOwners = owners
    BY <1>3, Unguarded
  <2>2. call'.to = to
    BY <1>3 DEF Minting, Idle
  <2> QED
    BY <1>4, <2>1, <2>2, ChainTypes DEF SettledOwners
<1>6. /\ i \in 0 .. m - 1 /\ 0 .. m - 1 \subseteq Ids /\ MaxMinted \in Nat
      /\ 0 .. m + q - 1 \subseteq Ids /\ m + 1 \in 0 .. MaxMinted
      /\ m \in Ids /\ m \in N /\ ownerToken \in 0 .. MaxMinted
      /\ \A c \in Ids : c \in N \/ c \in 0 .. m - 1 \/ c >= m + q
  <2>1. i \in 0 .. m - 1
    BY <1>1, <1>3, <1>4, <1>5, LiveMinted
  <2>2. MaxMinted \in Nat /\ Ids = 0 .. MaxMinted - 1
    BY CallConstants DEF Ids
  <2>3. /\ 0 .. m - 1 \subseteq Ids /\ 0 .. m + q - 1 \subseteq Ids
        /\ m + 1 \in 0 .. MaxMinted /\ m \in Ids /\ m \in N
    BY <1>2, <1>3, <2>2
  <2>4. \A c \in Ids : c \in N \/ c \in 0 .. m - 1 \/ c >= m + q
    BY <1>2, <1>3, <2>2
  <2> QED
    BY <2>1, <2>2, <2>3, <2>4, ChainTypes
<1>7. PICK e, sender, a : /\ e = SplitInto(i, out) /\ sender = tx.from
                          /\ a = [c \in N |-> shapes'[c].art]
  OBVIOUS
<1>8. e = [event |-> "Split", id |-> i, first |-> m, out |-> out, origins |-> or]
  BY <1>1, <1>7 DEF SplitInto
<1>9. e.out = out /\ e.origins = or
  BY <1>8
<1>10. \A c \in N : a[c] \in Arts /\ a[c] = shapes'[c].art
  <2>1. ASSUME NEW c \in N PROVE shapes'[c].art \in Arts
    <3>1. shapes'[c] \in ShapeData
      BY <1>3
    <3> QED
      BY <3>1 DEF ShapeData
  <2> QED
    BY <1>7, <2>1
<1>11. PICK F : F = [k \in 1 .. Cardinality(N) |->
                       ArtSet(Listed(N)[k], a[Listed(N)[k]])]
  OBVIOUS
<1>12. log' = log \o (<<Transfer(caller, NoOne, i)>> \o MovedFrom({i}, m + 1)
                      \o <<e>> \o F)
  <2>1. \A k \in 1 .. Cardinality(N) : Listed(N)[k] \in N
    BY <1>3, ListedAll
  <2>2. F = [k \in 1 .. Cardinality(N) |->
               ArtSet(Listed(N)[k], shapes'[Listed(N)[k]].art)]
    BY <1>10, <1>11, <2>1
  <2> QED
    BY <1>3, <1>7, <2>2
<1>13. PICK E, g, w, L, D :
          /\ E = <<Transfer(caller, NoOne, i)>> \o MovedFrom({i}, m + 1)
                 \o <<e>> \o F
          /\ g = SplitBornRows(u, m, i, e, q, sender, a)
          /\ w = OwnerRowLeft(u, m, {i}, m + 1)
          /\ L = Append(u.lineageEdge, Edges("split", i, N, u.token[i].denom))
          /\ D = Told(u.activity) \cup {i} \cup N
  OBVIOUS
<1>14. Leads(sender, u, E, m + q, g, w, L, D, u.escrowedCard)
  <2>1. sender \in Accounts
    BY <1>7 DEF Kept
  <2>2. u \in TablesOf(m)
    BY <1>1, MirrorTypes
  <2>3. Len(out) = q
    BY <1>1
  <2> QED
    BY <1>2, <1>3, <1>6, <1>8, <1>10, <1>11, <1>13, <2>1, <2>2, <2>3, SplitEffect
<1>15. /\ u.token \in [0 .. m - 1 -> Row]
       /\ \A j \in 0 .. m - 1 : RowMirrors(u.token[j], j)
  BY <1>1, MirrorTypes DEF RowsMirror
<1>16. /\ \A j \in 0 .. m - 1 : g[j] = IF j = i THEN DeadRow(u.token[j])
                                       ELSE u.token[j]
       /\ \A j \in N : g[j] = [SplitRow(u.token[i], e, j - m + 1, sender)
                                  EXCEPT !.art = a[j]]
  BY <1>2, <1>3, <1>13 DEF SplitBornRows
<1>17. /\ OriginDenom(i) # Null
       /\ \A c \in Ids \ N : /\ SplitFromOf(c)' = SplitFromOf(c)
                             /\ SplitOriginOf(c)' = SplitOriginOf(c)
       /\ \A c \in N : /\ SplitFromOf(c)' = shapes[i].denom
                       /\ SplitOriginOf(c)' = OriginDenom(i)
  BY <1>3, SplitOfChildren
<1>18. RowsMirror(g)'
  <2>1. ASSUME NEW j \in 0 .. m - 1 PROVE RowMirrors(g[j], j)'
    <3>1. /\ j \in Ids /\ j \notin N /\ u.token[j] \in Row
          /\ RowMirrors(u.token[j], j)
      BY <1>2, <1>3, <1>6, <1>15
    <3>2. /\ SplitFromOf(j)' = SplitFromOf(j) /\ SplitOriginOf(j)' = SplitOriginOf(j)
          /\ composeStack'[j] = composeStack[j]
      BY <1>3, <1>17, <3>1
    <3>3. CASE j = i
      <4>1. owners'[j] = NoOne /\ SettledOwners'[j] = NoOne
        BY <1>3, <1>5, <3>1, <3>3
      <4>2. RowMirrors(DeadRow(u.token[j]), j)'
        BY <3>1, <3>2, <4>1, RowDies
      <4> QED
        BY <1>16, <3>3, <4>2
    <3>4. CASE j # i
      <4>1. /\ owners'[j] = owners[j] /\ SettledOwners'[j] = SettledOwners[j]
            /\ shapes'[j] = shapes[j]
        BY <1>3, <1>5, <3>1, <3>4
      <4>2. RowMirrors(u.token[j], j)'
        BY <3>1, <3>2, <4>1, RowStays
      <4> QED
        BY <1>16, <3>4, <4>2
    <3> QED
      BY <3>3, <3>4
  <2>2. ASSUME NEW j \in N PROVE RowMirrors(g[j], j)'
    <3>1. PICK k, r, sh, sd : /\ k = j - m + 1 /\ r = u.token[i]
                              /\ sh = shapes'[j] /\ sd = shapes[i].seed
      OBVIOUS
    <3>2. k - 1 = j - m /\ j \in Ids
      BY <1>2, <1>3, <3>1
    <3>3. /\ sh.seed = Append(sd, k - 1) /\ sh.denom = e.out[k]
          /\ sh.origins = e.origins[k] /\ sh.black = FALSE
      BY <1>3, <1>9, <3>1, <3>2
    <3>4. /\ SettledOwners[i] # NoOne /\ SettledOwners'[j] # NoOne
          /\ owners'[j] = NoOne
      <4>1. owners[j] = NoOne
        <5>1. j >= totalMinted
          BY <1>1, <1>2, <1>3
        <5> QED
          BY <1>5, <3>2, <5>1, SettledFacts
      <4> QED
        BY <1>3, <1>4, <1>5, <3>2, <4>1
    <3>5. composeStack'[j] = <<>>
      <4>1. j >= totalMinted
        BY <1>1, <1>2, <1>3
      <4> QED
        BY <1>3, <3>2, <4>1, FreshUncomposed
    <3>6. /\ r \in Row /\ RowMirrors(r, i) /\ OriginDenom(i) # Null
          /\ sd = shapes[i].seed /\ sh = shapes'[j]
          /\ SplitFromOf(j)' = shapes[i].denom /\ SplitOriginOf(j)' = OriginDenom(i)
      BY <1>6, <1>15, <1>17, <3>1
    <3>7. RowMirrors([SplitRow(r, e, k, sender) EXCEPT !.art = sh.art], j)'
      BY ONLY <3>3, <3>4, <3>5, <3>6, RowOfChild
    <3>8. g[j] = [SplitRow(r, e, k, sender) EXCEPT !.art = sh.art]
      BY <1>10, <1>16, <3>1
    <3> QED
      BY <3>7, <3>8
  <2>3. totalMinted' = m + q
    BY <1>3
  <2>4. ASSUME NEW j \in 0 .. m + q - 1 PROVE RowMirrors(g[j], j)'
    <3>1. j \in 0 .. m - 1 \/ j \in N
      BY <1>2, <1>3
    <3> QED
      BY <2>1, <2>2, <3>1
  <2>5. m \in Nat /\ q \in Nat
    BY <1>3
  <2> QED
    BY <2>3, <2>4, <2>5 DEF RowsMirror
<1>19. HeldMirror(g)'
  <2>1. ASSUME NEW b \in 0 .. totalMinted - 1, SettledOwners[b] = NoOne
        PROVE  g[b] = u.token[b]
    <3>1. b # i
      BY <1>3, <1>4, <1>5, <2>1
    <3> QED
      BY <1>1, <1>16, <2>1, <3>1
  <2> QED
    BY <1>3, <2>1, HeldStays, MirrorTypes
<1>20. OwnerRowMirrors(w)'
  <2>1. CASE ownerToken - 1 = i
    <3>1. w = RowOfOwner(u, m, m + 1) /\ ownerToken' = m + 1
      BY <1>3, <1>13, <2>1 DEF OwnerRowLeft
    <3>2. w.tokenId = m + 1
      BY <3>1 DEF RowOfOwner
    <3>3. owners'[m] = NoOne /\ (m + 1) - 1 = m /\ m + 1 # 0
      <4>1. owners[m] = NoOne
        <5>1. m >= totalMinted
          BY <1>1, <1>3
        <5> QED
          BY <1>5, <1>6, <5>1, SettledFacts
      <4>2. m \in Ids /\ owners'[m] = NoOne
        BY <1>3, <1>6, <4>1
      <4>3. m \in Nat
        BY <1>3
      <4> QED
        BY <4>2, <4>3
    <3> QED
      BY <3>1, <3>2, <3>3 DEF OwnerRowMirrors, OwnerRowIs
  <2>2. CASE ownerToken - 1 # i
    <3>1. w = u.collectionOwner /\ ownerToken' = ownerToken
      BY <1>3, <1>13, <2>2 DEF OwnerRowLeft
    <3>2. \A j \in Ids : j = ownerToken - 1 => owners'[j] = owners[j]
      BY <1>3, <2>2
    <3> QED
      BY <3>1, <3>2, OwnerRowStays, MirrorTypes
  <2> QED
    BY <2>1, <2>2
<1>21. MergesMirror(g, L)'
  <2>1. PICK K : K = u.lineageEdge /\ K \in Seq(Edge)
    BY MirrorTypes
  <2>2. \A j : MergesFrom(L, j) = MergesFrom(K, j)
    BY <1>13, <2>1, EdgeOfAnother
  <2>3. MergesMirror(u.token, K)
    BY <2>1, MirrorTypes
  <2>4. ASSUME NEW j \in 0 .. m + q - 1
        PROVE  MergesFrom(L, j) = Standing(composeStack[j], g[j].denom)
    <3>1. CASE j \in 0 .. m - 1
      <4>1. g[j].denom = u.token[j].denom
        <5>1. u.token[j] \in Row /\ g[j] \in {u.token[j], DeadRow(u.token[j])}
          BY <1>15, <1>16, <3>1
        <5> QED
          BY <5>1 DEF DeadRow, Row
      <4>2. MergesFrom(K, j) = Standing(composeStack[j], u.token[j].denom)
        BY <1>1, <2>3, <3>1 DEF MergesMirror
      <4> QED
        BY <2>2, <4>1, <4>2
    <3>2. CASE j \in N
      <4>1. j \in Ids /\ j >= totalMinted
        BY <1>1, <1>2, <1>3, <3>2
      <4>2. MergesFrom(K, j) = <<>> /\ composeStack[j] = <<>>
        BY <2>3, <4>1, FreshUncomposed DEF MergesMirror
      <4>3. \A x : Standing(<<>>, x) = <<>>
        BY DEF Standing
      <4> QED
        BY <2>2, <4>2, <4>3
    <3> QED
      BY <1>2, <1>3, <3>1, <3>2
  <2>5. ASSUME NEW j \in Ids, j >= m + q PROVE MergesFrom(L, j) = <<>>
    <3>1. j >= totalMinted
      BY <1>1, <1>3, <2>5, CallConstants
    <3> QED
      BY <2>2, <2>3, <3>1 DEF MergesMirror
  <2>6. totalMinted' = m + q /\ composeStack' = composeStack
    BY <1>3
  <2>7. m \in Nat /\ q \in Nat
    BY <1>3
  <2> QED
    BY <2>4, <2>5, <2>6, <2>7 DEF MergesMirror
<1>22. touched' \cup call'.todo \subseteq D
  <2>1. touched' \subseteq touched \cup ({i} \cup N)
    <3>1. \A c \in Ids : c \notin {i} \cup N => owners'[c] = owners[c]
                                                /\ shapes'[c] = shapes[c]
      BY <1>3
    <3> QED
      BY <3>1, TouchedWithin
  <2> QED
    BY <1>4, <1>13, <2>1, MirrorTypes
<1>23. CardsMirror(u.escrowedCard)'
  <2>1. NoOne # House /\ caller # House
    BY ContractsAssumption, CallConstants
  <2>2. \A c \in Ids : owners'[c] = House <=> owners[c] = House
    BY <1>3, <2>1
  <2> QED
    BY <2>2, NoneEntered, CardsStay, MirrorTypes
<1>24. log' = log \o E /\ totalMinted' = m + q /\ sender = tx.from
  BY <1>3, <1>7, <1>12, <1>13
<1>25. Carried(u)
  BY <1>14, <1>18, <1>19, <1>20, <1>21, <1>22, <1>23, <1>24, Leading
<1>26. Kept'
  <2>1. approvals' = [c \in Ids |-> NoOne]
    BY <1>3 DEF Kept
  <2>2. tx' = [tx EXCEPT !.last = "split"]
    BY <1>3
  <2>3. tx'.from = tx.from /\ tx'.open = tx.open
    BY <2>2
  <2>4. \A c \in Ids : splitOriginRef'[c].exists => c < totalMinted'
    <3> SUFFICES ASSUME NEW c \in Ids, splitOriginRef'[c].exists
                 PROVE  c < m + q
      BY <1>3
    <3>1. CASE c \in N
      BY <1>2, <1>3, <3>1
    <3>2. CASE c \notin N
      <4>1. splitOriginRef[c].exists
        BY <1>3, <3>2
      <4>2. c < m /\ c \in Nat
        BY <1>1, <4>1, CallConstants DEF Kept
      <4> QED
        BY <1>3, <4>2
    <3> QED
      BY <3>1, <3>2
  <2>5. tx'.open
    BY <1>3, <2>3
  <2> QED
    BY <1>3, <2>1, <2>3, <2>4, <2>5 DEF Kept
<1> QED
  BY <1>25, <1>26

-----------------------------------------------------------------------------
(* Decomposing.                                                            *)

\* What the decompose of s, whose top record is rec, changes.
DecomposeChange(caller, s, to, rec) ==
    /\ call = Idle /\ call'.todo = rec.burned /\ call'.to = to
    /\ s \in Ids /\ owners[s] = caller /\ ~shapes[s].black
    /\ composeStack[s] # <<>>
    /\ composeStack' = [composeStack EXCEPT ![s] = Front(@)]
    /\ owners' = owners /\ approvals' = approvals
    /\ operatorApprovals' = operatorApprovals /\ ownerToken' = ownerToken
    /\ shapes' = Uncomposed(s, rec)
    /\ UNCHANGED <<splitRecords, splitOriginRef, totalMinted>>
    /\ tx.open /\ tx' = [tx EXCEPT !.last = "decompose"]
    /\ log' = log \o (<<DecomposedTo(s, rec), ArtSet(s, rec.art)>>
                      \o [k \in 1 .. Cardinality(rec.burned) |->
                            ArtSet(Listed(rec.burned)[k],
                                   rec.inputs[Listed(rec.burned)[k]].art)])

\* What decompose does, in the terms of the tables.
LEMMA DecomposeParts ==
    ASSUME NEW caller \in Accounts, NEW s \in Live, NEW to \in Accounts,
           DecomposeTo(caller, s, to), NEW rec, rec = Last(composeStack[s])
    PROVE  DecomposeChange(caller, s, to, rec)
<1>1. /\ call = Idle /\ s \in Ids /\ owners[s] = caller /\ ~shapes[s].black
      /\ composeStack[s] # <<>>
      /\ composeStack' = [composeStack EXCEPT ![s] = Front(@)]
      /\ owners' = owners /\ approvals' = approvals
      /\ operatorApprovals' = operatorApprovals /\ ownerToken' = ownerToken
      /\ shapes' = Uncomposed(s, rec)
      /\ UNCHANGED <<splitRecords, splitOriginRef, totalMinted>>
      /\ tx.open /\ tx' = [tx EXCEPT !.last = "decompose"]
  BY DEF DecomposeTo, MayEnter, MaySend, Sent, CallerOwnsLive, Live, erc721Vars,
         OwnerTokenInDecompose
<1>2. call' = [Minting("decompose", to, rec.burned)
                  EXCEPT !.ownerTokenNext = rec.ownerTokenFrom, !.survivor = s]
  BY DEF DecomposeTo
<1>3. call'.todo = rec.burned /\ call'.to = to
  BY <1>2 DEF Minting, Idle
<1>4. log' = log \o (<<DecomposedTo(s, rec), ArtSet(s, rec.art)>>
                     \o [k \in 1 .. Cardinality(rec.burned) |->
                           ArtSet(Listed(rec.burned)[k],
                                  rec.inputs[Listed(rec.burned)[k]].art)])
  BY DEF DecomposeTo, Sent, Each
<1> QED
  BY <1>1, <1>3, <1>4 DEF DecomposeChange

\* The row of the survivor of a decompose.
LEMMA RowUncomposed ==
    ASSUME NEW r \in Row, NEW s, RowMirrors(r, s), NEW sh, sh = shapes'[s],
           SettledOwners[s] # NoOne, NEW d, NEW o, NEW a,
           sh.seed = shapes[s].seed, sh.denom = d, sh.origins = o, sh.art = a,
           shapes[s].black = FALSE, sh.black = FALSE,
           SettledOwners'[s] = SettledOwners[s], owners'[s] = owners[s],
           Len(composeStack'[s]) = Len(composeStack[s]) - 1,
           SplitFromOf(s)' = SplitFromOf(s), SplitOriginOf(s)' = SplitOriginOf(s)
    PROVE  RowMirrors(UncomposedRow(r, d, o, a), s)'
<1>1. PICK n, b : n = r.depth - 1 /\ b = Units[d]
  OBVIOUS
<1>2. PICK x : x = UncomposedRow(r, d, o, a)
  OBVIOUS
<1>3. x = [r EXCEPT !.denom = d, !.backing = b, !.origins = o, !.depth = n,
                    !.art = a]
  BY <1>1, <1>2 DEF UncomposedRow, Row
<1>4. /\ x.denom = d /\ x.backing = b /\ x.origins = o /\ x.depth = n /\ x.art = a
      /\ x.seed = r.seed /\ x.black = r.black /\ x.live = r.live
      /\ x.owner = r.owner /\ x.splitFrom = r.splitFrom
      /\ x.splitOrigin = r.splitOrigin
  BY <1>3 DEF Row
<1>5. /\ r.live <=> SettledOwners[s] # NoOne
      /\ r.depth = Len(composeStack[s])
      /\ r.splitFrom = SplitFromOf(s) /\ r.splitOrigin = SplitOriginOf(s)
      /\ owners[s] # NoOne => r.owner = owners[s]
      /\ r.seed = shapes[s].seed /\ r.black = shapes[s].black
  BY DEF RowMirrors, RowIs, RowIsShape
<1>6. r.live \in BOOLEAN /\ x.live = r.live
  BY <1>4 DEF Row
<1>7. x.live <=> SettledOwners'[s] # NoOne
  BY <1>5, <1>6
<1>8. x.depth = Len(composeStack'[s])
  BY <1>1, <1>4, <1>5
<1>9. x.splitFrom = SplitFromOf(s)' /\ x.splitOrigin = SplitOriginOf(s)'
  BY <1>4, <1>5
<1>10. owners'[s] # NoOne => x.owner = owners'[s]
  BY <1>4, <1>5
<1>11. RowIsShape(x, sh)
  BY <1>4, <1>5 DEF RowIsShape
<1>12. x.black = sh.black
  BY <1>4, <1>5
<1>13. x.backing = IF sh.black THEN 0 ELSE Units[sh.denom]
  BY <1>1, <1>4
<1>14. RowIs(x, SettledOwners'[s], owners'[s], sh, Len(composeStack'[s]),
             SplitFromOf(s)', SplitOriginOf(s)')
  BY <1>7, <1>8, <1>9, <1>10, <1>11, <1>12, <1>13 DEF RowIs
<1> QED
  BY <1>2, <1>14 DEF RowMirrors

\* The row of an id that a decompose gives back.
LEMMA RowRevived ==
    ASSUME NEW r \in Row, NEW b, RowMirrors(r, b), NEW x, RowIsInput(r, x),
           NEW sh, sh = shapes'[b], sh = Revived(x), NEW sender,
           SettledOwners'[b] # NoOne, owners'[b] = NoOne,
           composeStack'[b] = composeStack[b],
           SplitFromOf(b)' = SplitFromOf(b), SplitOriginOf(b)' = SplitOriginOf(b)
    PROVE  RowMirrors(RevivedRow(r, sender, x.art), b)'
<1>1. PICK y, a : y = RevivedRow(r, sender, a) /\ a = x.art
  OBVIOUS
<1>2. y = [r EXCEPT !.live = TRUE, !.owner = sender, !.art = a]
  BY <1>1 DEF RevivedRow
<1>3. /\ y.live = TRUE /\ y.art = a /\ y.depth = r.depth /\ y.seed = r.seed
      /\ y.denom = r.denom /\ y.origins = r.origins /\ y.black = r.black
      /\ y.backing = r.backing /\ y.splitFrom = r.splitFrom
      /\ y.splitOrigin = r.splitOrigin
  BY <1>2 DEF Row
<1>4. /\ r.depth = Len(composeStack[b])
      /\ r.splitFrom = SplitFromOf(b) /\ r.splitOrigin = SplitOriginOf(b)
  BY DEF RowMirrors, RowIs
<1>5. /\ r.seed = x.seed /\ r.denom = x.denom /\ r.origins = x.origins
      /\ r.black = FALSE /\ r.backing = Units[r.denom]
  BY DEF RowIsInput, RowIsShape
<1>6. /\ sh.seed = x.seed /\ sh.denom = x.denom /\ sh.origins = x.origins
      /\ sh.black = FALSE /\ sh.art = x.art
  BY DEF Revived
<1>7. RowIsShape(y, sh)
  BY <1>1, <1>3, <1>5, <1>6 DEF RowIsShape
<1>8. y.black = sh.black /\ y.backing = IF sh.black THEN 0 ELSE Units[sh.denom]
  BY <1>3, <1>5, <1>6
<1>9. RowIs(y, SettledOwners'[b], owners'[b], sh, Len(composeStack'[b]),
            SplitFromOf(b)', SplitOriginOf(b)')
  BY <1>3, <1>4, <1>7, <1>8 DEF RowIs
<1> QED
  BY <1>1, <1>9 DEF RowMirrors

\* What the top record of s is, and what its inputs are.
LEMMA TopOfStack ==
    ASSUME CallsInv, NEW s \in Ids, composeStack[s] # <<>>,
           NEW rec, rec = Last(composeStack[s])
    PROVE  \E n \in Nat \ {0} :
              /\ n = Len(composeStack[s]) /\ rec = composeStack[s][n]
              /\ rec \in ComposeRecord
              /\ Front(composeStack[s]) \in Seq(ComposeRecord)
              /\ Len(Front(composeStack[s])) = n - 1
              /\ \A k \in 1 .. n - 1 :
                    Front(composeStack[s])[k] = composeStack[s][k]
<1>1. PICK st, n : st = composeStack[s] /\ n = Len(st) /\ st \in Seq(ComposeRecord)
  BY ChainTypes
<1>2. n \in Nat \ {0} /\ st # <<>>
  BY <1>1
<1>3. rec = st[n] /\ rec \in ComposeRecord
  BY <1>1, <1>2 DEF Last
<1>4. PICK f : f = SubSeq(st, 1, n - 1)
  OBVIOUS
<1>5. f \in Seq(ComposeRecord) /\ Len(f) = n - 1
      /\ \A k \in 1 .. n - 1 : f[k] = st[k]
  BY <1>1, <1>2, <1>4
<1>6. Front(composeStack[s]) = f
  BY <1>1, <1>4 DEF Front
<1> QED
  BY <1>1, <1>2, <1>3, <1>5, <1>6

\* decompose.
LEMMA DecomposeMirrored ==
    ASSUME CallsInv, CallsInv', Kept, NEW u, Mirrors(u), Witnessed,
           NEW caller \in Accounts \ {House}, NEW s \in Live,
           NEW to \in Accounts \ {House}, DecomposeTo(caller, s, to)
    PROVE  Kept' /\ Carried(u)
<1>1. PICK rec : rec = Last(composeStack[s])
  OBVIOUS
<1>2. /\ call = Idle /\ call'.todo = rec.burned /\ call'.to = to
      /\ s \in Ids /\ owners[s] = caller /\ ~shapes[s].black
      /\ composeStack[s] # <<>>
      /\ composeStack' = [composeStack EXCEPT ![s] = Front(@)]
      /\ owners' = owners /\ approvals' = approvals
      /\ operatorApprovals' = operatorApprovals /\ ownerToken' = ownerToken
      /\ shapes' = Uncomposed(s, rec)
      /\ UNCHANGED <<splitRecords, splitOriginRef, totalMinted>>
      /\ tx.open /\ tx' = [tx EXCEPT !.last = "decompose"]
      /\ log' = log \o (<<DecomposedTo(s, rec), ArtSet(s, rec.art)>>
                        \o [k \in 1 .. Cardinality(rec.burned) |->
                              ArtSet(Listed(rec.burned)[k],
                                     rec.inputs[Listed(rec.burned)[k]].art)])
  <2>1. DecomposeChange(caller, s, to, rec)
    BY <1>1, DecomposeParts
  <2> QED
    BY <2>1 DEF DecomposeChange
<1>3. PICK m, B, sender, last : /\ m = totalMinted /\ B = rec.burned
                                /\ sender = tx.from /\ last = Front(composeStack[s])
  OBVIOUS
<1>4. PICK top \in Nat \ {0} :
          /\ top = Len(composeStack[s]) /\ rec = composeStack[s][top]
          /\ rec \in ComposeRecord /\ last \in Seq(ComposeRecord)
          /\ Len(last) = top - 1
          /\ \A k \in 1 .. top - 1 : last[k] = composeStack[s][k]
  BY <1>1, <1>2, <1>3, TopOfStack
<1>5. /\ rec.denom \in Denoms /\ rec.origins \in Nat /\ rec.art \in Arts
      /\ B \in SUBSET Ids /\ \A b \in Ids : rec.inputs[b].art \in Arts
  <2>1. rec.inputs \in [Ids -> ComposeInput]
    BY <1>4 DEF ComposeRecord
  <2>2. \A b \in Ids : rec.inputs[b] \in ComposeInput
    BY <2>1
  <2> QED
    BY <1>3, <1>4, <2>2 DEF ComposeRecord, ComposeInput
<1>6. /\ SettledOwners = owners /\ owners \in [Ids -> Accounts \cup {NoOne}]
      /\ SettledOwners' = [c \in Ids |-> IF c \in B THEN to ELSE owners[c]]
      /\ to # NoOne /\ caller # NoOne
  <2>1. SettledOwners = owners
    BY <1>2, Unguarded
  <2> QED
    BY <1>2, <1>3, <2>1, ChainTypes, CallConstants DEF SettledOwners
<1>7. /\ m \in Nat /\ 0 .. m - 1 \subseteq Ids /\ s \in 0 .. m - 1
      /\ B \in SUBSET (0 .. m - 1) /\ s \notin B
      /\ \A b \in B : SettledOwners[b] = NoOne
  <2>1. s \in 0 .. m - 1
    BY <1>2, <1>3, <1>6, LiveMinted
  <2>2. \A b \in B : b \in 0 .. totalMinted - 1 /\ SettledOwners[b] = NoOne
    <3>1. top \in 1 .. Len(composeStack[s]) /\ B = composeStack[s][top].burned
      BY <1>3, <1>4
    <3> QED
      BY <1>2, <3>1, HeldDead
  <2>3. s \notin B
    BY <1>2, <1>6, <2>2
  <2> QED
    BY <1>3, <2>1, <2>2, <2>3, ChainTypes
<1>8. PICK g, L, D, E :
          /\ g = RevivedRows(u, m, s, rec, sender)
          /\ L = Append(u.lineageEdge, Edges("revival", s, B, rec.denom))
          /\ D = Told(u.activity) \cup {s} \cup B
          /\ E = <<DecomposedTo(s, rec), ArtSet(s, rec.art)>>
                 \o [k \in 1 .. Cardinality(B) |->
                       ArtSet(Listed(B)[k], rec.inputs[Listed(B)[k]].art)]
  OBVIOUS
<1>9. Leads(sender, u, E, m, g, u.collectionOwner, L, D, u.escrowedCard)
  <2>1. sender \in Accounts
    BY <1>3 DEF Kept
  <2>2. u \in TablesOf(m)
    BY <1>3, MirrorTypes
  <2>3. \A b \in B : rec.inputs[b].art \in Arts
    BY <1>5
  <2> QED
    BY <1>3, <1>5, <1>7, <1>8, <2>1, <2>2, <2>3, RevivedEffect
<1>10. /\ u.token \in [0 .. m - 1 -> Row]
       /\ \A j \in 0 .. m - 1 : RowMirrors(u.token[j], j)
  BY <1>3, MirrorTypes DEF RowsMirror
<1>11. \A j \in 0 .. m - 1 :
          g[j] = IF j = s
                 THEN UncomposedRow(u.token[j], rec.denom, rec.origins, rec.art)
                 ELSE IF j \in B
                 THEN RevivedRow(u.token[j], sender, rec.inputs[j].art)
                 ELSE u.token[j]
  BY <1>3, <1>8 DEF RevivedRows
<1>12. /\ composeStack'[s] = last
       /\ \A j \in Ids : j # s => composeStack'[j] = composeStack[j]
  BY <1>2, <1>3, ChainTypes
<1>13. /\ \A j \in Ids : j # s /\ j \notin B => shapes'[j] = shapes[j]
       /\ \A j \in B : shapes'[j] = Revived(rec.inputs[j])
       /\ shapes'[s].seed = shapes[s].seed /\ shapes'[s].denom = rec.denom
       /\ shapes'[s].origins = rec.origins /\ shapes'[s].art = rec.art
       /\ shapes'[s].black = FALSE /\ shapes[s].black = FALSE
  <2>1. \A j \in Ids : j # s /\ j \notin B => shapes'[j] = shapes[j]
    BY <1>2, <1>3 DEF Uncomposed
  <2>2. \A j \in B : shapes'[j] = Revived(rec.inputs[j])
    BY <1>2, <1>3, <1>5, <1>7 DEF Uncomposed
  <2>3. PICK sh, d, o, a : /\ sh = shapes[s] /\ d = rec.denom
                           /\ o = rec.origins /\ a = rec.art
    OBVIOUS
  <2>4. shapes'[s] = [sh EXCEPT !.denom = d, !.origins = o, !.art = a]
    BY <1>2, <2>3 DEF Uncomposed
  <2>5. sh \in ShapeData
    BY <1>2, <2>3, ChainTypes
  <2>6. /\ shapes'[s].seed = sh.seed /\ shapes'[s].denom = d
        /\ shapes'[s].origins = o /\ shapes'[s].art = a
        /\ shapes'[s].black = sh.black
    BY <2>4, <2>5 DEF ShapeData
  <2>7. sh.black \in BOOLEAN /\ ~sh.black
    BY <1>2, <2>3, <2>5 DEF ShapeData
  <2> QED
    BY <2>1, <2>2, <2>3, <2>6, <2>7
<1>14. RowsMirror(g)'
  <2>1. ASSUME NEW j \in 0 .. m - 1 PROVE RowMirrors(g[j], j)'
    <3>1. j \in Ids /\ u.token[j] \in Row /\ RowMirrors(u.token[j], j)
      BY <1>7, <1>10
    <3>2. SplitFromOf(j)' = SplitFromOf(j) /\ SplitOriginOf(j)' = SplitOriginOf(j)
      BY <1>2, SplitOfStays
    <3>3. CASE j = s
      <4>1. PICK r, d, o, a, sh : /\ r = u.token[s] /\ d = rec.denom
                                  /\ o = rec.origins /\ a = rec.art
                                  /\ sh = shapes'[s]
        OBVIOUS
      <4>2. /\ sh.seed = shapes[s].seed /\ sh.denom = d /\ sh.origins = o
            /\ sh.art = a /\ shapes[s].black = FALSE /\ sh.black = FALSE
        BY <1>13, <4>1
      <4>3. /\ SettledOwners[s] # NoOne /\ owners'[s] = owners[s]
            /\ SettledOwners'[s] = SettledOwners[s]
        BY <1>2, <1>6, <1>7
      <4>4. Len(composeStack'[s]) = Len(composeStack[s]) - 1
        BY <1>4, <1>12
      <4>5. /\ r \in Row /\ RowMirrors(r, s) /\ sh = shapes'[s]
            /\ SplitFromOf(s)' = SplitFromOf(s)
            /\ SplitOriginOf(s)' = SplitOriginOf(s)
        BY <3>1, <3>2, <3>3, <4>1
      <4>6. RowMirrors(UncomposedRow(r, d, o, a), s)'
        BY ONLY <4>2, <4>3, <4>4, <4>5, RowUncomposed
      <4>7. g[j] = UncomposedRow(r, d, o, a)
        BY <1>11, <3>3, <4>1
      <4> QED
        BY <3>3, <4>6, <4>7
    <3>4. CASE j # s /\ j \in B
      <4>1. PICK r, x, sh : r = u.token[j] /\ x = rec.inputs[j] /\ sh = shapes'[j]
        OBVIOUS
      <4>2. RowIsInput(r, x)
        <5>1. HeldMirror(u.token)
          BY MirrorTypes
        <5>2. top \in 1 .. Len(composeStack[s]) /\ j \in composeStack[s][top].burned
          BY <1>3, <1>4, <3>4
        <5>3. RowIsInput(u.token[j], composeStack[s][top].inputs[j])
          BY <1>2, <5>1, <5>2 DEF HeldMirror
        <5> QED
          BY <1>4, <4>1, <5>3
      <4>3. sh = Revived(x) /\ sh = shapes'[j]
        BY <1>13, <3>4, <4>1
      <4>4. SettledOwners'[j] # NoOne /\ owners'[j] = NoOne
        BY <1>2, <1>6, <1>7, <3>1, <3>4
      <4>5. composeStack'[j] = composeStack[j]
        BY <1>12, <3>1, <3>4
      <4>6. r \in Row /\ RowMirrors(r, j)
        BY <3>1, <4>1
      <4>7. RowMirrors(RevivedRow(r, sender, x.art), j)'
        BY ONLY <3>2, <4>2, <4>3, <4>4, <4>5, <4>6, RowRevived
      <4>8. g[j] = RevivedRow(r, sender, x.art)
        BY <1>11, <3>4, <4>1
      <4> QED
        BY <4>7, <4>8
    <3>5. CASE j # s /\ j \notin B
      <4>1. /\ owners'[j] = owners[j] /\ SettledOwners'[j] = SettledOwners[j]
            /\ shapes'[j] = shapes[j]
        BY <1>2, <1>6, <1>13, <3>1, <3>5
      <4>2. RowMirrors(u.token[j], j)'
        BY <1>12, <3>1, <3>2, <3>5, <4>1, RowStays
      <4> QED
        BY <1>11, <3>5, <4>2
    <3> QED
      BY <3>3, <3>4, <3>5
  <2>2. totalMinted' = m
    BY <1>2, <1>3
  <2> QED
    BY <2>1, <2>2 DEF RowsMirror
<1>15. HeldMirror(g)'
  <2> SUFFICES ASSUME NEW t \in Ids, NEW n \in 1 .. Len(composeStack'[t]),
                      NEW b \in composeStack'[t][n].burned
               PROVE  RowIsInput(g[b], composeStack'[t][n].inputs[b])
    BY DEF HeldMirror
  <2>1. /\ n \in 1 .. Len(composeStack[t])
        /\ composeStack'[t][n] = composeStack[t][n]
        /\ t = s => n # top
    <3>1. CASE t = s
      <4>1. Len(composeStack'[t]) = top - 1
        BY <1>4, <1>12, <3>1
      <4>2. n \in 1 .. top - 1
        BY <4>1
      <4>3. n \in 1 .. top /\ n # top
        BY <1>4, <4>2
      <4> QED
        BY <1>4, <1>12, <3>1, <4>2, <4>3
    <3>2. CASE t # s
      BY <1>12, <3>2
    <3> QED
      BY <3>1, <3>2
  <2>2. b \in composeStack[t][n].burned
    BY <2>1
  <2>3. b \in 0 .. m - 1 /\ SettledOwners[b] = NoOne
    BY <1>3, <2>1, <2>2, HeldDead
  <2>4. b # s
    BY <1>2, <1>6, <2>3
  <2>5. b \notin B
    <3> SUFFICES ASSUME b \in B PROVE FALSE
      OBVIOUS
    <3>1. top \in 1 .. Len(composeStack[s]) /\ b \in composeStack[s][top].burned
      BY <1>3, <1>4
    <3>2. t = s /\ n = top
      BY <1>2, <2>1, <2>2, <3>1, HeldOnce
    <3> QED
      BY <2>1, <3>2
  <2>6. g[b] = u.token[b]
    BY <1>11, <2>3, <2>4, <2>5
  <2>7. RowIsInput(u.token[b], composeStack[t][n].inputs[b])
    BY <2>1, <2>2, MirrorTypes DEF HeldMirror
  <2> QED
    BY <2>1, <2>6, <2>7
<1>16. OwnerRowMirrors(u.collectionOwner)'
  BY <1>2, MirrorTypes DEF OwnerRowMirrors
<1>17. MergesMirror(g, L)'
  <2>1. PICK K : K = u.lineageEdge /\ K \in Seq(Edge)
    BY MirrorTypes
  <2>2. L = Append(K, Edges("revival", s, B, rec.denom))
    BY <1>8, <2>1
  <2>3. MergesMirror(u.token, K)
    BY <2>1, MirrorTypes
  <2>4. \A j : j # s => MergesFrom(L, j) = MergesFrom(K, j)
    BY <2>1, <2>2, EdgeOfAnother
  <2>5. ASSUME NEW j \in 0 .. m - 1
        PROVE  MergesFrom(L, j) = Standing(composeStack'[j], g[j].denom)
    <3>1. CASE j = s
      <4>1. PICK d, e, st, T : /\ d = u.token[s].denom /\ e = rec.denom
                               /\ st = composeStack[s] /\ T = ComposeRecord
        OBVIOUS
      <4>2. MergesFrom(K, s) = Standing(st, d)
        BY <1>3, <1>7, <2>3, <4>1 DEF MergesMirror
      <4>3. st \in Seq(T) /\ st # <<>> /\ rec = Last(st) /\ last = Front(st)
        BY <1>1, <1>2, <1>3, <4>1, ChainTypes
      <4>4. /\ Standing(st, d) # <<>>
            /\ Front(Standing(st, d)) = Standing(last, e)
        BY <4>1, <4>3, StandingPop
      <4>5. MergesFrom(L, s) = Front(MergesFrom(K, s))
        BY <2>1, <2>2, <4>2, <4>4, EdgeOfDecompose
      <4>6. g[s].denom = e
        <5>1. g[s] = UncomposedRow(u.token[s], e, rec.origins, rec.art)
          BY <1>7, <1>11, <4>1
        <5>2. u.token[s] \in Row
          BY <1>7, <1>10
        <5> QED
          BY <5>1, <5>2 DEF UncomposedRow, Row
      <4> QED
        BY <1>12, <3>1, <4>2, <4>4, <4>5, <4>6
    <3>2. CASE j # s
      <4>1. g[j].denom = u.token[j].denom
        <5>1. PICK r, x : r = u.token[j] /\ x = rec.inputs[j].art
          OBVIOUS
        <5>2. r \in Row /\ g[j] \in {r, RevivedRow(r, sender, x)}
          BY <1>10, <1>11, <3>2, <5>1
        <5> QED
          BY <5>1, <5>2 DEF RevivedRow, Row
      <4>2. MergesFrom(K, j) = Standing(composeStack[j], u.token[j].denom)
        BY <1>3, <2>3 DEF MergesMirror
      <4> QED
        BY <1>7, <1>12, <2>4, <3>2, <4>1, <4>2
    <3> QED
      BY <3>1, <3>2
  <2>6. ASSUME NEW i \in Ids, i >= m PROVE MergesFrom(L, i) = <<>>
    <3>1. i # s
      BY <1>7, <2>6
    <3>2. MergesFrom(K, i) = <<>>
      BY <1>3, <2>3, <2>6 DEF MergesMirror
    <3> QED
      BY <2>4, <3>1, <3>2
  <2>7. totalMinted' = m
    BY <1>2, <1>3
  <2> QED
    BY <2>5, <2>6, <2>7 DEF MergesMirror
<1>18. touched' \cup call'.todo \subseteq D
  <2>1. touched' \subseteq touched \cup ({s} \cup B)
    <3>1. \A i \in Ids : i \notin {s} \cup B => owners'[i] = owners[i]
                                                /\ shapes'[i] = shapes[i]
      BY <1>2, <1>13
    <3> QED
      BY <3>1, TouchedWithin
  <2> QED
    BY <1>2, <1>3, <1>8, <2>1, MirrorTypes
<1>19. CardsMirror(u.escrowedCard)'
  BY <1>2, NoneEntered, CardsStay, MirrorTypes
<1>20. log' = log \o E /\ totalMinted' = m /\ sender = tx.from
  BY <1>2, <1>3, <1>8
<1>21. Carried(u)
  BY <1>9, <1>14, <1>15, <1>16, <1>17, <1>18, <1>19, <1>20, Leading
<1>22. Kept'
  <2>1. tx' = [tx EXCEPT !.last = "decompose"]
    BY <1>2
  <2>2. tx'.from = tx.from /\ tx'.open = tx.open
    BY <2>1
  <2>3. tx'.open
    BY <1>2, <2>2
  <2> QED
    BY <1>2, <2>2, <2>3 DEF Kept
<1> QED
  BY <1>21, <1>22

-----------------------------------------------------------------------------
(* Every step of the chain and of the indexer.                             *)

\* Within a transaction its sender stays, and only OpenTx opens one.
LEMMA SameTx ==
    ASSUME Kept, CallStep, ~OpenTx
    PROVE  tx'.from = tx.from /\ ~(tx'.open /\ ~tx.open)
<1>1. CASE CommitTx
  <2>1. tx' = [tx EXCEPT !.open = FALSE]
    BY <1>1 DEF CommitTx
  <2>2. tx'.from = tx.from
    BY <2>1
  <2>3. tx.open
    BY <1>1 DEF CommitTx
  <2> QED
    BY <2>2, <2>3
<1>2. CASE UNCHANGED tx
  BY <1>2
<1>3. CASE tx.open /\ \E kind : tx' = [tx EXCEPT !.last = kind]
  <2>1. PICK kind : tx' = [tx EXCEPT !.last = kind]
    BY <1>3
  <2>2. tx'.from = tx.from
    BY <2>1
  <2> QED
    BY <1>3, <2>2
<1>4. ASSUME NEW caller, MintCall(caller)
      PROVE  tx.open /\ \E kind : tx' = [tx EXCEPT !.last = kind]
  <2>1. PICK d, q, to : MintBatchTo(caller, d, q, to)
    BY <1>4 DEF MintCall
  <2> QED
    BY <2>1 DEF MintBatchTo, MayEnter, MaySend, Sent
<1>5. ASSUME NEW caller, OwnersCall(caller)
      PROVE  tx.open /\ \E kind : tx' = [tx EXCEPT !.last = kind]
  <2>1. ASSUME NEW i, NEW out, NEW to, SplitTo(caller, i, out, to)
        PROVE  tx.open /\ \E kind : tx' = [tx EXCEPT !.last = kind]
    BY <2>1 DEF SplitTo, MayEnter, MaySend, Sent
  <2>2. ASSUME NEW s, NEW to, DecomposeTo(caller, s, to)
        PROVE  tx.open /\ \E kind : tx' = [tx EXCEPT !.last = kind]
    BY <2>2 DEF DecomposeTo, MayEnter, MaySend, Sent
  <2>3. ASSUME NEW s, NEW B, ComposeCall(caller, s, B)
        PROVE  tx.open /\ \E kind : tx' = [tx EXCEPT !.last = kind]
    BY <2>3 DEF ComposeCall, MayEnter, MaySend, Sent
  <2>4. ASSUME NEW S, NEW allowBlack, NEW to, RedeemCall(caller, S, allowBlack, to)
        PROVE  tx.open /\ \E kind : tx' = [tx EXCEPT !.last = kind]
    BY <2>4 DEF RedeemCall, MayEnter, MaySend, Sent
  <2>5. ASSUME NEW i, BurnBackingCall(caller, i)
        PROVE  tx.open /\ \E kind : tx' = [tx EXCEPT !.last = kind]
    BY <2>5 DEF BurnBackingCall, MayEnter, MaySend, Sent
  <2> QED
    BY <1>5, <2>1, <2>2, <2>3, <2>4, <2>5 DEF OwnersCall
<1>6. ASSUME NEW caller, NEW i, NEW to, TransferCall(caller, i, to)
      PROVE  \/ UNCHANGED tx
             \/ tx.open /\ \E kind : tx' = [tx EXCEPT !.last = kind]
  BY <1>6 DEF TransferCall, MaySend
<1>7. CASE SafeMint \/ CallbackReturns \/ CallReturns
  BY <1>2, <1>7 DEF SafeMint, CallbackReturns, CallReturns
<1> QED
  BY <1>1, <1>2, <1>3, <1>4, <1>5, <1>6, <1>7 DEF CallStep

\* What changes nothing of the chain adds nothing to its history.
LEMMA NothingWitnessed ==
    ASSUME Witnessed, entered \in Seq(Card), UNCHANGED vars
    PROVE  UNCHANGED <<touched, entered>>
<1>1. owners' = owners /\ shapes' = shapes
  BY DEF vars, storeVars, erc721Vars
<1>2. entered' = entered
  BY <1>1, NoneEntered
<1> QED
  BY <1>1, <1>2 DEF Witnessed

\* Every step of a transaction leaves the tables, with its events, the chain's.
LEMMA CallMirrored ==
    ASSUME CallsInv, CallsInv', Kept, NEW u, Mirrors(u), Witnessed,
           CallStep, ~OpenTx
    PROVE  Kept' /\ Carried(u)
<1>1. CASE CommitTx
  <2>1. UNCHANGED vars /\ call' = call /\ log' = log /\ call = Idle
    BY <1>1 DEF CommitTx
  <2>2. tx'.from = tx.from /\ (tx'.open => tx.open)
    BY SameTx
  <2>3. Carried(u)
    BY <2>1, NothingWitnessed, FrameCarried, MirrorTypes
  <2>4. /\ approvals' = approvals /\ operatorApprovals' = operatorApprovals
        /\ splitOriginRef' = splitOriginRef /\ totalMinted' = totalMinted
    BY <2>1 DEF vars, storeVars, erc721Vars
  <2>5. Kept'
    BY <2>1, <2>2, <2>4 DEF Kept
  <2> QED
    BY <2>3, <2>5
<1>2. CASE CallbackReturns
  <2>1. UNCHANGED vars /\ log' = log /\ tx' = tx /\ call.hook
        /\ call' = [call EXCEPT !.hook = FALSE]
    BY <1>2 DEF CallbackReturns
  <2>2. call'.todo = call.todo /\ call'.to = call.to
    <3>1. call \in Frames
      BY DEF CallsInv, Framed
    <3> QED
      BY <2>1, <3>1 DEF Frames
  <2>3. Carried(u)
    BY <2>1, <2>2, NothingWitnessed, FrameCarried, MirrorTypes
  <2>4. /\ approvals' = approvals /\ operatorApprovals' = operatorApprovals
        /\ splitOriginRef' = splitOriginRef /\ totalMinted' = totalMinted
    BY <2>1 DEF vars, storeVars, erc721Vars
  <2>5. call # Idle
    <3>1. call.hook = TRUE
      <4>1. call \in Frames
        BY DEF CallsInv, Framed
      <4>2. call.hook \in BOOLEAN
        BY <4>1 DEF Frames
      <4> QED
        BY <2>1, <4>2
    <3>2. Idle.hook = FALSE
      BY DEF Idle
    <3> QED
      BY <3>1, <3>2
  <2>6. Kept'
    BY <2>1, <2>4, <2>5 DEF Kept
  <2> QED
    BY <2>3, <2>6
<1>3. CASE CallReturns
  BY <1>3, ReturnMirrored
<1>4. CASE SafeMint
  BY <1>4, SafeMintMirrored
<1>5. ASSUME NEW caller \in Accounts, MintCall(caller)
      PROVE  Kept' /\ Carried(u)
  BY <1>5, MintMirrored DEF MintCall
<1>6. ASSUME NEW caller \in Accounts, NEW i \in Live, NEW to \in Accounts,
             TransferCall(caller, i, to)
      PROVE  Kept' /\ Carried(u)
  BY <1>6, TransferMirrored
<1>7. ASSUME NEW caller \in Accounts \ {House}, OwnersCall(caller)
      PROVE  Kept' /\ Carried(u)
  <2>1. ASSUME NEW i \in Live, NEW out \in OutputLists,
               NEW to \in Accounts \ {House}, SplitTo(caller, i, out, to)
        PROVE  Kept' /\ Carried(u)
    BY <2>1, SplitMirrored
  <2>2. ASSUME NEW s \in Live, NEW to \in Accounts \ {House},
               DecomposeTo(caller, s, to)
        PROVE  Kept' /\ Carried(u)
    BY <2>2, DecomposeMirrored
  <2>3. ASSUME NEW s \in Live, NEW B \in SUBSET (Live \ {s}),
               ComposeCall(caller, s, B)
        PROVE  Kept' /\ Carried(u)
    BY <2>3, ComposeMirrored
  <2>4. ASSUME NEW S \in SUBSET Live, NEW allowBlack \in BOOLEAN,
               NEW to \in Accounts \ {House},
               RedeemCall(caller, S, allowBlack, to)
        PROVE  Kept' /\ Carried(u)
    BY <2>4, RedeemMirrored
  <2>5. ASSUME NEW i \in Live, BurnBackingCall(caller, i)
        PROVE  Kept' /\ Carried(u)
    BY <2>5, BlackMirrored
  <2> QED
    BY <1>7, <2>1, <2>2, <2>3, <2>4, <2>5 DEF OwnersCall
<1> QED
  BY <1>1, <1>2, <1>3, <1>4, <1>5, <1>6, <1>7 DEF CallStep

\* A transaction opens: nothing is unread, so the tables mirror the chain, and
\* their feed and cards start empty.
LEMMA OpenTxKeeps ==
    ASSUME IndexInv, OpenTx, CallsInv', touched' = {}, entered' = <<>>,
           tables' = [tables EXCEPT !.activity = {}, !.escrowedCard = {}],
           stopped' = stopped
    PROVE  IndexInv'
<1>1. /\ log = <<>> /\ ~tx.open /\ UNCHANGED vars /\ call' = call /\ log' = log
      /\ \E from \in Wallets : \E driver :
            tx' = [from |-> from, driver |-> driver, open |-> TRUE, last |-> "none"]
  BY DEF OpenTx, BeginTx
<1>2. call = Idle /\ call'.todo = {}
  <2>1. call = Idle
    BY <1>1 DEF IndexInv, Kept
  <2> QED
    BY <1>1, <2>1 DEF Idle
<1>3. Mirrors(tables)
  <2>1. PICK u : Yields(tx.from, tables, log, u) /\ Mirrors(u)
    BY DEF IndexInv
  <2>2. u = tables
    BY <1>1, <2>1, YieldsEmpty
  <2> QED
    BY <2>1, <2>2
<1>4. PICK t, v : t = tables /\ v = [t EXCEPT !.activity = {}, !.escrowedCard = {}]
  OBVIOUS
<1>5. /\ totalMinted' = totalMinted /\ owners' = owners /\ shapes' = shapes
      /\ composeStack' = composeStack /\ splitOriginRef' = splitOriginRef
      /\ splitRecords' = splitRecords /\ ownerToken' = ownerToken
      /\ approvals' = approvals /\ operatorApprovals' = operatorApprovals
  BY <1>1 DEF vars, storeVars, erc721Vars
<1>6. SettledOwners' = SettledOwners
  BY <1>1, <1>5 DEF SettledOwners
<1>7. /\ t \in TablesOf(totalMinted) /\ RowsMirror(t.token) /\ HeldMirror(t.token)
      /\ OwnerRowMirrors(t.collectionOwner) /\ MergesMirror(t.token, t.lineageEdge)
  BY <1>3, <1>4, MirrorTypes
<1>8. /\ v \in TablesOf(totalMinted) /\ v.token = t.token
      /\ v.collectionOwner = t.collectionOwner /\ v.lineageEdge = t.lineageEdge
      /\ v.activity = {} /\ v.escrowedCard = {}
  BY <1>4, <1>7 DEF TablesOf
<1>9. RowsMirror(t.token)'
  BY <1>4, <1>5, <1>6, <1>7, SplitOfStays, RowStays DEF RowsMirror
<1>10. HeldMirror(v.token)' /\ OwnerRowMirrors(v.collectionOwner)'
       /\ MergesMirror(v.token, v.lineageEdge)'
  BY <1>5, <1>7, <1>8 DEF HeldMirror, OwnerRowMirrors, MergesMirror
<1>11. CardsMirror(v.escrowedCard)'
  BY <1>8 DEF CardsMirror, FirstOf
<1>12. RowsMirror(v.token)'
  BY <1>5, <1>6, <1>7, <1>8, SplitOfStays, RowStays DEF RowsMirror
<1>13. Mirrors(v)'
  BY <1>2, <1>5, <1>8, <1>10, <1>11, <1>12 DEF Mirrors
<1>14. Kept'
  <2>1. PICK from, driver :
            from \in Wallets
            /\ tx' = [from |-> from, driver |-> driver, open |-> TRUE, last |-> "none"]
    BY <1>1
  <2>2. tx'.from \in Accounts /\ tx'.from # House /\ tx'.open
    BY <2>1 DEF Wallets
  <2> QED
    BY <1>5, <2>2 DEF IndexInv, Kept
<1>15. tables' = v /\ log' = <<>>
  BY <1>1, <1>4
<1>16. Yields(tx'.from, tables', log', v)
  BY <1>15, YieldsNone
<1> QED
  BY <1>13, <1>14, <1>16 DEF IndexInv

\* Every other step of the chain.
LEMMA CallKeeps ==
    ASSUME IndexInv, CallStep, ~OpenTx, CallsInv', Witnessed, tables' = tables,
           stopped' = stopped
    PROVE  IndexInv'
<1>1. PICK u : Yields(tx.from, tables, log, u) /\ Mirrors(u)
  BY DEF IndexInv
<1>2. Kept' /\ Carried(u)
  BY <1>1, CallMirrored DEF IndexInv
<1>3. tx'.from = tx.from
  BY SameTx DEF IndexInv
<1>4. CASE log' = log /\ Mirrors(u)'
  <2>1. Yields(tx'.from, tables', log', u)
    BY <1>1, <1>3, <1>4
  <2> QED
    BY <1>2, <1>4, <2>1 DEF IndexInv
<1>5. CASE \E E, v : /\ log' = log \o E
                     /\ Yields(tx.from, u, E, v) /\ Mirrors(v)'
  <2>1. PICK E, v : log' = log \o E /\ Yields(tx.from, u, E, v) /\ Mirrors(v)'
    BY <1>5
  <2>2. Yields(tx.from, tables, log \o E, v)
    BY <1>1, <2>1, YieldsThen
  <2>3. Yields(tx'.from, tables', log', v)
    BY <1>3, <2>1, <2>2
  <2> QED
    BY <1>2, <2>1, <2>3 DEF IndexInv
<1> QED
  BY <1>2, <1>4, <1>5 DEF Carried

\* Nothing that the invariant reads changes.
LEMMA ChainStill ==
    ASSUME CallsInv, Kept, NEW u, Mirrors(u), UNCHANGED vars, call' = call,
           tx' = tx, UNCHANGED <<touched, entered>>
    PROVE  CallsInv' /\ Kept' /\ Mirrors(u)'
<1>1. call \in Frames
  BY DEF CallsInv, Framed
<1>2. Framed' /\ UNCHANGED Atomic!vars
  BY <1>1, FrameStutters
<1>3. CallsInv'
  BY <1>2, SettledKeeps DEF CallsInv
<1>4. /\ totalMinted' = totalMinted /\ owners' = owners /\ shapes' = shapes
      /\ composeStack' = composeStack /\ splitOriginRef' = splitOriginRef
      /\ splitRecords' = splitRecords /\ ownerToken' = ownerToken
      /\ approvals' = approvals /\ operatorApprovals' = operatorApprovals
  BY DEF vars, storeVars, erc721Vars
<1>5. Kept'
  BY <1>4 DEF Kept
<1>6. SettledOwners' = SettledOwners
  BY <1>4 DEF SettledOwners
<1>7. RowsMirror(u.token)'
  BY <1>4, <1>6, SplitOfStays, RowStays, MirrorTypes DEF RowsMirror
<1>8. HeldMirror(u.token)' /\ OwnerRowMirrors(u.collectionOwner)'
      /\ CardsMirror(u.escrowedCard)' /\ MergesMirror(u.token, u.lineageEdge)'
  BY <1>4, MirrorTypes DEF HeldMirror, OwnerRowMirrors, CardsMirror, MergesMirror,
         FirstOf
<1>9. u \in TablesOf(totalMinted') /\ touched' \cup call'.todo \subseteq Told(u.activity)
  BY <1>4, MirrorTypes
<1>10. Mirrors(u)'
  BY <1>7, <1>8, <1>9 DEF Mirrors
<1> QED
  BY <1>3, <1>5, <1>10

\* The indexer handles the next event, which never makes it throw.
LEMMA HandlerKeeps ==
    ASSUME IndexInv, HandleEvent
    PROVE  IndexInv'
<1>1. PICK u : Yields(tx.from, tables, log, u) /\ Mirrors(u)
  BY DEF IndexInv
<1>2. log # <<>> /\ ~stopped /\ UNCHANGED vars /\ call' = call /\ tx' = tx
      /\ UNCHANGED <<touched, entered>>
  BY DEF HandleEvent
<1>3. /\ ~Throws(tables, Head(log))
      /\ Yields(tx.from, Handled(tables, Head(log), tx.from), Tail(log), u)
  BY <1>1, <1>2, YieldsHead
<1>4. /\ tables' = Handled(tables, Head(log), tx.from) /\ log' = Tail(log)
      /\ stopped' = stopped
  BY <1>3 DEF HandleEvent
<1>5. Yields(tx'.from, tables', log', u)
  BY <1>2, <1>3, <1>4
<1>6. CallsInv' /\ Kept' /\ Mirrors(u)'
  BY <1>1, <1>2, ChainStill DEF IndexInv
<1> QED
  BY <1>2, <1>4, <1>5, <1>6 DEF IndexInv

\* Every step keeps the invariant.
LEMMA IndexedStepKeeps ==
    ASSUME IndexInv, [IndexedNext]_<<vars, callVars, indexerVars>>
    PROVE  IndexInv'
<1>1. CASE HandleEvent
  BY <1>1, HandlerKeeps
<1>2. CASE ChainStep
  <2>1. CallStep /\ stopped' = stopped
    BY <1>2 DEF ChainStep
  <2>2. CallsInv'
    BY <2>1, CallStepIsStep DEF IndexInv
  <2>3. CASE OpenTx
    <3>1. tx'.open /\ ~tx.open
      <4>1. PICK from, driver : BeginTx(from, driver)
        BY <2>3 DEF OpenTx
      <4>2. tx' = [from |-> from, driver |-> driver, open |-> TRUE, last |-> "none"]
        BY <4>1 DEF BeginTx
      <4> QED
        BY <4>1, <4>2 DEF BeginTx
    <3>2. /\ touched' = {} /\ entered' = <<>>
          /\ tables' = [tables EXCEPT !.activity = {}, !.escrowedCard = {}]
      BY <1>2, <3>1 DEF ChainStep
    <3> QED
      BY <2>1, <2>2, <2>3, <3>2, OpenTxKeeps
  <2>4. CASE ~OpenTx
    <3>1. ~(tx'.open /\ ~tx.open)
      BY <2>1, <2>4, SameTx DEF IndexInv
    <3>2. Witnessed /\ tables' = tables
      BY <1>2, <3>1 DEF ChainStep
    <3> QED
      BY <2>1, <2>2, <2>4, <3>2, CallKeeps
  <2> QED
    BY <2>3, <2>4
<1>3. CASE UNCHANGED <<vars, callVars, indexerVars>>
  <2>1. /\ UNCHANGED vars /\ call' = call /\ tx' = tx /\ log' = log
        /\ tables' = tables /\ stopped' = stopped
        /\ UNCHANGED <<touched, entered>>
    BY <1>3 DEF callVars, indexerVars
  <2>2. PICK u : Yields(tx.from, tables, log, u) /\ Mirrors(u)
    BY DEF IndexInv
  <2>3. CallsInv' /\ Kept' /\ Mirrors(u)'
    BY <2>1, <2>2, ChainStill DEF IndexInv
  <2>4. Yields(tx'.from, tables', log', u)
    BY <2>1, <2>2
  <2> QED
    BY <2>1, <2>3, <2>4 DEF IndexInv
<1> QED
  BY <1>1, <1>2, <1>3 DEF IndexedNext

\* The dealt state.
LEMMA IndexedInitInv == IndexedInit => IndexInv
<1> SUFFICES ASSUME IndexedInit PROVE IndexInv
  OBVIOUS
<1>1. CallsInit /\ IndexerInit
  BY DEF IndexedInit
<1>2. CallsInv
  BY <1>1, CallsInitInv
<1>3. PICK n : n = Len(Dealt)
  OBVIOUS
<1>4. /\ n \in 1 .. MaxMinted /\ n \in Nat /\ Dealt \in Seq(Denoms)
      /\ \A i \in 0 .. n - 1 : i \in Ids /\ Dealt[i + 1] \in Denoms
      /\ 0 \in 0 .. n - 1
  BY <1>3, ContractsAssumption, CallConstants DEF Ids
<1>5. /\ owners = [i \in Ids |-> IF i < n THEN Deployer ELSE NoOne]
      /\ approvals = [i \in Ids |-> NoOne] /\ operatorApprovals = {}
      /\ shapes = [i \in Ids |-> Fresh(i)] /\ composeStack = [i \in Ids |-> <<>>]
      /\ splitOriginRef = [i \in Ids |-> NoRef] /\ totalMinted = n
      /\ ownerToken = 1 /\ call = Idle /\ log = <<>>
      /\ tx = [from |-> Deployer, driver |-> Deployer, open |-> FALSE,
               last |-> "none"]
  BY <1>1, <1>3 DEF CallsInit
<1>6. PICK t, f, w : /\ t = tables
                     /\ f = [i \in 0 .. n - 1 |-> MintRow(Deployer, Fresh(i))]
                     /\ w = [tokenId |-> 1, address |-> Deployer]
  OBVIOUS
<1>7. /\ t = [token |-> f, collectionOwner |-> w, lineageEdge |-> <<>>,
              activity |-> {}, escrowedCard |-> {}]
      /\ stopped = FALSE /\ touched = {} /\ entered = <<>>
  BY <1>1, <1>3, <1>6 DEF IndexerInit
<1>8. /\ t.token = f /\ t.collectionOwner = w /\ t.lineageEdge = <<>>
      /\ t.activity = {} /\ t.escrowedCard = {}
  BY <1>7
<1>9. SettledOwners = owners /\ call.todo = {}
  BY <1>2, <1>5, Unguarded
<1>10. ASSUME NEW i \in 0 .. n - 1
       PROVE  f[i] \in Row /\ RowMirrors(f[i], i)
  <2>1. PICK r, sh, d, b : /\ r = MintRow(Deployer, sh) /\ sh = shapes[i]
                           /\ d = sh.denom /\ b = Units[d]
    OBVIOUS
  <2>2. i \in Ids /\ i < n /\ f[i] = r
    BY <1>4, <1>5, <1>6, <2>1
  <2>3. r = [seed |-> sh.seed, denom |-> d, backing |-> b, origins |-> sh.origins,
             depth |-> 0, art |-> sh.art, black |-> FALSE, live |-> TRUE,
             owner |-> Deployer, splitFrom |-> Null, splitOrigin |-> Null,
             mintDenom |-> d]
    BY <2>1 DEF MintRow
  <2>4. sh \in ShapeData /\ sh.black = FALSE
    <3>1. shapes \in [Ids -> ShapeData]
      BY <1>2, ChainTypes
    <3>2. sh = MintedShape(i, Dealt[i + 1])
      BY <1>3, <1>5, <2>1, <2>2 DEF Fresh
    <3>3. PICK x : x = Dealt[i + 1]
      OBVIOUS
    <3>4. sh = [seed |-> <<i>>, denom |-> x, origins |-> 1, black |-> FALSE,
                art |-> MintArt[i]]
      BY <3>2, <3>3 DEF MintedShape
    <3>5. sh.black = FALSE
      BY <3>4
    <3>6. shapes[i] \in ShapeData
      BY <2>2, <3>1
    <3> QED
      BY <2>1, <3>5, <3>6
  <2>5. /\ sh.seed \in Seeds /\ d \in Denoms /\ sh.origins \in Nat /\ sh.art \in Arts
        /\ b \in Nat
    <3>1. sh.seed \in Seeds /\ d \in Denoms /\ sh.origins \in Nat /\ sh.art \in Arts
      BY <2>1, <2>4 DEF ShapeData
    <3> QED
      BY <2>1, <3>1, LadderAssumption
  <2>6. r \in Row
    BY <2>3, <2>5, CallConstants DEF Row
  <2>7. /\ owners[i] = Deployer /\ SettledOwners[i] = Deployer
        /\ Len(composeStack[i]) = 0 /\ splitOriginRef[i] = NoRef
    BY <1>5, <1>9, <2>2
  <2>8. SplitFromOf(i) = Null /\ SplitOriginOf(i) = Null
    BY <2>7 DEF SplitFromOf, SplitOriginOf, NoRef
  <2>9. RowIsShape(r, sh)
    BY <2>1, <2>3 DEF RowIsShape
  <2>10. RowIs(r, SettledOwners[i], owners[i], sh, Len(composeStack[i]),
               SplitFromOf(i), SplitOriginOf(i))
    <3>1. /\ r.live = TRUE /\ r.black = FALSE /\ r.backing = b /\ r.depth = 0
          /\ r.splitFrom = Null /\ r.splitOrigin = Null /\ r.owner = Deployer
      BY <2>3
    <3>2. Deployer # NoOne /\ r.live
      BY <3>1, CallConstants
    <3>3. r.live <=> SettledOwners[i] # NoOne
      BY <2>7, <3>2
    <3>4. r.black = sh.black /\ r.backing = IF sh.black THEN 0 ELSE Units[sh.denom]
      BY <2>1, <2>4, <3>1
    <3> QED
      BY <2>7, <2>8, <2>9, <3>1, <3>3, <3>4 DEF RowIs
  <2> QED
    BY <2>1, <2>2, <2>6, <2>10 DEF RowMirrors
<1>11. t \in TablesOf(totalMinted)
  <2>1. f \in [0 .. n - 1 -> Row]
    BY <1>6, <1>10
  <2>2. w \in OwnerRow
    BY <1>4, <1>6, CallConstants DEF OwnerRow
  <2>3. <<>> \in Seq(Edge)
    OBVIOUS
  <2> QED
    BY <1>5, <1>7, <2>1, <2>2, <2>3 DEF TablesOf
<1>12. RowsMirror(t.token)
  BY <1>5, <1>8, <1>10 DEF RowsMirror
<1>13. HeldMirror(t.token)
  BY <1>5 DEF HeldMirror
<1>14. OwnerRowMirrors(t.collectionOwner)
  <2>1. owners[0] = Deployer
    BY <1>4, <1>5
  <2> QED
    BY <1>5, <1>6, <1>8, <2>1 DEF OwnerRowMirrors, OwnerRowIs
<1>15. MergesMirror(t.token, t.lineageEdge)
  <2>1. \A x : Standing(<<>>, x) = <<>>
    BY DEF Standing
  <2> QED
    BY <1>4, <1>5, <1>8, <2>1, MergesNone DEF MergesMirror
<1>16. CardsMirror(t.escrowedCard)
  BY <1>7, <1>8 DEF CardsMirror, FirstOf
<1>17. Mirrors(t)
  BY <1>7, <1>9, <1>11, <1>12, <1>13, <1>14, <1>15, <1>16 DEF Mirrors
<1>18. Kept
  BY <1>5, CallConstants DEF Kept, NoRef
<1>19. Yields(tx.from, tables, log, t)
  BY <1>5, <1>6, YieldsNone
<1> QED
  BY <1>2, <1>7, <1>17, <1>18, <1>19 DEF IndexInv

-----------------------------------------------------------------------------
(* The theorems.                                                           *)

\* At every moment, with a call half done or a log half read, the events not yet
\* handled lead the tables of indexer.config.ts to what the chain is, and no
\* handler throws on the way.
THEOREM IndexAlwaysLeadsToChain == IndexedSpec => []IndexInv
<1>1. IndexedInit => IndexInv
  BY IndexedInitInv
<1>2. IndexInv /\ [IndexedNext]_<<vars, callVars, indexerVars>> => IndexInv'
  BY IndexedStepKeeps
<1> QED
  BY <1>1, <1>2, PTL DEF IndexedSpec

\* Once the indexer has read all there is, its tables are what the chain is.
LEMMA DrainedMirrors ==
    ASSUME IndexInv, Drained
    PROVE  /\ Mirrors(tables) /\ call = Idle
           /\ SettledOwners = owners /\ SettledOwnerToken = ownerToken
<1>1. PICK u : Yields(tx.from, tables, log, u) /\ Mirrors(u)
  BY DEF IndexInv
<1>2. u = tables
  BY <1>1, YieldsEmpty DEF Drained
<1>3. call = Idle
  BY DEF IndexInv, Kept, Drained
<1> QED
  BY <1>1, <1>2, <1>3, Unguarded DEF IndexInv

\* So the tables say what the chain is.
LEMMA MirrorsChain == IndexInv => IndexerMirrorsChain
<1> SUFFICES ASSUME IndexInv, Drained
             PROVE  /\ ~stopped
                    /\ DOMAIN token = 0 .. totalMinted - 1
                    /\ \A i \in DOMAIN token :
                          /\ token[i].live = IsLive(i)
                          /\ token[i].depth = Len(composeStack[i])
                          /\ RowKeepsSplit(i)
                          /\ IsLive(i) => /\ RowIsShape(token[i], shapes[i])
                                          /\ token[i].owner = owners[i]
                                          /\ token[i].black = shapes[i].black
                                          /\ token[i].backing = BackingOf(i)
                          /\ \A k \in DOMAIN composeStack[i] :
                                \A b \in composeStack[i][k].burned :
                                    RowIsShape(token[b], composeStack[i][k].inputs[b])
                    /\ collectionOwner.tokenId = ownerToken
                    /\ collectionOwner.address =
                          IF ownerToken = 0 THEN NoOne ELSE owners[ownerToken - 1]
  BY DEF IndexerMirrorsChain
<1>1. /\ ~stopped /\ CallsInv /\ Mirrors(tables)
      /\ SettledOwners = owners /\ SettledOwnerToken = ownerToken
  BY DrainedMirrors DEF IndexInv
<1>2. /\ token \in [0 .. totalMinted - 1 -> Row] /\ RowsMirror(token)
      /\ HeldMirror(token) /\ OwnerRowMirrors(collectionOwner)
  BY <1>1, MirrorTypes DEF token, collectionOwner
<1>3. ASSUME NEW i \in 0 .. totalMinted - 1
      PROVE  /\ token[i].live = IsLive(i)
             /\ token[i].depth = Len(composeStack[i])
             /\ RowKeepsSplit(i)
             /\ IsLive(i) => /\ RowIsShape(token[i], shapes[i])
                             /\ token[i].owner = owners[i]
                             /\ token[i].black = shapes[i].black
                             /\ token[i].backing = BackingOf(i)
             /\ \A k \in DOMAIN composeStack[i] :
                   \A b \in composeStack[i][k].burned :
                       RowIsShape(token[b], composeStack[i][k].inputs[b])
  <2>1. i \in Ids
    BY <1>1, ChainTypes
  <2>2. RowIs(token[i], owners[i], owners[i], shapes[i], Len(composeStack[i]),
              SplitFromOf(i), SplitOriginOf(i))
    BY <1>1, <1>2 DEF RowsMirror, RowMirrors
  <2>3. token[i].live \in BOOLEAN
    <3>1. token[i] \in Row
      BY <1>2
    <3> QED
      BY <3>1 DEF Row
  <2>4. token[i].live = IsLive(i)
    <3>1. token[i].live <=> owners[i] # NoOne
      BY <2>2 DEF RowIs
    <3>2. IsLive(i) \in BOOLEAN
      BY DEF IsLive
    <3>3. token[i].live <=> IsLive(i)
      BY <3>1 DEF IsLive
    <3> QED
      BY ONLY <2>3, <3>2, <3>3
  <2>5. token[i].depth = Len(composeStack[i])
    BY <2>2 DEF RowIs
  <2>6. RowKeepsSplit(i)
    BY <2>2 DEF RowIs, RowKeepsSplit, SplitFromOf, SplitOriginOf
  <2>7. IsLive(i) => /\ RowIsShape(token[i], shapes[i])
                     /\ token[i].owner = owners[i]
                     /\ token[i].black = shapes[i].black
                     /\ token[i].backing = BackingOf(i)
    BY <2>2 DEF RowIs, IsLive, BackingOf
  <2>8. ASSUME NEW k \in DOMAIN composeStack[i],
               NEW b \in composeStack[i][k].burned
        PROVE  RowIsShape(token[b], composeStack[i][k].inputs[b])
    <3>1. k \in 1 .. Len(composeStack[i])
      <4>1. composeStack[i] \in Seq(ComposeRecord)
        BY <1>1, <2>1, ChainTypes
      <4> QED
        BY <4>1
    <3>2. RowIsInput(token[b], composeStack[i][k].inputs[b])
      BY <1>2, <2>1, <3>1 DEF HeldMirror
    <3> QED
      BY <3>2 DEF RowIsInput
  <2> QED
    BY <2>4, <2>5, <2>6, <2>7, <2>8
<1>4. /\ collectionOwner.tokenId = ownerToken
      /\ collectionOwner.address =
            IF ownerToken = 0 THEN NoOne ELSE owners[ownerToken - 1]
  <2>1. OwnerRowIs(collectionOwner, ownerToken, owners[ownerToken - 1])
    BY <1>2 DEF OwnerRowMirrors
  <2>2. CASE ownerToken = 0
    BY <2>1, <2>2 DEF OwnerRowIs
  <2>3. CASE ownerToken # 0
    <3>1. PICK i \in Ids : ownerToken = i + 1 /\ owners[i] # NoOne
      BY <1>1, <2>3, SettledFacts
    <3>2. ownerToken - 1 = i
      BY <3>1, CallConstants
    <3> QED
      BY <2>1, <2>3, <3>1, <3>2 DEF OwnerRowIs
  <2> QED
    BY <2>2, <2>3
<1>5. DOMAIN token = 0 .. totalMinted - 1
  BY <1>2
<1> QED
  BY <1>1, <1>3, <1>4, <1>5

\* So the merges drawn for a token are those its stack holds.
LEMMA MergesStand == IndexInv => MergesDrawnStand
<1> SUFFICES ASSUME IndexInv, Drained, NEW i \in DOMAIN token
             PROVE  StandingMerges(i) = [k \in DOMAIN composeStack[i] |->
                        [burned |-> composeStack[i][k].burned,
                         denom |-> ReachedBy(i, k)]]
  BY DEF MergesDrawnStand
<1>1. CallsInv /\ Mirrors(tables)
  BY DrainedMirrors DEF IndexInv
<1>2. /\ token \in [0 .. totalMinted - 1 -> Row]
      /\ MergesMirror(token, lineageEdge)
  BY <1>1, MirrorTypes DEF token, lineageEdge
<1>3. i \in 0 .. totalMinted - 1 /\ i \in Ids
  BY <1>1, <1>2, ChainTypes
<1>4. StandingMerges(i) = Standing(composeStack[i], token[i].denom)
  BY <1>2, <1>3 DEF MergesMirror, StandingMerges
<1>5. DOMAIN composeStack[i] = 1 .. Len(composeStack[i])
  <2>1. composeStack[i] \in Seq(ComposeRecord)
    BY <1>1, <1>3, ChainTypes
  <2> QED
    BY <2>1
<1> QED
  BY <1>4, <1>5 DEF Standing, ReachedBy

\* So the feed names every id a transaction touched.
LEMMA FeedTells == IndexInv => FeedTellsAll
<1> SUFFICES ASSUME IndexInv, Drained
             PROVE  touched \subseteq UNION {row.ids : row \in activity}
  BY DEF FeedTellsAll
<1>1. Mirrors(tables)
  BY DrainedMirrors
<1>2. touched \subseteq Told(activity)
  BY <1>1, MirrorTypes DEF activity
<1> QED
  BY <1>2 DEF Told

\* And its cards are the first entries of the Shapes that entered the house.
LEMMA CardsFirst == IndexInv => CardsAsFirstEntered
<1> SUFFICES ASSUME IndexInv, Drained
             PROVE  escrowedCard = FirstOf(entered)
  BY DEF CardsAsFirstEntered
<1>1. Mirrors(tables)
  BY DrainedMirrors
<1>2. CardsMirror(escrowedCard)
  BY <1>1, MirrorTypes DEF escrowedCard
<1> QED
  BY <1>2 DEF CardsMirror

\* Whenever the indexer has handled every event of a transaction, its token and
\* collectionOwner rows are what the chain stores.
THEOREM IndexerAlwaysMirrors == IndexedSpec => []IndexerMirrorsChain
  BY IndexAlwaysLeadsToChain, MirrorsChain, PTL

\* Whenever the indexer has handled every event, replaying the lineage edges of
\* a token gives the records of its compose stack, in order.
THEOREM MergesAlwaysStand == IndexedSpec => []MergesDrawnStand
  BY IndexAlwaysLeadsToChain, MergesStand, PTL

\* Whenever the indexer has handled every event of a transaction, its feed names
\* every token the transaction touched.
THEOREM FeedAlwaysTells == IndexedSpec => []FeedTellsAll
  BY IndexAlwaysLeadsToChain, FeedTells, PTL

\* Whenever the indexer has handled every event of a transaction, its cards are
\* the tokens the transaction moved to the house, each with the denomination it
\* first came with, whatever the house released and took again meanwhile.
THEOREM CardsAlwaysFirst == IndexedSpec => []CardsAsFirstEntered
  BY IndexAlwaysLeadsToChain, CardsFirst, PTL
=============================================================================
