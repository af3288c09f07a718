--------------------------- MODULE SiteDataProofs ---------------------------
(***************************************************************************)
(* The gallery shows no ghost, misses nothing and shows the user's own     *)
(* transaction: for every number of loads that run at once, of blocks, of  *)
(* reads lost and of blocks the indexer may lag behind.                    *)
(*                                                                         *)
(* What each load shows follows from when it read it.  Only that nothing   *)
(* is missing needs an invariant: a scan looks at no id below the last     *)
(* scan's boundary that the snapshot does not show, so every snapshot, the *)
(* one on display and those the running loads began with, must show all    *)
(* that was never burned below its boundary, or own up to a lost read.     *)
(***************************************************************************)
EXTENDS SiteDataProperties, SumLemmas, TLAPS

allVars == <<blocks, siteVars>>

PartialMaps(V) == UNION {[D -> V] : D \in SUBSET Nat}
TokenState == [owner : Owners, state : Nat]
Absorption == Nat \X Nat

BlockType ==
    {b \in [minted : Nat, token : PartialMaps(TokenState),
            under : PartialMaps(Absorption), touched : SUBSET Nat] :
        /\ DOMAIN b.token \subseteq 0 .. b.minted - 1
        /\ DOMAIN b.under \subseteq 0 .. b.minted - 1}

SnapshotType ==
    [tokens : PartialMaps(TokenState), scannedMinted : Nat,
     genesisRead : BOOLEAN, lost : SUBSET Nat]

LoadType == [from : Nat \ {0}, dirty : SUBSET Nat, prev : SnapshotType]

TypeOK ==
    /\ blocks \in Seq(BlockType) /\ Now # 0
    /\ data \in SnapshotType
    /\ lastDirty \in SUBSET Nat
    /\ loads \in [Loads -> {Idle} \cup LoadType]
    /\ \A l \in Loads : loads[l] # Idle => loads[l].from <= Now
    /\ refreshFailed \in BOOLEAN
    /\ started \in Nat

\* Ids are never taken back.
ChainGrows ==
    \A b, c \in 1 .. Now : b <= c => blocks[b].minted <= blocks[c].minted

\* A snapshot shows what was never burned below its boundary, or lost it.
ScanComplete(s) ==
    \A i \in Nat : i < s.scannedMinted /\ NeverBurned(i)
                       => i \in DOMAIN s.tokens \/ i \in s.lost

IInv ==
    /\ TypeOK
    /\ ChainGrows
    /\ ScanComplete(data)
    /\ \A l \in Loads : loads[l] # Idle => ScanComplete(loads[l].prev)

-----------------------------------------------------------------------------
(* Partial functions.                                                      *)

\* A partial function is the function it is, and nothing else is.
LEMMA PartialMap ==
    ASSUME NEW V, NEW f
    PROVE  f \in PartialMaps(V) <=> /\ DOMAIN f \in SUBSET Nat
                                    /\ f \in [DOMAIN f -> V]
BY DEF PartialMaps

\* A partial function given by its values.
LEMMA NewMap ==
    ASSUME NEW V, NEW D \in SUBSET Nat, NEW f \in [D -> V]
    PROVE  f \in PartialMaps(V) /\ DOMAIN f = D
BY DEF PartialMaps

\* The empty sequence is the empty function.
LEMMA EmptyMap ==
    ASSUME NEW V
    PROVE  <<>> \in PartialMaps(V) /\ DOMAIN <<>> = {}
<1>1. DOMAIN <<>> = {}
  OBVIOUS
<1>2. <<>> \in [{} -> V]
  OBVIOUS
<1> QED
  BY <1>1, <1>2 DEF PartialMaps

\* One partial function laid over another.
LEMMA OverMap ==
    ASSUME NEW V, NEW f \in PartialMaps(V), NEW g \in PartialMaps(V)
    PROVE  /\ Over(f, g) \in PartialMaps(V)
           /\ DOMAIN Over(f, g) = DOMAIN f \cup DOMAIN g
<1>1. /\ DOMAIN f \in SUBSET Nat /\ DOMAIN g \in SUBSET Nat
      /\ \A i \in DOMAIN f : f[i] \in V
      /\ \A i \in DOMAIN g : g[i] \in V
  BY PartialMap
<1>2. Over(f, g) \in [DOMAIN f \cup DOMAIN g -> V]
  BY <1>1 DEF Over
<1>3. DOMAIN f \cup DOMAIN g \in SUBSET Nat
  BY <1>1
<1> QED
  BY <1>2, <1>3, NewMap

\* A partial function without some of its arguments.
LEMMA WithoutMap ==
    ASSUME NEW V, NEW f \in PartialMaps(V), NEW S
    PROVE  /\ Without(f, S) \in PartialMaps(V)
           /\ DOMAIN Without(f, S) = DOMAIN f \ S
<1>1. /\ DOMAIN f \in SUBSET Nat
      /\ \A i \in DOMAIN f : f[i] \in V
  BY PartialMap
<1>2. Without(f, S) \in [DOMAIN f \ S -> V]
  BY <1>1 DEF Without
<1>3. DOMAIN f \ S \in SUBSET Nat
  BY <1>1
<1> QED
  BY <1>2, <1>3, NewMap

\* A partial function with one of its values replaced.
LEMMA ExceptMap ==
    ASSUME NEW V, NEW f \in PartialMaps(V), NEW i \in DOMAIN f, NEW v \in V
    PROVE  /\ [f EXCEPT ![i] = v] \in PartialMaps(V)
           /\ DOMAIN [f EXCEPT ![i] = v] = DOMAIN f
<1>1. DOMAIN f \in SUBSET Nat /\ f \in [DOMAIN f -> V]
  BY PartialMap
<1>2. [f EXCEPT ![i] = v] \in [DOMAIN f -> V]
  BY <1>1
<1> QED
  BY <1>1, <1>2 DEF PartialMaps

-----------------------------------------------------------------------------
(* The chain.                                                              *)

\* What a block holds.
LEMMA BlockHolds ==
    ASSUME TypeOK, NEW b \in 1 .. Now
    PROVE  /\ blocks[b] \in BlockType
           /\ blocks[b].minted \in Nat
           /\ blocks[b].token \in PartialMaps(TokenState)
           /\ LiveAt(b) = DOMAIN blocks[b].token
           /\ \A i \in LiveAt(b) : i \in Nat /\ i < blocks[b].minted
           /\ \A i \in LiveAt(b) : blocks[b].token[i] \in TokenState
<1>1. blocks[b] \in BlockType
  BY DEF TypeOK, Now
<1>2. /\ blocks[b].minted \in Nat
      /\ blocks[b].token \in PartialMaps(TokenState)
      /\ DOMAIN blocks[b].token \subseteq 0 .. blocks[b].minted - 1
  BY <1>1 DEF BlockType
<1>3. \A i \in DOMAIN blocks[b].token : blocks[b].token[i] \in TokenState
  BY <1>2, PartialMap
<1> QED
  BY <1>1, <1>2, <1>3 DEF LiveAt

\* A block is added to the chain.
Added(blk) ==
    /\ blk \in BlockType
    /\ blk.minted >= Latest.minted
    /\ blocks' = Append(blocks, blk)
    /\ UNCHANGED siteVars

\* The block of an operation is a block if its parts are.
LEMMA ExtendAdds ==
    ASSUME TypeOK, NEW n \in Nat, n >= Latest.minted,
           NEW token \in PartialMaps(TokenState), DOMAIN token \subseteq 0 .. n - 1,
           NEW under \in PartialMaps(Absorption), DOMAIN under \subseteq 0 .. n - 1,
           NEW touched \in SUBSET Nat, Extend(n, token, under, touched)
    PROVE  \E blk : Added(blk)
<1> DEFINE blk == Block(n, token, under, touched)
<1>1. blk \in BlockType /\ blk.minted = n
  BY DEF Block, BlockType
<1>2. Added(blk)
  <2> HIDE DEF blk
  <2>1. blocks' = Append(blocks, blk) /\ UNCHANGED siteVars
    BY DEF Extend, blk
  <2> QED
    BY <1>1, <2>1 DEF Added
<1> QED
  BY <1>2

\* Every operation of the chain adds one block and takes back no id.
LEMMA ChainEffect ==
    ASSUME TypeOK, ChainStep
    PROVE  \E blk : Added(blk)
<1> DEFINE n == Latest.minted
           t == Latest.token
           u == Latest.under
<1>0. Now \in 1 .. Now /\ Now \in Nat
  BY DEF TypeOK, Now
<1>1. /\ n \in Nat /\ t \in PartialMaps(TokenState) /\ u \in PartialMaps(Absorption)
      /\ DOMAIN t \subseteq 0 .. n - 1 /\ DOMAIN u \subseteq 0 .. n - 1
      /\ LiveAt(Now) = DOMAIN t
  <2>1. Latest \in BlockType
    BY <1>0 DEF TypeOK, Now, Latest
  <2> QED
    BY <2>1 DEF BlockType, LiveAt, Latest
<1>t. t \in PartialMaps(TokenState)
  BY <1>1
<1>u. u \in PartialMaps(Absorption)
  BY <1>1
<1>2. /\ \A i \in DOMAIN t : i \in Nat /\ t[i].owner \in Owners
      /\ \A i \in DOMAIN u : i \in Nat
      /\ \A w \in Owners : Token(w) \in TokenState
  <2>1. \A i \in DOMAIN t : i \in Nat /\ t[i] \in TokenState
    BY <1>1, PartialMap
  <2>2. \A i \in DOMAIN u : i \in Nat
    BY <1>1, PartialMap
  <2> QED
    BY <1>0, <2>1, <2>2 DEF TokenState, Token
<1>3. ASSUME NEW k \in Nat, NEW w \in Owners
      PROVE  /\ NewTokens(k, w) \in PartialMaps(TokenState)
             /\ DOMAIN NewTokens(k, w) = n .. n + k - 1
  <2>1. NewTokens(k, w) \in [n .. n + k - 1 -> TokenState]
    BY <1>2 DEF NewTokens
  <2>2. n .. n + k - 1 \in SUBSET Nat
    BY <1>1
  <2> HIDE DEF n
  <2> QED
    BY <2>1, <2>2, NewMap
<1> HIDE DEF n, t, u
<1>4. ASSUME NEW w \in Owners, MintBlock(w)
      PROVE  \E blk : Added(blk)
  <2>1. PICK token : token = Over(NewTokens(1, w), t)
    OBVIOUS
  <2>2. token \in PartialMaps(TokenState) /\ DOMAIN token \subseteq 0 .. (n + 1) - 1
    <3>1. /\ NewTokens(1, w) \in PartialMaps(TokenState)
          /\ DOMAIN NewTokens(1, w) = n .. n + 1 - 1
      BY <1>3
    <3>2. /\ token \in PartialMaps(TokenState)
          /\ DOMAIN token = (n .. n + 1 - 1) \cup DOMAIN t
      <4>1. PICK a : a = NewTokens(1, w)
        OBVIOUS
      <4>2. a \in PartialMaps(TokenState) /\ DOMAIN a = n .. n + 1 - 1
        BY <3>1, <4>1
      <4>3. /\ Over(a, t) \in PartialMaps(TokenState)
            /\ DOMAIN Over(a, t) = DOMAIN a \cup DOMAIN t
        BY <1>t, <4>2, OverMap
      <4> QED
        BY <2>1, <4>1, <4>2, <4>3
    <3>3. n .. n + 1 - 1 \subseteq 0 .. (n + 1) - 1 /\ 0 .. n - 1 \subseteq 0 .. (n + 1) - 1
      BY <1>1
    <3> QED
      BY <1>1, <3>2, <3>3
  <2>3. DOMAIN u \subseteq 0 .. (n + 1) - 1 /\ n + 1 \in Nat /\ n + 1 >= Latest.minted
        /\ {n} \in SUBSET Nat
    BY <1>1 DEF n
  <2>4. Extend(n + 1, token, u, {n})
    BY <1>4, <2>1 DEF MintBlock, n, t, u
  <2> QED
    BY <1>1, <2>2, <2>3, <2>4, ExtendAdds
<1>5. ASSUME NEW i \in LiveAt(Now), NEW w \in Owners, TransferBlock(i, w)
      PROVE  \E blk : Added(blk)
  <2>1. PICK v : v = [t[i] EXCEPT !.owner = w]
    OBVIOUS
  <2>2. v \in TokenState
    <3>1. t[i] \in TokenState
      BY <1>1, PartialMap
    <3> QED
      BY <2>1, <3>1 DEF TokenState
  <2>3. [t EXCEPT ![i] = v] \in PartialMaps(TokenState) /\ DOMAIN [t EXCEPT ![i] = v] = DOMAIN t
    BY <1>1, <2>2, ExceptMap
  <2>4. Extend(n, [t EXCEPT ![i] = v], u, {i})
    BY <1>5, <2>1 DEF TransferBlock, n, t, u
  <2>5. {i} \in SUBSET Nat /\ n >= Latest.minted
    BY <1>1, <1>2 DEF n
  <2> QED
    BY <1>1, <2>3, <2>4, <2>5, ExtendAdds
<1>6. ASSUME NEW i \in LiveAt(Now), BurnBackingBlock(i)
      PROVE  \E blk : Added(blk)
  <2>1. PICK v : v = Token(t[i].owner)
    OBVIOUS
  <2>2. v \in TokenState
    BY <1>1, <1>2, <2>1
  <2>3. [t EXCEPT ![i] = v] \in PartialMaps(TokenState) /\ DOMAIN [t EXCEPT ![i] = v] = DOMAIN t
    BY <1>1, <2>2, ExceptMap
  <2>4. Extend(n, [t EXCEPT ![i] = v], u, {i})
    BY <1>6, <2>1 DEF BurnBackingBlock, n, t, u
  <2>5. {i} \in SUBSET Nat /\ n >= Latest.minted
    BY <1>1, <1>2 DEF n
  <2> QED
    BY <1>1, <2>3, <2>4, <2>5, ExtendAdds
<1>7. ASSUME NEW i \in LiveAt(Now), RedeemBlock(i)
      PROVE  \E blk : Added(blk)
  <2>1. /\ Without(t, {i}) \in PartialMaps(TokenState)
        /\ DOMAIN Without(t, {i}) \subseteq 0 .. n - 1
    <3>1. /\ Without(t, {i}) \in PartialMaps(TokenState)
          /\ DOMAIN Without(t, {i}) = DOMAIN t \ {i}
      BY <1>t, WithoutMap
    <3> QED
      BY <1>1, <3>1
  <2>2. Extend(n, Without(t, {i}), u, {i})
    BY <1>7 DEF RedeemBlock, n, t, u
  <2>3. {i} \in SUBSET Nat /\ n >= Latest.minted
    BY <1>1, <1>2 DEF n
  <2> QED
    BY <1>1, <2>1, <2>2, <2>3, ExtendAdds
<1>8. ASSUME NEW i \in LiveAt(Now), NEW K \in SUBSET (LiveAt(Now) \ {i}), ComposeBlock(i, K)
      PROVE  \E blk : Added(blk)
  <2>1. PICK v : v = Token(t[i].owner)
    OBVIOUS
  <2>2. v \in TokenState /\ i \in Nat /\ K \in SUBSET Nat
    BY <1>1, <1>2, <2>1
  <2>3. PICK rest : rest = Without(t, K)
    OBVIOUS
  <2>4. rest \in PartialMaps(TokenState) /\ DOMAIN rest = DOMAIN t \ K /\ i \in DOMAIN rest
    <3>1. /\ Without(t, K) \in PartialMaps(TokenState)
          /\ DOMAIN Without(t, K) = DOMAIN t \ K
      BY <1>t, WithoutMap
    <3> QED
      BY <1>1, <2>3, <3>1
  <2>5. /\ [rest EXCEPT ![i] = v] \in PartialMaps(TokenState)
        /\ DOMAIN [rest EXCEPT ![i] = v] \subseteq 0 .. n - 1
    BY <1>1, <2>2, <2>4, ExceptMap
  <2>6. PICK absorbed : absorbed = [k \in K |-> <<i, Now + 1>>]
    OBVIOUS
  <2>7. absorbed \in PartialMaps(Absorption) /\ DOMAIN absorbed = K
    <3>1. absorbed \in [K -> Absorption]
      BY <1>0, <2>2, <2>6 DEF Absorption
    <3> QED
      BY <2>2, <3>1, NewMap
  <2>8. /\ Over(absorbed, u) \in PartialMaps(Absorption)
        /\ DOMAIN Over(absorbed, u) \subseteq 0 .. n - 1
    <3>1. /\ Over(absorbed, u) \in PartialMaps(Absorption)
          /\ DOMAIN Over(absorbed, u) = DOMAIN absorbed \cup DOMAIN u
      BY <1>u, <2>7, OverMap
    <3> QED
      BY <1>1, <2>7, <3>1
  <2>9. Extend(n, [rest EXCEPT ![i] = v], Over(absorbed, u), K \cup {i})
    BY <1>8, <2>1, <2>3, <2>6 DEF ComposeBlock, n, t, u
  <2>10. K \cup {i} \in SUBSET Nat /\ n >= Latest.minted
    BY <1>1, <2>2 DEF n
  <2> QED
    BY <1>1, <2>5, <2>8, <2>9, <2>10, ExtendAdds
<1>9. ASSUME NEW i \in LiveAt(Now), DecomposeBlock(i)
      PROVE  \E blk : Added(blk)
  <2>1. PICK restored : restored = LastAbsorbed(i)
    OBVIOUS
  <2>2. restored \subseteq DOMAIN u
    BY <2>1 DEF LastAbsorbed, u
  <2>3. PICK back : back = [k \in restored \cup {i} |-> Token(t[i].owner)]
    OBVIOUS
  <2>4. back \in PartialMaps(TokenState) /\ DOMAIN back = restored \cup {i}
    <3>1. Token(t[i].owner) \in TokenState
      BY <1>1, <1>2
    <3>2. back \in [restored \cup {i} -> TokenState]
      BY <2>3, <3>1
    <3>3. restored \cup {i} \in SUBSET Nat
      BY <1>1, <1>2, <2>2
    <3> QED
      BY <3>2, <3>3, NewMap
  <2>5. /\ Over(back, t) \in PartialMaps(TokenState)
        /\ DOMAIN Over(back, t) \subseteq 0 .. n - 1
    <3>1. /\ Over(back, t) \in PartialMaps(TokenState)
          /\ DOMAIN Over(back, t) = DOMAIN back \cup DOMAIN t
      BY <1>t, <2>4, OverMap
    <3> QED
      BY <1>1, <2>2, <2>4, <3>1
  <2>6. /\ Without(u, restored) \in PartialMaps(Absorption)
        /\ DOMAIN Without(u, restored) \subseteq 0 .. n - 1
    <3>1. /\ Without(u, restored) \in PartialMaps(Absorption)
          /\ DOMAIN Without(u, restored) = DOMAIN u \ restored
      BY <1>u, WithoutMap
    <3> QED
      BY <1>1, <3>1
  <2>7. Extend(n, Over(back, t), Without(u, restored), restored \cup {i})
    BY <1>9, <2>1, <2>3 DEF DecomposeBlock, n, t, u
  <2>8. restored \cup {i} \in SUBSET Nat /\ n >= Latest.minted
    BY <1>1, <1>2, <2>2 DEF n
  <2> QED
    BY <1>1, <2>5, <2>6, <2>7, <2>8, ExtendAdds
<1>10. ASSUME NEW i \in LiveAt(Now), SplitBlock(i)
       PROVE  \E blk : Added(blk)
  <2>1. PICK w : w = t[i].owner
    OBVIOUS
  <2>2. w \in Owners
    BY <1>1, <1>2, <2>1
  <2>3. PICK token : token = Over(NewTokens(2, w), Without(t, {i}))
    OBVIOUS
  <2>4. token \in PartialMaps(TokenState) /\ DOMAIN token \subseteq 0 .. (n + 2) - 1
    <3>1. /\ NewTokens(2, w) \in PartialMaps(TokenState)
          /\ DOMAIN NewTokens(2, w) = n .. n + 2 - 1
      BY <1>3, <2>2
    <3>2. Without(t, {i}) \in PartialMaps(TokenState) /\ DOMAIN Without(t, {i}) = DOMAIN t \ {i}
      BY <1>t, WithoutMap
    <3>3. /\ token \in PartialMaps(TokenState)
          /\ DOMAIN token = (n .. n + 2 - 1) \cup (DOMAIN t \ {i})
      <4>1. PICK a, b : a = NewTokens(2, w) /\ b = Without(t, {i})
        OBVIOUS
      <4>2. a \in PartialMaps(TokenState) /\ b \in PartialMaps(TokenState)
        BY <3>1, <3>2, <4>1
      <4>3. /\ Over(a, b) \in PartialMaps(TokenState)
            /\ DOMAIN Over(a, b) = DOMAIN a \cup DOMAIN b
        BY <4>2, OverMap
      <4>4. token = Over(a, b) /\ DOMAIN a = n .. n + 2 - 1 /\ DOMAIN b = DOMAIN t \ {i}
        BY <2>3, <3>1, <3>2, <4>1
      <4> QED
        BY <4>3, <4>4
    <3>4. n .. n + 2 - 1 \subseteq 0 .. (n + 2) - 1 /\ 0 .. n - 1 \subseteq 0 .. (n + 2) - 1
      BY <1>1
    <3> QED
      BY <1>1, <3>3, <3>4
  <2>5. DOMAIN u \subseteq 0 .. (n + 2) - 1 /\ n + 2 \in Nat /\ n + 2 >= Latest.minted
        /\ {i, n, n + 1} \in SUBSET Nat
    BY <1>1, <1>2 DEF n
  <2>6. Extend(n + 2, token, u, {i, n, n + 1})
    BY <1>10, <2>1, <2>3 DEF SplitBlock, n, t, u
  <2> QED
    BY <1>1, <2>4, <2>5, <2>6, ExtendAdds
<1> QED
  BY <1>4, <1>5, <1>6, <1>7, <1>8, <1>9, <1>10 DEF ChainStep

-----------------------------------------------------------------------------
(* What a load that ends puts on display.                                  *)

\* Reads are answered by blocks of the load, never before the one they were
\* sent at.
LEMMA ReadsLater ==
    ASSUME TypeOK, NEW ids, NEW b \in 1 .. Now, NEW at \in Reads(ids, b)
    PROVE  /\ at \in [ids -> 1 .. Now]
           /\ \A i \in ids : at[i] >= b
<1>1. at \in [ids -> b .. Now]
  BY DEF Reads
<1>2. Now \in Nat
  BY DEF TypeOK, Now
<1>3. \A i \in ids : at[i] \in b .. Now
  BY <1>1
<1>4. b .. Now \in SUBSET (1 .. Now) /\ \A x \in b .. Now : x >= b
  BY <1>2
<1> QED
  BY <1>1, <1>3, <1>4

\* A load that the indexer served: the ids it was told of as the chain has them,
\* the others as block b has them.
FromIndexer(l, b, at, lost) ==
    /\ b \in 1 .. Now /\ b + MaxLag >= loads[l].from
    /\ lost \in SUBSET loads[l].dirty
    /\ at \in [loads[l].dirty \ lost -> 1 .. Now]
    /\ \A i \in loads[l].dirty \ lost : at[i] >= loads[l].from
    /\ Finish(l, Snapshot(Over(ReadAt(Found(at), at),
                               Without(blocks[b].token, loads[l].dirty)),
                          0, FALSE, lost))

\* The end of a load that the indexer served reads from the blocks it may.
LEMMA IndexerEffect ==
    ASSUME TypeOK, NEW l \in Loads, loads[l] # Idle, NEW b \in 1 .. Now,
           NEW head \in During(l), NEW supplyAt \in During(l),
           LoadFromIndexer(l, b, head, supplyAt)
    PROVE  \E at, lost : FromIndexer(l, b, at, lost)
<1>1. PICK answered : answered = CHOOSE x \in {head, supplyAt} : x >= head /\ x >= supplyAt
  OBVIOUS
<1>2. PICK lost \in Failing(loads[l].dirty) :
         \E at \in Reads(loads[l].dirty \ lost, answered) :
            Finish(l, Snapshot(Over(ReadAt(Found(at), at),
                                    Without(blocks[b].token, loads[l].dirty)),
                               0, FALSE, lost))
  BY <1>1 DEF LoadFromIndexer
<1>3. PICK at \in Reads(loads[l].dirty \ lost, answered) :
         Finish(l, Snapshot(Over(ReadAt(Found(at), at),
                                 Without(blocks[b].token, loads[l].dirty)),
                            0, FALSE, lost))
  BY <1>2
<1>4. /\ loads[l].from \in Nat \ {0} /\ loads[l].from <= Now /\ Now \in Nat
      /\ \A x \in During(l) : x \in 1 .. Now /\ x >= loads[l].from
  <2>1. loads[l].from \in Nat \ {0} /\ loads[l].from <= Now /\ Now \in Nat
    BY DEF TypeOK, LoadType, Now
  <2> QED
    BY <2>1 DEF During
<1>5. answered \in During(l)
  <2>1. head >= supplyAt \/ supplyAt >= head
    BY <1>4
  <2>2. \E x \in {head, supplyAt} : x >= head /\ x >= supplyAt
    BY <1>4, <2>1
  <2> QED
    BY <1>1, <2>2
<1>6. /\ at \in [loads[l].dirty \ lost -> 1 .. Now]
      /\ \A i \in loads[l].dirty \ lost : at[i] >= answered
  BY <1>3, <1>4, <1>5, ReadsLater
<1>7. \A i \in loads[l].dirty \ lost : at[i] >= loads[l].from
  <2> SUFFICES ASSUME NEW i \in loads[l].dirty \ lost PROVE at[i] >= loads[l].from
    OBVIOUS
  <2>1. PICK x \in Nat, y \in Nat, z \in Nat : x = loads[l].from /\ y = answered /\ z = at[i]
    BY <1>4, <1>5, <1>6
  <2>2. z >= y /\ y >= x
    BY <1>4, <1>5, <1>6, <2>1
  <2> QED
    BY <2>1, <2>2
<1>8. b + MaxLag >= loads[l].from
  <2>1. b <= head /\ head - b <= MaxLag
    BY DEF LoadFromIndexer, FreshCheckpoint
  <2>2. MaxLag \in Nat
    BY SiteAssumption
  <2>3. head \in Nat /\ head >= loads[l].from
    BY <1>4
  <2> QED
    BY <1>4, <2>1, <2>2, <2>3
<1>9. lost \in SUBSET loads[l].dirty
  BY <1>2 DEF Failing
<1> QED
  BY <1>3, <1>6, <1>7, <1>8, <1>9 DEF FromIndexer

\* A load that scanned the chain: owners first, then the fields.
FromChain(l, m, prev, lost, ownerAt, fieldsAt) ==
    LET live == ReadAt(Found(ownerAt), ownerAt)
        reread == NeedsFields(prev, live, loads[l].dirty)
        checkIds == CheckIds(l, m)
    IN  /\ m \in 1 .. Now /\ m >= loads[l].from
        /\ prev = EffectivePrevious(l, m)
        /\ lost \in SUBSET checkIds
        /\ ownerAt \in [checkIds \ lost -> 1 .. Now]
        /\ \A i \in checkIds \ lost : ownerAt[i] >= m
        /\ fieldsAt \in [reread -> 1 .. Now]
        /\ \A i \in reread : fieldsAt[i] >= m /\ i \in LiveAt(fieldsAt[i])
        /\ Finish(l, Snapshot(Refreshed(prev, live, reread, fieldsAt),
                              blocks[m].minted, TRUE,
                              (prev.lost \ checkIds) \cup lost))

\* A set of naturals that is bounded has a greatest member.
LEMMA GreatestNat ==
    ASSUME NEW n \in Nat, NEW R \in SUBSET (0 .. n), R # {}
    PROVE  \E x \in R : \A y \in R : x >= y
<1> DEFINE T == {n - x : x \in R}
<1>1. T \in SUBSET Nat /\ T # {}
  <2>1. \A x \in R : n - x \in Nat
    OBVIOUS
  <2>2. T \in SUBSET Nat
    BY <2>1
  <2>3. T # {}
    OBVIOUS
  <2> QED
    BY <2>2, <2>3
<1>2. PICK z \in T : \A y \in T : z <= y
  <2> HIDE DEF T
  <2> QED
    BY <1>1, LeastNat
<1>3. PICK x \in R : z = n - x
  OBVIOUS
<1>4. ASSUME NEW y \in R PROVE x >= y
  <2>1. n - y \in T
    OBVIOUS
  <2>2. z <= n - y
    BY <1>2, <2>1
  <2> QED
    BY <1>3, <2>2
<1> QED
  BY <1>4

\* The end of a scan of the chain reads from the blocks it may: every field is
\* read after every owner, and the last answer among the owners' exists.
LEMMA ChainEffectOfLoad ==
    ASSUME TypeOK, NEW l \in Loads, loads[l] # Idle, NEW m \in During(l),
           LoadFromChain(l, m)
    PROVE  \E prev, lost, ownerAt, fieldsAt :
               FromChain(l, m, prev, lost, ownerAt, fieldsAt)
<1>1. PICK prev, checkIds : prev = EffectivePrevious(l, m) /\ checkIds = CheckIds(l, m)
  OBVIOUS
<1> DEFINE Live(ownerAt) == ReadAt(Found(ownerAt), ownerAt)
           Reread(ownerAt) == NeedsFields(prev, Live(ownerAt), loads[l].dirty)
           Answered(ownerAt) ==
               CHOOSE x \in m .. Now : /\ \A i \in DOMAIN ownerAt : x >= ownerAt[i]
                                       /\ x \in {m} \cup Range(ownerAt)
           Ends(lost, ownerAt, fieldsAt) ==
               Finish(l, Snapshot(Refreshed(prev, Live(ownerAt), Reread(ownerAt), fieldsAt),
                                  blocks[m].minted, TRUE,
                                  (prev.lost \ checkIds) \cup lost))
<1>2. PICK lost \in Failing(checkIds) :
         \E ownerAt \in Reads(checkIds \ lost, m) :
            \E fieldsAt \in Reads(Reread(ownerAt), Answered(ownerAt)) :
               Found(fieldsAt) = Reread(ownerAt) /\ Ends(lost, ownerAt, fieldsAt)
  BY <1>1 DEF LoadFromChain, ScannedMinted
<1>3. PICK ownerAt \in Reads(checkIds \ lost, m) :
         \E fieldsAt \in Reads(Reread(ownerAt), Answered(ownerAt)) :
            Found(fieldsAt) = Reread(ownerAt) /\ Ends(lost, ownerAt, fieldsAt)
  BY <1>2
<1>4. PICK fieldsAt \in Reads(Reread(ownerAt), Answered(ownerAt)) :
         Found(fieldsAt) = Reread(ownerAt) /\ Ends(lost, ownerAt, fieldsAt)
  BY <1>3
<1>5. /\ m \in 1 .. Now /\ m >= loads[l].from /\ Now \in Nat
  <2>1. loads[l].from \in Nat \ {0} /\ loads[l].from <= Now /\ Now \in Nat
    BY DEF TypeOK, LoadType, Now
  <2> QED
    BY <2>1 DEF During
<1>6. /\ ownerAt \in [checkIds \ lost -> 1 .. Now]
      /\ \A i \in checkIds \ lost : ownerAt[i] >= m
  BY <1>3, <1>5, ReadsLater
<1>7. Answered(ownerAt) \in 1 .. Now /\ Answered(ownerAt) >= m
  <2>1. PICK R : R = {m} \cup Range(ownerAt)
    OBVIOUS
  <2>2. R \in SUBSET (m .. Now) /\ R # {}
    <3>1. \A i \in DOMAIN ownerAt : ownerAt[i] \in m .. Now
      <4>1. \A i \in checkIds \ lost : ownerAt[i] \in 1 .. Now /\ ownerAt[i] >= m
        BY <1>6
      <4> QED
        BY <1>5, <1>6, <4>1
    <3> QED
      BY <1>5, <2>1, <3>1 DEF Range
  <2>3. R \in SUBSET (0 .. Now)
    BY <1>5, <2>2
  <2>4. PICK x \in R : \A y \in R : x >= y
    BY <1>5, <2>2, <2>3, GreatestNat
  <2>5. \A i \in DOMAIN ownerAt : x >= ownerAt[i]
    BY <2>1, <2>4 DEF Range
  <2>6. Answered(ownerAt) \in m .. Now
    BY <2>1, <2>2, <2>4, <2>5
  <2> HIDE DEF Answered
  <2> QED
    BY <1>5, <2>6
<1>8. /\ fieldsAt \in [Reread(ownerAt) -> 1 .. Now]
      /\ \A i \in Reread(ownerAt) : fieldsAt[i] >= m /\ i \in LiveAt(fieldsAt[i])
  <2> HIDE DEF Reread, Answered, Live
  <2>1. /\ fieldsAt \in [Reread(ownerAt) -> 1 .. Now]
        /\ \A i \in Reread(ownerAt) : fieldsAt[i] >= Answered(ownerAt)
    BY <1>4, <1>7, ReadsLater
  <2>2. \A i \in Reread(ownerAt) : i \in LiveAt(fieldsAt[i])
    BY <1>4 DEF Found
  <2>3. ASSUME NEW i \in Reread(ownerAt)
        PROVE  fieldsAt[i] >= m
    <3>1. PICK x \in Nat, y \in Nat : x = Answered(ownerAt) /\ y = fieldsAt[i]
      BY <1>7, <2>1
    <3>2. y >= x /\ x >= m
      BY <1>7, <2>1, <3>1
    <3> QED
      BY <1>5, <3>1, <3>2
  <2> QED
    BY <2>1, <2>2, <2>3
<1>9. lost \in SUBSET checkIds
  BY <1>2 DEF Failing
<1>10. FromChain(l, m, prev, lost, ownerAt, fieldsAt)
  <2> HIDE DEF Answered
  <2> QED
    BY <1>1, <1>4, <1>5, <1>6, <1>8, <1>9 DEF FromChain
<1> QED
  BY <1>10

\* What the indexer served, id by id.
LEMMA IndexerShows ==
    ASSUME TypeOK, NEW l \in Loads, loads[l] # Idle, NEW b, NEW at, NEW lost,
           FromIndexer(l, b, at, lost)
    PROVE  /\ data' \in SnapshotType
           /\ data'.scannedMinted = 0 /\ data'.lost = lost
           /\ \A i : i \in DOMAIN data'.tokens
                        <=> \/ i \in loads[l].dirty /\ i \notin lost /\ i \in LiveAt(at[i])
                            \/ i \in LiveAt(b) /\ i \notin loads[l].dirty
           /\ \A i \in DOMAIN data'.tokens :
                 data'.tokens[i] = IF i \in loads[l].dirty THEN blocks[at[i]].token[i]
                                   ELSE blocks[b].token[i]
<1>1. PICK dirty : dirty = loads[l].dirty
  OBVIOUS
<1>2. /\ dirty \in SUBSET Nat /\ lost \in SUBSET dirty /\ b \in 1 .. Now
      /\ at \in [dirty \ lost -> 1 .. Now]
  BY <1>1 DEF FromIndexer, TypeOK, LoadType
<1>3. PICK told, rest : told = ReadAt(Found(at), at)
                        /\ rest = Without(blocks[b].token, dirty)
  OBVIOUS
<1>4. /\ \A i : i \in Found(at) <=> i \in dirty /\ i \notin lost /\ i \in LiveAt(at[i])
      /\ Found(at) \in SUBSET Nat
  BY <1>2 DEF Found
<1>5. /\ told \in PartialMaps(TokenState) /\ DOMAIN told = Found(at)
      /\ \A i \in Found(at) : told[i] = blocks[at[i]].token[i]
  <2>1. \A i \in Found(at) : blocks[at[i]].token[i] \in TokenState
    <3> SUFFICES ASSUME NEW i \in Found(at) PROVE blocks[at[i]].token[i] \in TokenState
      OBVIOUS
    <3>1. at[i] \in 1 .. Now /\ i \in LiveAt(at[i])
      BY <1>2, <1>4
    <3> QED
      BY <3>1, BlockHolds
  <2>2. told \in [Found(at) -> TokenState]
    BY <1>3, <2>1 DEF ReadAt
  <2> QED
    BY <1>3, <1>4, <2>2, NewMap DEF ReadAt
<1>6. /\ rest \in PartialMaps(TokenState) /\ DOMAIN rest = LiveAt(b) \ dirty
      /\ \A i \in LiveAt(b) : i \notin dirty => rest[i] = blocks[b].token[i]
  <2>1. blocks[b].token \in PartialMaps(TokenState) /\ LiveAt(b) = DOMAIN blocks[b].token
    BY <1>2, BlockHolds
  <2>2. PICK t : t = blocks[b].token
    OBVIOUS
  <2>3. Without(t, dirty) \in PartialMaps(TokenState) /\ DOMAIN Without(t, dirty) = DOMAIN t \ dirty
    <3>1. t \in PartialMaps(TokenState)
      BY <2>1, <2>2
    <3> QED
      BY <3>1, WithoutMap
  <2>4. \A i \in DOMAIN t : i \notin dirty => Without(t, dirty)[i] = t[i]
    BY DEF Without
  <2> QED
    BY <1>3, <2>1, <2>2, <2>3, <2>4
<1>7. PICK shown : shown = Over(told, rest)
  OBVIOUS
<1>8. /\ shown \in PartialMaps(TokenState)
      /\ DOMAIN shown = Found(at) \cup (LiveAt(b) \ dirty)
  <2>1. /\ Over(told, rest) \in PartialMaps(TokenState)
        /\ DOMAIN Over(told, rest) = DOMAIN told \cup DOMAIN rest
    BY <1>5, <1>6, OverMap
  <2> QED
    BY <1>5, <1>6, <1>7, <2>1
<1>9. \A i \in DOMAIN told \cup DOMAIN rest :
          shown[i] = IF i \in DOMAIN told THEN told[i] ELSE rest[i]
  BY <1>7 DEF Over
<1>10. data' = Snapshot(shown, 0, FALSE, lost)
  BY <1>1, <1>3, <1>7 DEF FromIndexer, Finish
<1>11. /\ data'.tokens = shown /\ data'.scannedMinted = 0 /\ data'.lost = lost
       /\ data' \in SnapshotType
  <2>1. lost \in SUBSET Nat
    BY <1>2
  <2> QED
    BY <1>8, <1>10, <2>1 DEF Snapshot, SnapshotType
<1>12. ASSUME NEW i \in DOMAIN shown
       PROVE  shown[i] = IF i \in dirty THEN blocks[at[i]].token[i]
                         ELSE blocks[b].token[i]
  <2>1. CASE i \in Found(at)
    BY <1>4, <1>5, <1>9, <2>1
  <2>2. CASE i \notin Found(at)
    <3>1. i \in LiveAt(b) /\ i \notin dirty
      BY <1>8, <2>2
    <3> QED
      BY <1>5, <1>6, <1>9, <2>2, <3>1
  <2> QED
    BY <2>1, <2>2
<1> QED
  BY <1>1, <1>4, <1>8, <1>11, <1>12

\* The snapshot a load builds on is one, be it the empty one.
LEMMA PreviousType ==
    ASSUME TypeOK, NEW l \in Loads, loads[l] # Idle, NEW m
    PROVE  /\ EffectivePrevious(l, m) \in SnapshotType
           /\ EffectivePrevious(l, m) \in {NoData, loads[l].prev}
<1>1. loads[l].prev \in SnapshotType
  BY DEF TypeOK, LoadType
<1>2. NoData \in SnapshotType
  <2>1. <<>> \in PartialMaps(TokenState)
    BY EmptyMap
  <2> QED
    BY <2>1 DEF NoData, Snapshot, SnapshotType
<1> QED
  BY <1>1, <1>2 DEF EffectivePrevious

\* What a scan of the chain found, id by id.
LEMMA ChainShows ==
    ASSUME TypeOK, NEW l \in Loads, loads[l] # Idle, NEW m, NEW prev, NEW lost,
           NEW ownerAt, NEW fieldsAt, FromChain(l, m, prev, lost, ownerAt, fieldsAt)
    PROVE  /\ data' \in SnapshotType
           /\ data'.scannedMinted = blocks[m].minted
           /\ data'.lost = (prev.lost \ CheckIds(l, m)) \cup lost
           /\ \A i : i \in DOMAIN data'.tokens
                        <=> i \in CheckIds(l, m) /\ i \notin lost /\ i \in LiveAt(ownerAt[i])
           /\ \A i \in DOMAIN data'.tokens :
                 /\ data'.tokens[i].owner = blocks[ownerAt[i]].token[i].owner
                 /\ i \in loads[l].dirty =>
                       /\ data'.tokens[i].state = blocks[fieldsAt[i]].token[i].state
                       /\ fieldsAt[i] \in 1 .. Now /\ fieldsAt[i] >= m
                       /\ i \in LiveAt(fieldsAt[i])
<1>1. PICK checkIds, live, reread :
          /\ checkIds = CheckIds(l, m)
          /\ live = ReadAt(Found(ownerAt), ownerAt)
          /\ reread = NeedsFields(prev, live, loads[l].dirty)
  OBVIOUS
<1>2. /\ m \in 1 .. Now
      /\ prev = EffectivePrevious(l, m)
      /\ lost \in SUBSET checkIds
      /\ ownerAt \in [checkIds \ lost -> 1 .. Now]
      /\ fieldsAt \in [reread -> 1 .. Now]
      /\ \A i \in reread : fieldsAt[i] >= m /\ i \in LiveAt(fieldsAt[i])
      /\ data' = Snapshot(Refreshed(prev, live, reread, fieldsAt),
                          blocks[m].minted, TRUE, (prev.lost \ checkIds) \cup lost)
  BY <1>1 DEF FromChain, Finish
<1>3. prev \in SnapshotType
  BY <1>2, PreviousType
<1>4. /\ prev.tokens \in PartialMaps(TokenState) /\ prev.lost \in SUBSET Nat
      /\ prev.scannedMinted \in Nat /\ blocks[m].minted \in Nat
  BY <1>2, <1>3, BlockHolds DEF SnapshotType
<1>5. DOMAIN prev.tokens \in SUBSET Nat /\ \A i \in DOMAIN prev.tokens : prev.tokens[i] \in TokenState
  BY <1>4, PartialMap
<1>6. checkIds \in SUBSET Nat
  BY <1>1, <1>2, <1>4, <1>5 DEF CheckIds
<1>7. /\ \A i : i \in Found(ownerAt) <=> i \in checkIds /\ i \notin lost /\ i \in LiveAt(ownerAt[i])
      /\ Found(ownerAt) \in SUBSET Nat
  BY <1>2, <1>6 DEF Found
<1>8. \A i \in Found(ownerAt) : blocks[ownerAt[i]].token[i] \in TokenState
  <2> SUFFICES ASSUME NEW i \in Found(ownerAt)
               PROVE  blocks[ownerAt[i]].token[i] \in TokenState
    OBVIOUS
  <2>1. ownerAt[i] \in 1 .. Now /\ i \in LiveAt(ownerAt[i])
    BY <1>2, <1>7
  <2> QED
    BY <2>1, BlockHolds
<1>9. /\ DOMAIN live = Found(ownerAt)
      /\ \A i \in Found(ownerAt) : live[i] = blocks[ownerAt[i]].token[i]
  BY <1>1 DEF ReadAt
<1>10. \A i \in DOMAIN live : i \in loads[l].dirty \/ i \notin DOMAIN prev.tokens => i \in reread
  BY <1>1 DEF NeedsFields
<1>11. \A i \in reread : blocks[fieldsAt[i]].token[i].state \in Nat
  <2> SUFFICES ASSUME NEW i \in reread
               PROVE  blocks[fieldsAt[i]].token[i].state \in Nat
    OBVIOUS
  <2>1. fieldsAt[i] \in 1 .. Now /\ i \in LiveAt(fieldsAt[i])
    BY <1>2
  <2>2. blocks[fieldsAt[i]].token[i] \in TokenState
    BY <2>1, BlockHolds
  <2> QED
    BY <2>2 DEF TokenState
<1>12. PICK shown : shown = Refreshed(prev, live, reread, fieldsAt)
  OBVIOUS
<1>13. /\ DOMAIN shown = Found(ownerAt)
       /\ \A i \in Found(ownerAt) :
             shown[i] = [owner |-> live[i].owner,
                         state |-> IF i \in reread THEN blocks[fieldsAt[i]].token[i].state
                                   ELSE prev.tokens[i].state]
  BY <1>9, <1>12 DEF Refreshed
<1>14. \A i \in Found(ownerAt) : shown[i] \in TokenState
  <2> SUFFICES ASSUME NEW i \in Found(ownerAt) PROVE shown[i] \in TokenState
    OBVIOUS
  <2>1. live[i].owner \in Owners
    BY <1>8, <1>9 DEF TokenState
  <2>2. i \notin reread => prev.tokens[i].state \in Nat
    BY <1>5, <1>9, <1>10 DEF TokenState
  <2> QED
    BY <1>11, <1>13, <2>1, <2>2 DEF TokenState
<1>15. shown \in PartialMaps(TokenState)
  <2>1. shown \in [Found(ownerAt) -> TokenState]
    <3>1. shown = [i \in DOMAIN shown |-> shown[i]]
      BY <1>12 DEF Refreshed
    <3> QED
      BY <1>13, <1>14, <3>1
  <2> QED
    BY <1>7, <2>1, NewMap
<1>16. /\ data'.tokens = shown /\ data'.scannedMinted = blocks[m].minted
       /\ data'.lost = (prev.lost \ checkIds) \cup lost
       /\ data' \in SnapshotType
  <2>1. (prev.lost \ checkIds) \cup lost \in SUBSET Nat
    BY <1>2, <1>4, <1>6
  <2>2. data' = Snapshot(shown, blocks[m].minted, TRUE, (prev.lost \ checkIds) \cup lost)
    BY <1>2, <1>12
  <2> QED
    BY <1>4, <1>15, <2>1, <2>2 DEF Snapshot, SnapshotType
<1>17. ASSUME NEW i \in DOMAIN shown
       PROVE  /\ shown[i].owner = blocks[ownerAt[i]].token[i].owner
              /\ i \in loads[l].dirty =>
                    /\ shown[i].state = blocks[fieldsAt[i]].token[i].state
                    /\ fieldsAt[i] \in 1 .. Now /\ fieldsAt[i] >= m
                    /\ i \in LiveAt(fieldsAt[i])
  <2>1. shown[i].owner = blocks[ownerAt[i]].token[i].owner
    BY <1>9, <1>13
  <2>2. i \in loads[l].dirty => i \in reread
    BY <1>9, <1>10, <1>13
  <2>3. i \in reread => /\ shown[i].state = blocks[fieldsAt[i]].token[i].state
                        /\ fieldsAt[i] \in 1 .. Now /\ fieldsAt[i] >= m
                        /\ i \in LiveAt(fieldsAt[i])
    BY <1>2, <1>13
  <2> QED
    BY <2>1, <2>2, <2>3
<1> QED
  BY <1>1, <1>7, <1>13, <1>16, <1>17

-----------------------------------------------------------------------------
(* The kinds of step.                                                      *)

\* A load begins; it knows the snapshot on display and the ids it is told of.
Started(l) ==
    /\ loads[l] = Idle
    /\ \E dirty \in SUBSET Nat :
          /\ loads' = [loads EXCEPT ![l] = [from |-> Now, dirty |-> dirty, prev |-> data]]
          /\ lastDirty' = dirty
    /\ started' = started + 1
    /\ UNCHANGED <<blocks, data, refreshFailed>>

\* A load ends, and its snapshot is put on display.
Ended(l) ==
    /\ loads[l] # Idle
    /\ \/ \E b, at, lost : FromIndexer(l, b, at, lost)
       \/ \E m, prev, lost, ownerAt, fieldsAt :
             FromChain(l, m, prev, lost, ownerAt, fieldsAt)

\* Every step of the site adds a block, begins, ends or fails a load.
LEMMA SiteStepKinds ==
    ASSUME TypeOK, SiteNext
    PROVE  \/ \E blk : Added(blk)
           \/ \E l \in Loads : Started(l) \/ Ended(l) \/ LoadFails(l)
<1>1. ASSUME ChainStep
      PROVE  \E blk : Added(blk)
  BY <1>1, ChainEffect
<1>2. ASSUME NEW l \in Loads, LoadStep(l)
      PROVE  Started(l) \/ Ended(l) \/ LoadFails(l)
  <2>1. ASSUME Refresh(l) PROVE Started(l)
    <3>1. lastDirty \in SUBSET Nat
      BY DEF TypeOK
    <3> QED
      BY <2>1, <3>1 DEF Refresh, StartLoad, Started
  <2>2. ASSUME NEW b \in 1 .. Now, RefreshAfter(l, b) PROVE Started(l)
    <3>1. blocks[b].touched \in SUBSET Nat
      BY BlockHolds DEF BlockType
    <3> QED
      BY <2>2, <3>1 DEF RefreshAfter, StartLoad, Started
  <2>3. ASSUME loads[l] # Idle, NEW b \in 1 .. Now,
               NEW head \in During(l), NEW supplyAt \in During(l),
               LoadFromIndexer(l, b, head, supplyAt)
        PROVE  Ended(l)
    BY <2>3, IndexerEffect DEF Ended
  <2>4. ASSUME loads[l] # Idle, NEW m \in During(l), LoadFromChain(l, m)
        PROVE  Ended(l)
    BY <2>4, ChainEffectOfLoad DEF Ended
  <2> QED
    BY <1>2, <2>1, <2>2, <2>3, <2>4 DEF LoadStep, During
<1> QED
  BY <1>1, <1>2 DEF SiteNext

\* A load that ends changes its own state, what is on display and no more.
LEMMA EndedEffect ==
    ASSUME NEW l \in Loads, Ended(l)
    PROVE  /\ loads' = [loads EXCEPT ![l] = Idle]
           /\ lastDirty' = {} /\ refreshFailed' = FALSE
           /\ UNCHANGED <<blocks, started>>
<1>1. ASSUME NEW b, NEW at, NEW lost, FromIndexer(l, b, at, lost)
      PROVE  \E snapshot : Finish(l, snapshot)
  BY <1>1 DEF FromIndexer
<1>2. ASSUME NEW m, NEW prev, NEW lost, NEW ownerAt, NEW fieldsAt,
             FromChain(l, m, prev, lost, ownerAt, fieldsAt)
      PROVE  \E snapshot : Finish(l, snapshot)
  BY <1>2 DEF FromChain
<1>3. PICK snapshot : Finish(l, snapshot)
  BY <1>1, <1>2 DEF Ended
<1> QED
  BY <1>3 DEF Finish

\* The step that shows the snapshot of a load is the end of that load.
LEMMA ShownByItsEnd ==
    ASSUME TypeOK, [SiteNext]_allVars, NEW l \in Loads, Shows(l)
    PROVE  Ended(l) /\ blocks' = blocks
<1>1. loads[l] # Idle /\ loads'[l] = Idle /\ ~refreshFailed'
  BY DEF Shows
<1>2. loads \in [Loads -> {Idle} \cup LoadType]
  BY DEF TypeOK
<1>3. CASE UNCHANGED allVars
  BY <1>1, <1>3 DEF allVars, siteVars
<1>4. ASSUME NEW blk, Added(blk)
      PROVE  FALSE
  BY <1>1, <1>4 DEF Added, siteVars
<1>5. ASSUME NEW k \in Loads, Started(k)
      PROVE  FALSE
  <2>1. PICK dirty : loads' = [loads EXCEPT ![k] =
                                  [from |-> Now, dirty |-> dirty, prev |-> data]]
    BY <1>5 DEF Started
  <2>2. [from |-> Now, dirty |-> dirty, prev |-> data].from # Idle.from
    BY DEF TypeOK, Idle
  <2> QED
    BY <1>1, <1>2, <2>1, <2>2
<1>6. ASSUME NEW k \in Loads, LoadFails(k)
      PROVE  FALSE
  BY <1>1, <1>6 DEF LoadFails
<1>7. ASSUME NEW k \in Loads, Ended(k)
      PROVE  k = l /\ blocks' = blocks
  <2>1. loads' = [loads EXCEPT ![k] = Idle] /\ blocks' = blocks
    BY <1>7, EndedEffect
  <2> QED
    BY <1>1, <1>2, <2>1
<1> QED
  BY <1>3, <1>4, <1>5, <1>6, <1>7, SiteStepKinds

-----------------------------------------------------------------------------
(* The invariant.                                                          *)

\* The invariant holds at first.
LEMMA SiteInitInv == SiteInit => IInv
<1> SUFFICES ASSUME SiteInit PROVE IInv
  OBVIOUS
<1>1. PICK token : token = [i \in 0 .. FirstMinted - 1 |-> [owner |-> FirstOwner, state |-> 1]]
  OBVIOUS
<1>2. PICK blk : blk = Block(FirstMinted, token, <<>>, {})
  OBVIOUS
<1>3. FirstMinted \in Nat /\ FirstOwner \in Owners
  BY SiteAssumption
<1>4. token \in PartialMaps(TokenState) /\ DOMAIN token = 0 .. FirstMinted - 1
  <2>1. token \in [0 .. FirstMinted - 1 -> TokenState]
    BY <1>1, <1>3 DEF TokenState
  <2>2. 0 .. FirstMinted - 1 \in SUBSET Nat
    OBVIOUS
  <2> QED
    BY <2>1, <2>2, NewMap
<1>5. blk \in BlockType
  <2>1. PICK none : none = <<>>
    OBVIOUS
  <2>2. none \in PartialMaps(Absorption) /\ DOMAIN none = {}
    BY <2>1, EmptyMap
  <2>3. blk = [minted |-> FirstMinted, token |-> token, under |-> none, touched |-> {}]
    BY <1>2, <2>1 DEF Block
  <2> QED
    BY <1>3, <1>4, <2>2, <2>3 DEF BlockType
<1>6. blocks = <<blk>>
  BY <1>1, <1>2 DEF SiteInit
<1>7. blocks \in Seq(BlockType) /\ Now = 1
  BY <1>5, <1>6 DEF Now
<1>8. NoData \in SnapshotType /\ NoData.scannedMinted = 0
  <2>1. <<>> \in PartialMaps(TokenState)
    BY EmptyMap
  <2> QED
    BY <2>1 DEF NoData, Snapshot, SnapshotType
<1>9. TypeOK
  <2>1. /\ data = NoData /\ lastDirty = {} /\ loads = [l \in Loads |-> Idle]
        /\ started = 0 /\ refreshFailed = FALSE
    BY DEF SiteInit
  <2>2. /\ loads \in [Loads -> {Idle} \cup LoadType]
        /\ \A l \in Loads : loads[l] = Idle
    BY <2>1
  <2>3. data \in SnapshotType /\ lastDirty \in SUBSET Nat /\ started \in Nat
        /\ refreshFailed \in BOOLEAN
    BY <1>8, <2>1
  <2>4. blocks \in Seq(BlockType) /\ Now # 0
    BY <1>7
  <2> QED
    BY <2>2, <2>3, <2>4, Zenon DEF TypeOK
<1>10. ChainGrows
  <2>1. blocks[1].minted \in Nat
    BY <1>7, <1>9, BlockHolds
  <2> QED
    BY <1>7, <2>1 DEF ChainGrows
<1>11. ScanComplete(data) /\ \A l \in Loads : loads[l] = Idle
  BY <1>8 DEF SiteInit, ScanComplete
<1> QED
  BY <1>9, <1>10, <1>11 DEF IInv

\* What a longer chain has never burned, a shorter one had not.
LEMMA NeverBurnedBefore ==
    ASSUME TypeOK, NEW blk, Added(blk), NEW i, NeverBurned(i)'
    PROVE  NeverBurned(i)
<1>1. /\ blocks \in Seq(BlockType) /\ blk \in BlockType /\ blocks' = Append(blocks, blk)
  BY DEF TypeOK, Added
<1>2. /\ Now \in Nat /\ Now' = Now + 1
      /\ \A b \in 1 .. Now : blocks'[b] = blocks[b]
  BY <1>1 DEF Now
<1>3. \A b \in 1 .. Now' : i < blocks'[b].minted => i \in DOMAIN blocks'[b].token
  BY DEF NeverBurned, LiveAt
<1> QED
  BY <1>2, <1>3 DEF NeverBurned, LiveAt

\* A longer chain keeps what the invariant says.
LEMMA AddedInv ==
    ASSUME IInv, NEW blk, Added(blk)
    PROVE  IInv'
<1> USE DEF IInv
<1>1. /\ blocks \in Seq(BlockType) /\ blk \in BlockType /\ blocks' = Append(blocks, blk)
      /\ Now # 0
  BY DEF TypeOK, Added
<1>2. /\ Now \in Nat /\ Now' = Now + 1 /\ blocks' \in Seq(BlockType)
      /\ \A b \in 1 .. Now : blocks'[b] = blocks[b]
      /\ blocks'[Now + 1] = blk
  BY <1>1 DEF Now
<1>3. UNCHANGED siteVars
  BY DEF Added
<1>4. TypeOK'
  <2>1. \A l \in Loads : loads[l] # Idle => loads[l].from <= Now'
    <3>1. \A l \in Loads : loads[l] # Idle => loads[l].from <= Now /\ loads[l].from \in Nat
      BY DEF TypeOK, LoadType
    <3> QED
      BY <1>2, <3>1
  <2>2. Now' # 0
    BY <1>2
  <2> QED
    BY <1>2, <1>3, <2>1, <2>2 DEF TypeOK, siteVars
<1>5. ChainGrows'
  <2> SUFFICES ASSUME NEW b \in 1 .. Now', NEW c \in 1 .. Now', b <= c
               PROVE  blocks'[b].minted <= blocks'[c].minted
    BY DEF ChainGrows
  <2>1. CASE c \in 1 .. Now
    <3>1. b \in 1 .. Now
      BY <1>2, <2>1
    <3> QED
      BY <1>2, <2>1, <3>1 DEF ChainGrows
  <2>2. CASE c = Now + 1 /\ b \in 1 .. Now
    <3>1. Now \in 1 .. Now /\ b <= Now
      BY <1>1, <1>2, <2>2
    <3>2. blocks[b].minted <= blocks[Now].minted
      BY <2>2, <3>1 DEF ChainGrows
    <3>3. blk.minted >= blocks[Now].minted
      BY DEF Added, Latest
    <3>4. blocks[b].minted \in Nat /\ blocks[Now].minted \in Nat /\ blk.minted \in Nat
      BY <1>1, <2>2, <3>1, BlockHolds DEF BlockType
    <3> QED
      BY <1>2, <2>2, <3>2, <3>3, <3>4
  <2>3. CASE c = Now + 1 /\ b = Now + 1
    <3>1. blk.minted \in Nat
      BY <1>1 DEF BlockType
    <3> QED
      BY <1>2, <2>3, <3>1
  <2> QED
    BY <1>2, <2>1, <2>2, <2>3
<1>6. ASSUME NEW s, ScanComplete(s)
      PROVE  \A i \in Nat : i < s.scannedMinted /\ NeverBurned(i)'
                               => i \in DOMAIN s.tokens \/ i \in s.lost
  BY <1>6, NeverBurnedBefore DEF ScanComplete
<1>7. ScanComplete(data)'
  <2>1. data' = data
    BY <1>3 DEF siteVars
  <2>2. \A i \in Nat : i < data.scannedMinted /\ NeverBurned(i)'
                          => i \in DOMAIN data.tokens \/ i \in data.lost
    BY <1>6
  <2> QED
    BY <2>1, <2>2 DEF ScanComplete
<1>8. ASSUME NEW l \in Loads, loads'[l] # Idle
      PROVE  ScanComplete(loads[l].prev)'
  <2>1. loads' = loads
    BY <1>3 DEF siteVars
  <2>2. ScanComplete(loads[l].prev)
    BY <1>8, <2>1
  <2>3. \A i \in Nat : i < loads[l].prev.scannedMinted /\ NeverBurned(i)'
                          => i \in DOMAIN loads[l].prev.tokens \/ i \in loads[l].prev.lost
    BY <1>6, <2>2
  <2> QED
    BY <2>1, <2>3 DEF ScanComplete
<1> QED
  BY <1>4, <1>5, <1>7, <1>8

\* A scan that builds on a complete snapshot is complete, and an answer of the
\* indexer claims no boundary.
LEMMA EndedComplete ==
    ASSUME IInv, NEW l \in Loads, Ended(l)
    PROVE  data' \in SnapshotType /\ ScanComplete(data)'
<1>0. TypeOK /\ loads[l] # Idle /\ blocks' = blocks
  BY EndedEffect DEF IInv, Ended
<1>1. ASSUME NEW b, NEW at, NEW lost, FromIndexer(l, b, at, lost)
      PROVE  data' \in SnapshotType /\ ScanComplete(data)'
  <2>1. data' \in SnapshotType /\ data'.scannedMinted = 0
    BY <1>0, <1>1, IndexerShows
  <2> QED
    BY <2>1 DEF ScanComplete
<1>2. ASSUME NEW m, NEW prev, NEW lost, NEW ownerAt, NEW fieldsAt,
             FromChain(l, m, prev, lost, ownerAt, fieldsAt)
      PROVE  data' \in SnapshotType /\ ScanComplete(data)'
  <2>1. /\ data' \in SnapshotType
        /\ data'.scannedMinted = blocks[m].minted
        /\ data'.lost = (prev.lost \ CheckIds(l, m)) \cup lost
    BY <1>0, <1>2, ChainShows
  <2>2. \A i : i \in DOMAIN data'.tokens
                  <=> i \in CheckIds(l, m) /\ i \notin lost /\ i \in LiveAt(ownerAt[i])
    BY <1>0, <1>2, ChainShows
  <2>3. /\ m \in 1 .. Now /\ prev = EffectivePrevious(l, m)
        /\ ownerAt \in [CheckIds(l, m) \ lost -> 1 .. Now]
        /\ \A i \in CheckIds(l, m) \ lost : ownerAt[i] >= m
    BY <1>2 DEF FromChain
  <2>4. prev \in SnapshotType /\ ScanComplete(prev)
    <3>1. prev \in SnapshotType /\ prev \in {NoData, loads[l].prev}
      BY <1>0, <2>3, PreviousType
    <3>2. ScanComplete(NoData)
      BY DEF ScanComplete, NoData, Snapshot
    <3>3. ScanComplete(loads[l].prev)
      BY <1>0 DEF IInv
    <3> QED
      BY <3>1, <3>2, <3>3
  <2>5. ASSUME NEW i \in Nat, i < blocks[m].minted, NeverBurned(i)
        PROVE  i \in DOMAIN data'.tokens \/ i \in data'.lost
    <3>1. CASE i \in CheckIds(l, m) /\ i \notin lost
      <4>1. ownerAt[i] \in 1 .. Now /\ ownerAt[i] >= m
        BY <2>3, <3>1
      <4>2. PICK b : b = ownerAt[i]
        OBVIOUS
      <4>3. b \in 1 .. Now /\ m <= b
        BY <2>3, <4>1, <4>2
      <4>4. blocks[m].minted <= blocks[b].minted
        BY <2>3, <4>3 DEF IInv, ChainGrows
      <4>5. blocks[m].minted \in Nat /\ blocks[b].minted \in Nat
        BY <1>0, <2>3, <4>3, BlockHolds
      <4>6. i \in LiveAt(b)
        BY <2>5, <4>3, <4>4, <4>5 DEF NeverBurned
      <4> QED
        BY <2>2, <3>1, <4>2, <4>6
    <3>2. CASE i \in lost
      BY <2>1, <3>2
    <3>3. CASE i \notin CheckIds(l, m)
      <4>1. i \notin prev.scannedMinted .. blocks[m].minted - 1 /\ i \notin DOMAIN prev.tokens
        BY <2>3, <3>3 DEF CheckIds
      <4>2. prev.scannedMinted \in Nat /\ blocks[m].minted \in Nat
        BY <1>0, <2>3, <2>4, BlockHolds DEF SnapshotType
      <4>3. i < prev.scannedMinted
        BY <2>5, <4>1, <4>2
      <4>4. i \in prev.lost
        BY <2>4, <2>5, <4>1, <4>3 DEF ScanComplete
      <4> QED
        BY <2>1, <3>3, <4>4
    <3> QED
      BY <3>1, <3>2, <3>3
  <2>6. \A i : NeverBurned(i)' = NeverBurned(i)
    BY <1>0 DEF NeverBurned, LiveAt, Now
  <2>7. \A i \in Nat : i < data'.scannedMinted /\ NeverBurned(i)'
                          => i \in DOMAIN data'.tokens \/ i \in data'.lost
    BY <2>1, <2>5, <2>6
  <2> QED
    BY <2>1, <2>7 DEF ScanComplete
<1> QED
  BY <1>1, <1>2 DEF Ended

\* Every step keeps the invariant.
LEMMA SiteInvStep == IInv /\ [SiteNext]_allVars => IInv'
<1> SUFFICES ASSUME IInv, [SiteNext]_allVars PROVE IInv'
  OBVIOUS
<1> USE DEF IInv
<1>0. TypeOK
  OBVIOUS
<1>1. ASSUME blocks' = blocks, data' \in SnapshotType, ScanComplete(data)',
             lastDirty' \in SUBSET Nat, refreshFailed' \in BOOLEAN, started' \in Nat,
             NEW l \in Loads, NEW v \in {Idle} \cup LoadType,
             v # Idle => v.from <= Now /\ ScanComplete(v.prev),
             loads' = [loads EXCEPT ![l] = v]
      PROVE  IInv'
  <2>1. loads' \in [Loads -> {Idle} \cup LoadType]
    BY <1>1 DEF TypeOK
  <2>2. \A k \in Loads : loads'[k] # Idle => loads'[k].from <= Now
    BY <1>1 DEF TypeOK
  <2>3. TypeOK'
    BY <1>1, <2>1, <2>2 DEF TypeOK, Now
  <2>4. ChainGrows'
    BY <1>1 DEF ChainGrows, Now
  <2>5. ASSUME NEW k \in Loads, loads'[k] # Idle
        PROVE  ScanComplete(loads[k].prev)'
    <3>1. ScanComplete(loads'[k].prev)
      BY <1>1, <2>5 DEF TypeOK
    <3>2. \A i : NeverBurned(i)' = NeverBurned(i)
      BY <1>1 DEF NeverBurned, LiveAt, Now
    <3> QED
      BY <3>1, <3>2 DEF ScanComplete
  <2> QED
    BY <1>1, <2>3, <2>4, <2>5
<1>2. ASSUME NEW blk, Added(blk)
      PROVE  IInv'
  BY <1>2, AddedInv
<1>3. ASSUME NEW l \in Loads, Started(l)
      PROVE  IInv'
  <2>1. PICK dirty \in SUBSET Nat :
            /\ loads' = [loads EXCEPT ![l] = [from |-> Now, dirty |-> dirty, prev |-> data]]
            /\ lastDirty' = dirty
    BY <1>3 DEF Started
  <2>2. PICK v : v = [from |-> Now, dirty |-> dirty, prev |-> data]
    OBVIOUS
  <2>3. v \in LoadType /\ v.from <= Now /\ v.prev = data
    BY <2>2 DEF TypeOK, LoadType, Now
  <2>4. /\ blocks' = blocks /\ data' = data /\ refreshFailed' = refreshFailed
        /\ started' = started + 1
    BY <1>3 DEF Started
  <2>5. ScanComplete(data)'
    BY <2>4 DEF ScanComplete, NeverBurned, LiveAt, Now
  <2>6. refreshFailed' \in BOOLEAN /\ started' \in Nat /\ data' \in SnapshotType
    BY <2>4 DEF TypeOK
  <2>7. ScanComplete(v.prev)
    BY <2>3
  <2> QED
    BY <1>1, <2>1, <2>2, <2>3, <2>4, <2>5, <2>6, <2>7
<1>4. ASSUME NEW l \in Loads, Ended(l)
      PROVE  IInv'
  <2>1. /\ loads' = [loads EXCEPT ![l] = Idle]
        /\ lastDirty' = {} /\ refreshFailed' = FALSE
        /\ blocks' = blocks /\ started' = started
    BY <1>4, EndedEffect
  <2>2. data' \in SnapshotType /\ ScanComplete(data)'
    BY <1>4, EndedComplete
  <2>3. started' \in Nat
    BY <2>1 DEF TypeOK
  <2> QED
    BY <1>1, <2>1, <2>2, <2>3
<1>5. ASSUME NEW l \in Loads, LoadFails(l)
      PROVE  IInv'
  <2>1. /\ loads' = [loads EXCEPT ![l] = Idle] /\ refreshFailed' = TRUE
        /\ blocks' = blocks /\ data' = data /\ lastDirty' = lastDirty /\ started' = started
    BY <1>5 DEF LoadFails
  <2>2. ScanComplete(data)'
    BY <2>1 DEF ScanComplete, NeverBurned, LiveAt, Now
  <2>3. data' \in SnapshotType /\ lastDirty' \in SUBSET Nat /\ started' \in Nat
    BY <2>1 DEF TypeOK
  <2> QED
    BY <1>1, <2>1, <2>2, <2>3
<1>6. CASE UNCHANGED allVars
  BY <1>6 DEF allVars, siteVars, TypeOK, ChainGrows, ScanComplete, NeverBurned, LiveAt, Now
<1> QED
  BY <1>0, <1>2, <1>3, <1>4, <1>5, <1>6, SiteStepKinds

\* Every state the gallery can be in satisfies the invariant.
THEOREM SiteInvariant == SiteSpec => []IInv
BY SiteInitInv, SiteInvStep, PTL DEF SiteSpec, allVars

-----------------------------------------------------------------------------
(* What a load shows.                                                      *)

\* No ghost: whatever the path and the failures of a load, each token it puts
\* on display was live, and its owner's, at a block the load may have read.
THEOREM GalleryAlwaysTrue == SiteSpec => GalleryTrue
<1>1. IInv /\ [SiteNext]_allVars =>
         [\A l \in Loads : Shows(l) =>
             \A i \in DOMAIN data'.tokens :
                \E b \in Window(l) :
                   /\ i \in LiveAt(b)
                   /\ data'.tokens[i].owner = blocks[b].token[i].owner]_siteVars
  <2> SUFFICES ASSUME IInv, [SiteNext]_allVars, NEW l \in Loads, Shows(l),
                      NEW i \in DOMAIN data'.tokens
               PROVE  \E b \in Window(l) :
                         /\ i \in LiveAt(b)
                         /\ data'.tokens[i].owner = blocks[b].token[i].owner
    OBVIOUS
  <2>0. TypeOK /\ Ended(l) /\ loads[l] # Idle
    BY ShownByItsEnd DEF IInv, Ended
  <2>1. loads[l].from \in Nat /\ MaxLag \in Nat /\ Now \in Nat
    BY <2>0, SiteAssumption DEF TypeOK, LoadType, Now
  <2>2. ASSUME NEW b, NEW at, NEW lost, FromIndexer(l, b, at, lost)
        PROVE  \E c \in Window(l) :
                  /\ i \in LiveAt(c)
                  /\ data'.tokens[i].owner = blocks[c].token[i].owner
    <3>1. \/ i \in loads[l].dirty /\ i \notin lost /\ i \in LiveAt(at[i])
          \/ i \in LiveAt(b) /\ i \notin loads[l].dirty
      BY <2>0, <2>2, IndexerShows
    <3>2. data'.tokens[i] = IF i \in loads[l].dirty THEN blocks[at[i]].token[i]
                            ELSE blocks[b].token[i]
      BY <2>0, <2>2, IndexerShows
    <3>3. CASE i \in loads[l].dirty
      <4>1. i \in loads[l].dirty \ lost
        BY <3>1, <3>3
      <4>2. at[i] \in 1 .. Now /\ at[i] >= loads[l].from
        BY <2>2, <4>1 DEF FromIndexer
      <4>3. at[i] \in Window(l)
        BY <2>1, <4>2 DEF Window
      <4> QED
        BY <3>1, <3>2, <3>3, <4>3
    <3>4. CASE i \notin loads[l].dirty
      <4>1. b \in Window(l)
        BY <2>2 DEF FromIndexer, Window
      <4> QED
        BY <3>1, <3>2, <3>4, <4>1
    <3> QED
      BY <3>3, <3>4
  <2>3. ASSUME NEW m, NEW prev, NEW lost, NEW ownerAt, NEW fieldsAt,
               FromChain(l, m, prev, lost, ownerAt, fieldsAt)
        PROVE  \E c \in Window(l) :
                  /\ i \in LiveAt(c)
                  /\ data'.tokens[i].owner = blocks[c].token[i].owner
    <3>1. /\ i \in CheckIds(l, m) /\ i \notin lost /\ i \in LiveAt(ownerAt[i])
          /\ data'.tokens[i].owner = blocks[ownerAt[i]].token[i].owner
      BY <2>0, <2>3, ChainShows
    <3>2. /\ ownerAt[i] \in 1 .. Now /\ ownerAt[i] >= m
          /\ m \in 1 .. Now /\ m >= loads[l].from
      BY <2>3, <3>1 DEF FromChain
    <3>3. PICK c \in 1 .. Now : c = ownerAt[i]
      BY <3>2
    <3>4. c + MaxLag >= loads[l].from
      BY <2>1, <3>2, <3>3
    <3>5. c \in Window(l)
      BY <3>4 DEF Window
    <3> QED
      BY <3>1, <3>3, <3>5
  <2> QED
    BY <2>0, <2>2, <2>3 DEF Ended
<1> QED
  BY <1>1, SiteInvariant, PTL DEF SiteSpec, GalleryTrue, allVars

\* Nothing is missing: what was live in all a load may have read, and was never
\* burned, is on display or was lost, in this load or in one it builds on.
THEOREM GalleryAlwaysComplete == SiteSpec => GalleryComplete
<1>1. IInv /\ [SiteNext]_allVars =>
         [\A l \in Loads : Shows(l) =>
             \A i \in 0 .. Latest.minted - 1 :
                LiveIn(i, Window(l)) /\ NeverBurned(i) /\ i \notin data'.lost
                   => i \in DOMAIN data'.tokens]_siteVars
  <2> SUFFICES ASSUME IInv, [SiteNext]_allVars, NEW l \in Loads, Shows(l),
                      NEW i \in 0 .. Latest.minted - 1,
                      LiveIn(i, Window(l)), NeverBurned(i), i \notin data'.lost
               PROVE  i \in DOMAIN data'.tokens
    OBVIOUS
  <2>0. TypeOK /\ Ended(l) /\ loads[l] # Idle /\ blocks' = blocks
    BY ShownByItsEnd DEF IInv, Ended
  <2>1. loads[l].from \in Nat /\ MaxLag \in Nat /\ Now \in Nat
    BY <2>0, SiteAssumption DEF TypeOK, LoadType, Now
  <2>2. ASSUME NEW b \in 1 .. Now, b >= loads[l].from
        PROVE  i \in LiveAt(b)
    <3>1. b \in Window(l)
      BY <2>1, <2>2 DEF Window
    <3> QED
      BY <3>1 DEF LiveIn
  <2>3. ASSUME NEW b, NEW at, NEW lost, FromIndexer(l, b, at, lost)
        PROVE  i \in DOMAIN data'.tokens
    <3>1. data'.lost = lost
      BY <2>0, <2>3, IndexerShows
    <3>2. \/ i \in loads[l].dirty /\ i \notin lost /\ i \in LiveAt(at[i])
          \/ i \in LiveAt(b) /\ i \notin loads[l].dirty
      <4>1. CASE i \in loads[l].dirty
        <5>1. i \in loads[l].dirty \ lost
          BY <3>1, <4>1
        <5>2. at[i] \in 1 .. Now /\ at[i] >= loads[l].from
          BY <2>3, <5>1 DEF FromIndexer
        <5> QED
          BY <2>2, <5>1, <5>2
      <4>2. CASE i \notin loads[l].dirty
        <5>1. b \in Window(l)
          BY <2>3 DEF FromIndexer, Window
        <5> QED
          BY <4>2, <5>1 DEF LiveIn
      <4> QED
        BY <4>1, <4>2
    <3> QED
      BY <2>0, <2>3, <3>2, IndexerShows
  <2>4. ASSUME NEW m, NEW prev, NEW lost, NEW ownerAt, NEW fieldsAt,
               FromChain(l, m, prev, lost, ownerAt, fieldsAt)
        PROVE  i \in DOMAIN data'.tokens
    <3>1. m \in 1 .. Now /\ m >= loads[l].from
      BY <2>4 DEF FromChain
    <3>2. i \in Nat /\ i < blocks[m].minted
      <4>1. i \in LiveAt(m)
        BY <2>2, <3>1
      <4> QED
        BY <2>0, <3>1, <4>1, BlockHolds
    <3>3. data'.scannedMinted = blocks[m].minted
      BY <2>0, <2>4, ChainShows
    <3>4. ScanComplete(data)'
      BY <2>0, EndedComplete
    <3>5. NeverBurned(i)'
      BY <2>0 DEF NeverBurned, LiveAt, Now
    <3> QED
      BY <3>2, <3>3, <3>4, <3>5 DEF ScanComplete
  <2> QED
    BY <2>0, <2>3, <2>4 DEF Ended
<1> QED
  BY <1>1, SiteInvariant, PTL DEF SiteSpec, GalleryComplete, allVars

\* The user's own transaction shows: an id the load was told of is put on
\* display as it was at a block the load was running at.
THEOREM OwnActionAlwaysShows == SiteSpec => OwnActionShows
<1>1. IInv /\ [SiteNext]_allVars =>
         [\A l \in Loads : Shows(l) =>
             \A i \in DOMAIN data'.tokens \cap loads[l].dirty :
                \E b \in During(l) :
                   /\ i \in LiveAt(b)
                   /\ data'.tokens[i].state = blocks[b].token[i].state]_siteVars
  <2> SUFFICES ASSUME IInv, [SiteNext]_allVars, NEW l \in Loads, Shows(l),
                      NEW i \in DOMAIN data'.tokens \cap loads[l].dirty
               PROVE  \E b \in During(l) :
                         /\ i \in LiveAt(b)
                         /\ data'.tokens[i].state = blocks[b].token[i].state
    OBVIOUS
  <2>0. TypeOK /\ Ended(l) /\ loads[l] # Idle
    BY ShownByItsEnd DEF IInv, Ended
  <2>1. loads[l].from \in Nat /\ Now \in Nat
    BY <2>0 DEF TypeOK, LoadType, Now
  <2>2. ASSUME NEW b, NEW at, NEW lost, FromIndexer(l, b, at, lost)
        PROVE  \E c \in During(l) :
                  /\ i \in LiveAt(c)
                  /\ data'.tokens[i].state = blocks[c].token[i].state
    <3>1. i \in loads[l].dirty \ lost /\ i \in LiveAt(at[i])
      BY <2>0, <2>2, IndexerShows
    <3>2. data'.tokens[i] = blocks[at[i]].token[i]
      BY <2>0, <2>2, IndexerShows
    <3>3. at[i] \in 1 .. Now /\ at[i] >= loads[l].from
      BY <2>2, <3>1 DEF FromIndexer
    <3>4. at[i] \in During(l)
      BY <2>1, <3>3 DEF During
    <3> QED
      BY <3>1, <3>2, <3>4
  <2>3. ASSUME NEW m, NEW prev, NEW lost, NEW ownerAt, NEW fieldsAt,
               FromChain(l, m, prev, lost, ownerAt, fieldsAt)
        PROVE  \E c \in During(l) :
                  /\ i \in LiveAt(c)
                  /\ data'.tokens[i].state = blocks[c].token[i].state
    <3>1. /\ data'.tokens[i].state = blocks[fieldsAt[i]].token[i].state
          /\ fieldsAt[i] \in 1 .. Now /\ fieldsAt[i] >= m
          /\ i \in LiveAt(fieldsAt[i])
      BY <2>0, <2>3, ChainShows
    <3>2. m \in 1 .. Now /\ m >= loads[l].from
      BY <2>3 DEF FromChain
    <3>3. PICK c \in 1 .. Now : c = fieldsAt[i]
      BY <3>1
    <3>4. c >= m
      BY <3>1, <3>3
    <3>5. c \in During(l)
      BY <2>1, <3>2, <3>4 DEF During
    <3> QED
      BY <3>1, <3>3, <3>5
  <2> QED
    BY <2>0, <2>2, <2>3 DEF Ended
<1> QED
  BY <1>1, SiteInvariant, PTL DEF SiteSpec, OwnActionShows, allVars
=============================================================================
