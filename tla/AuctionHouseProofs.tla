------------------------- MODULE AuctionHouseProofs -------------------------
(***************************************************************************)
(* The auction house's custody, its price order, what its units are worth  *)
(* and its implementation of EnglishAuction, for every value of the        *)
(* constants.                                                              *)
(*                                                                         *)
(* The inductive invariant IInv adds to the properties how auctions come   *)
(* into being and that no card exists before Shapes mints it: without the  *)
(* first a new auction could inherit stakes, without the second the cards  *)
(* a bid mints could already be in someone's entry.                        *)
(***************************************************************************)
EXTENDS AuctionHouseProperties, SumLemmas, FiniteSetTheorems, TLAPS

\* Auctions are created in order; one without a bid holds no stake, one with a
\* bid has met its reserve, and the lot leaves only a closed one.
AuctionsShaped ==
    \A a \in AuctionIds :
        /\ a >= auctionCount => auctions[a] = NoAuction
        /\ a < auctionCount => Exists(a) /\ auctions[a].lot \in Tokens
        /\ ~HasBid(a) => /\ auctions[a].highestUnits = 0
                         /\ \A p \in People : units[a][p] = 0
        /\ HasBid(a) => auctions[a].highestUnits >= AtLeastOne(auctions[a].reserveUnits)
        /\ auctions[a].extensionWindow <= auctions[a].duration
        /\ auctions[a].lotClaimed => auctions[a].settled
        /\ \A p \in People : escrow[a][p] # {} => units[a][p] > 0

\* Shapes has not issued the ids from totalMinted on.
FreshUnowned == \A c \in Cards : c >= minted => owner[c] = Nobody

IInv == TypeOK /\ Custody /\ LeaderLeads /\ AuctionsShaped /\ FreshUnowned

-----------------------------------------------------------------------------
(* What a bid of ETH is minted into.                                       *)

\* A remainder and a quotient of natural numbers are natural numbers.
LEMMA QuotientNat ==
    ASSUME NEW x \in Nat, NEW y \in Nat \ {0}
    PROVE  x \div y \in Nat /\ x % y \in Nat
OBVIOUS

\* Division with remainder is unique.
LEMMA DivisionUnique ==
    ASSUME NEW u \in Nat \ {0}, NEW q \in Int, NEW r \in 0 .. u - 1, NEW s \in Int,
           NEW t \in 0 .. u - 1, u * q + r = u * s + t
    PROVE  q = s /\ r = t
<1>1. ASSUME NEW m \in Int, NEW n \in Int, NEW y \in 0 .. u - 1, NEW z \in 0 .. u - 1,
             u * m + y = u * n + z, m < n
      PROVE  FALSE
  <2>1. PICK e \in Nat : n = m + 1 + e
    <3>1. n - m - 1 \in Nat /\ n = m + 1 + (n - m - 1)
      BY <1>1
    <3> QED
      BY <3>1
  <2>2. u * n = u * m + u + u * e
    BY <2>1
  <2>3. u * e \in Nat /\ u * m \in Int /\ u * n \in Int
    BY <2>1
  <2>4. PICK a \in Int, b \in Int, c \in Nat : a = u * m /\ b = u * n /\ c = u * e
    BY <2>3
  <2>5. a + y = b + z /\ b = a + u + c
    BY <1>1, <2>2, <2>4
  <2> QED
    BY <2>4, <2>5
<1>2. q = s
  <2>1. ~(q < s)
    BY <1>1
  <2>2. ~(s < q)
    BY <1>1
  <2> QED
    BY <2>1, <2>2
<1>3. PICK a \in Int : a = u * q
  OBVIOUS
<1>4. a + r = a + t
  BY <1>2, <1>3
<1> QED
  BY <1>2, <1>3, <1>4

\* A remainder, taken apart.
LEMMA QuotientRemainder ==
    ASSUME NEW x \in Nat, NEW u \in Nat \ {0}
    PROVE  /\ x \div u \in Nat /\ x % u \in 0 .. u - 1
           /\ x = u * (x \div u) + (x % u)
OBVIOUS

\* Where one denomination measures the next, what the next leaves over is so many
\* of this one and what this one leaves over.
LEMMA RemainderOfRemainder ==
    ASSUME NEW x \in Nat, NEW u \in Nat \ {0}, NEW v \in Nat \ {0}, v % u = 0
    PROVE  x % v = ((x % v) \div u) * u + (x % u)
<1>1. PICK k \in Nat : v = u * k
  <2>1. v = u * (v \div u) + 0 /\ v \div u \in Nat
    BY QuotientRemainder
  <2> QED
    BY <2>1
<1>2. PICK q \in Nat, r \in Nat : q = x \div v /\ r = x % v /\ x = v * q + r
  BY QuotientRemainder
<1>3. PICK s \in Nat, t \in 0 .. u - 1 : s = r \div u /\ t = r % u /\ r = u * s + t
  BY QuotientRemainder
<1>4. PICK a \in Nat, b \in 0 .. u - 1 : a = x \div u /\ b = x % u /\ x = u * a + b
  <2>1. /\ x \div u \in Nat /\ x % u \in 0 .. u - 1
        /\ x = u * (x \div u) + (x % u)
    BY QuotientRemainder
  <2>2. PICK a, b : a = x \div u /\ b = x % u
    OBVIOUS
  <2> QED
    BY <2>1, <2>2, Zenon
<1>5. x = u * (k * q + s) + t
  <2>1. v * q = u * (k * q)
    BY <1>1
  <2>2. u * (k * q + s) = u * (k * q) + u * s
    OBVIOUS
  <2> QED
    BY <1>2, <1>3, <2>1, <2>2
<1>6. b = t
  <2>1. PICK z \in Nat : z = k * q + s
    OBVIOUS
  <2>2. u * a + b = u * z + t
    BY <1>4, <1>5, <2>1
  <2> QED
    BY <2>1, <2>2, DivisionUnique
<1>7. r = s * u + b
  BY <1>3, <1>6
<1> QED
  BY <1>2, <1>3, <1>4, <1>7

\* How many cards of each denomination a bid of ETH asks for.
LEMMA CountsNat ==
    ASSUME NEW amount \in Nat
    PROVE  /\ CardsFor(amount) \in [Denoms -> Nat]
           /\ CardsFor(amount)[Apex] = amount \div Units[Apex]
           /\ \A d \in 0 .. Apex - 1 :
                  CardsFor(amount)[d] = (amount % Units[d + 1]) \div Units[d]
<1> DEFINE f == CardsFor(amount)
<1>1. f[Apex] = amount \div Units[Apex] /\ f[Apex] \in Nat
  <2>1. Apex \in Denoms /\ Units[Apex] \in Nat \ {0}
    BY LadderAssumption DEF Denoms
  <2>2. f[Apex] = amount \div Units[Apex]
    BY <2>1 DEF CardsFor
  <2> QED
    BY <2>1, <2>2, QuotientNat
<1>2. ASSUME NEW d \in 0 .. Apex - 1
      PROVE  f[d] = (amount % Units[d + 1]) \div Units[d] /\ f[d] \in Nat
  <2>1. /\ d \in Denoms /\ d # Apex
        /\ Units[d] \in Nat \ {0} /\ Units[d + 1] \in Nat \ {0}
    BY LadderAssumption DEF Denoms
  <2>2. f[d] = (amount % Units[d + 1]) \div Units[d]
    BY <2>1 DEF CardsFor
  <2>3. amount % Units[d + 1] \in Nat
    BY <2>1, QuotientNat
  <2> QED
    BY <2>1, <2>2, <2>3, QuotientNat
<1>3. f \in [Denoms -> Nat]
  <2>1. \A d \in Denoms : f[d] \in Nat
    <3>1. \A d \in Denoms : d = Apex \/ d \in 0 .. Apex - 1
      BY LadderAssumption DEF Denoms
    <3> HIDE DEF f
    <3> QED
      BY <1>1, <1>2, <3>1
  <2>2. f = [d \in Denoms |-> f[d]]
    BY DEF CardsFor
  <2> HIDE DEF f
  <2> QED
    BY <2>1, <2>2
<1> QED
  BY <1>1, <1>2, <1>3

\* The cards minted from the denominations below grow with each denomination.
LEMMA MintedBelowGrows ==
    ASSUME NEW counts \in [Denoms -> Nat]
    PROVE  /\ MintedBelow(counts, 0) = 0
           /\ \A d \in Denoms :
                  MintedBelow(counts, d + 1) = MintedBelow(counts, d) + counts[d]
           /\ \A d \in 0 .. Apex + 1 : MintedBelow(counts, d) \in Nat
           /\ \A d, e \in 0 .. Apex + 1 :
                  d <= e => MintedBelow(counts, d) <= MintedBelow(counts, e)
<1>1. MintedBelow(counts, 0) = 0
  <2>1. 0 .. 0 - 1 = {}
    OBVIOUS
  <2> QED
    BY <2>1, SumEmpty DEF MintedBelow
<1>2. ASSUME NEW d \in 0 .. Apex + 1
      PROVE  /\ IsFiniteSet(0 .. d - 1) /\ \A x \in 0 .. d - 1 : counts[x] \in Nat
             /\ MintedBelow(counts, d) \in Nat
  <2>1. \A x \in 0 .. d - 1 : counts[x] \in Nat
    BY LadderAssumption DEF Denoms
  <2>2. IsFiniteSet(0 .. d - 1)
    BY FS_Interval
  <2> QED
    BY <2>1, <2>2, SumNat DEF MintedBelow
<1>3. ASSUME NEW d \in 0 .. Apex + 1, NEW e \in 0 .. Apex + 1, d <= e
      PROVE  MintedBelow(counts, d) <= MintedBelow(counts, e)
  <2>1. 0 .. d - 1 \in SUBSET (0 .. e - 1)
    BY <1>3
  <2>2. /\ IsFiniteSet(0 .. e - 1) /\ \A x \in 0 .. e - 1 : counts[x] \in Nat
        /\ IsFiniteSet((0 .. e - 1) \ (0 .. d - 1))
    BY <1>2, FS_Difference
  <2>3. SumOver(counts, 0 .. e - 1)
            = SumOver(counts, 0 .. d - 1) + SumOver(counts, (0 .. e - 1) \ (0 .. d - 1))
    BY <2>1, <2>2, SumDifference
  <2>4. SumOver(counts, (0 .. e - 1) \ (0 .. d - 1)) \in Nat
    BY <2>2, SumNat
  <2>5. SumOver(counts, 0 .. d - 1) \in Nat
    BY <1>2 DEF MintedBelow
  <2> QED
    BY <2>3, <2>4, <2>5 DEF MintedBelow
<1>4. ASSUME NEW d \in Denoms
      PROVE  MintedBelow(counts, d + 1) = MintedBelow(counts, d) + counts[d]
  <2>1. /\ d \in 0 .. Apex + 1 /\ d + 1 \in 0 .. Apex + 1
        /\ 0 .. (d + 1) - 1 = 0 .. d /\ d \in 0 .. d
        /\ (0 .. d) \ {d} = 0 .. d - 1
    BY LadderAssumption DEF Denoms
  <2>2. IsFiniteSet(0 .. d) /\ \A x \in 0 .. d : counts[x] \in Nat
    BY <1>2, <2>1
  <2>3. SumOver(counts, 0 .. d) = counts[d] + SumOver(counts, (0 .. d) \ {d})
    BY <2>1, <2>2, SumRemove
  <2>4. SumOver(counts, 0 .. d - 1) \in Nat /\ counts[d] \in Nat
    BY <1>2, <2>1 DEF MintedBelow
  <2>5. /\ MintedBelow(counts, d + 1) = SumOver(counts, 0 .. (d + 1) - 1)
        /\ MintedBelow(counts, d) = SumOver(counts, 0 .. d - 1)
    BY DEF MintedBelow
  <2>6. /\ MintedBelow(counts, d + 1) = SumOver(counts, 0 .. d)
        /\ SumOver(counts, 0 .. d) = counts[d] + SumOver(counts, 0 .. d - 1)
    BY <2>1, <2>3, <2>5, Zenon
  <2> QED
    BY <2>4, <2>5, <2>6
<1> QED
  BY <1>1, <1>2, <1>3, <1>4

\* The number of cards _cardsFor asks for is a natural number.
LEMMA CardCountNat ==
    ASSUME NEW amount \in Nat
    PROVE  CardCount(CardsFor(amount)) \in Nat
<1>1. CardsFor(amount) \in [Denoms -> Nat]
  BY CountsNat
<1>2. Apex + 1 \in 0 .. Apex + 1
  BY LadderAssumption
<1> QED
  BY <1>1, <1>2, MintedBelowGrows DEF CardCount

\* Every card minted has one of the ladder's denominations.
LEMMA FreshDenomInLadder ==
    ASSUME NEW counts, NEW c
    PROVE  FreshDenom(counts, c) \in Denoms
<1> DEFINE D == {d \in 0 .. Apex - 1 : minted + MintedBelow(counts, d + 1) <= c}
<1>1. IsFiniteSet(0 .. Apex - 1) /\ Cardinality(0 .. Apex - 1) = Apex
  BY LadderAssumption, FS_Interval
<1>2. Cardinality(D) \in Nat /\ Cardinality(D) <= Apex
  <2>1. D \in SUBSET (0 .. Apex - 1)
    OBVIOUS
  <2> HIDE DEF D
  <2> QED
    BY <1>1, <2>1, FS_Subset, FS_CardinalityType
<1> QED
  BY <1>2, LadderAssumption DEF FreshDenom, Denoms

\* Cards are minted denomination by denomination, the smallest first.
LEMMA FreshDenomInTurn ==
    ASSUME minted \in Nat, NEW counts \in [Denoms -> Nat], NEW d \in Denoms,
           NEW c \in minted + MintedBelow(counts, d)
                         .. minted + MintedBelow(counts, d + 1) - 1
    PROVE  FreshDenom(counts, c) = d
<1> DEFINE M(e) == MintedBelow(counts, e)
           D == {e \in 0 .. Apex - 1 : minted + M(e + 1) <= c}
<1>1. /\ \A e \in 0 .. Apex + 1 : M(e) \in Nat
      /\ \A e, g \in 0 .. Apex + 1 : e <= g => M(e) <= M(g)
  BY MintedBelowGrows
<1>2. Apex \in Nat /\ d \in 0 .. Apex /\ d + 1 \in 0 .. Apex + 1
  BY LadderAssumption DEF Denoms
<1>3. PICK n \in Nat : n = minted
  OBVIOUS
<1>4. c \in Int /\ n + M(d) <= c /\ c < n + M(d + 1)
  <2>1. M(d) \in Nat /\ M(d + 1) \in Nat
    BY <1>1, <1>2
  <2> HIDE DEF M
  <2>2. c \in n + M(d) .. n + M(d + 1) - 1
    BY <1>3 DEF M
  <2> QED
    BY <2>1, <2>2
<1>5. D = 0 .. d - 1
  <2>1. ASSUME NEW e \in 0 .. d - 1
        PROVE  e \in D
    <3>1. e \in 0 .. Apex - 1 /\ e + 1 \in 0 .. Apex + 1 /\ d \in 0 .. Apex + 1
          /\ e + 1 <= d
      BY <1>2
    <3>2. M(e + 1) <= M(d) /\ M(e + 1) \in Nat /\ M(d) \in Nat
      BY <1>1, <3>1
    <3> HIDE DEF M
    <3>3. n + M(e + 1) <= c
      BY <1>4, <3>2
    <3> QED
      BY <1>3, <3>1, <3>3
  <2>2. ASSUME NEW e \in D
        PROVE  e \in 0 .. d - 1
    <3>1. e \in 0 .. Apex - 1 /\ n + M(e + 1) <= c
      BY <1>3
    <3>2. ASSUME e >= d PROVE FALSE
      <4>1. e + 1 \in 0 .. Apex + 1 /\ d + 1 <= e + 1
        BY <1>2, <3>1, <3>2
      <4>2. M(d + 1) <= M(e + 1) /\ M(e + 1) \in Nat /\ M(d + 1) \in Nat
        BY <1>1, <1>2, <4>1
      <4> HIDE DEF M
      <4> QED
        BY <1>4, <3>1, <4>2
    <3> QED
      BY <1>2, <3>1, <3>2
  <2> HIDE DEF D
  <2> QED
    BY <2>1, <2>2
<1>6. Cardinality(0 .. d - 1) = d
  BY <1>2, FS_Interval
<1> HIDE DEF D
<1>7. FreshDenom(counts, c) = Cardinality(D)
  BY DEF FreshDenom, D
<1> QED
  BY <1>5, <1>6, <1>7

\* The cards a bid of ETH is minted into are worth exactly that ETH: each
\* denomination takes what the next one up left over, but for what it leaves
\* over itself, and the smallest leaves nothing.
LEMMA MintedWorth ==
    ASSUME minted \in Nat, NEW amount \in Nat, NEW counts, counts = CardsFor(amount),
           NEW w, \A c \in FreshCards(counts) : w[c] = Units[FreshDenom(counts, c)]
    PROVE  SumOver(w, FreshCards(counts)) = amount
<1> DEFINE M(m) == MintedBelow(counts, m)
           Fresh(m) == minted .. minted + M(m) - 1
           Worth(m) == SumOver(w, Fresh(m)) = amount % Units[m]
           G == {m \in Nat : m <= Apex => Worth(m)}
<1>1. /\ counts \in [Denoms -> Nat]
      /\ counts[Apex] = amount \div Units[Apex]
      /\ \A d \in 0 .. Apex - 1 : counts[d] = (amount % Units[d + 1]) \div Units[d]
  BY CountsNat
<1>2. /\ M(0) = 0
      /\ \A d \in Denoms : M(d + 1) = M(d) + counts[d]
      /\ \A d \in 0 .. Apex + 1 : M(d) \in Nat
      /\ \A d, e \in 0 .. Apex + 1 : d <= e => M(d) <= M(e)
  BY <1>1, MintedBelowGrows
<1>3. Apex \in Nat /\ Apex \in Denoms /\ Units \in [Denoms -> Nat \ {0}] /\ Units[0] = 1
  BY LadderAssumption DEF Denoms
<1>4. FreshCards(counts) = Fresh(Apex + 1)
  BY DEF FreshCards, CardCount
<1>5. PICK n \in Nat : n = minted
  OBVIOUS
<1>6. ASSUME NEW m \in Denoms
      PROVE  SumOver(w, Fresh(m + 1)) = SumOver(w, Fresh(m)) + counts[m] * Units[m]
  <2>1. /\ m \in 0 .. Apex + 1 /\ m + 1 \in 0 .. Apex + 1
        /\ m + 1 <= Apex + 1
    BY <1>3 DEF Denoms
  <2>2. /\ M(m) \in Nat /\ M(m + 1) \in Nat /\ counts[m] \in Nat
        /\ M(m + 1) = M(m) + counts[m] /\ M(m + 1) <= M(Apex + 1) /\ M(Apex + 1) \in Nat
    BY <1>1, <1>2, <1>3, <2>1
  <2>3. PICK x \in Nat, y \in Nat, z \in Nat : x = M(m) /\ y = M(m + 1) /\ z = M(Apex + 1)
    BY <2>2
  <2> DEFINE Layer == n + x .. n + y - 1
  <2>4. /\ Fresh(m) = n .. n + x - 1
        /\ Fresh(m + 1) = n .. n + y - 1
        /\ Fresh(Apex + 1) = n .. n + z - 1
        /\ Layer = minted + M(m) .. minted + M(m + 1) - 1
    BY <1>5, <2>3, Zenon
  <2>5. /\ Fresh(m + 1) = Fresh(m) \cup Layer
        /\ Fresh(m) \cap Layer = {}
        /\ Fresh(m + 1) \subseteq Fresh(Apex + 1)
        /\ IsFiniteSet(Fresh(m)) /\ IsFiniteSet(Layer)
        /\ Cardinality(Layer) = counts[m]
    <3>1. x <= y /\ y <= z /\ y = x + counts[m]
      BY <2>2, <2>3
    <3>2. IsFiniteSet(n .. n + x - 1)
      BY FS_Interval
    <3>3. /\ IsFiniteSet(n + x .. n + y - 1)
          /\ Cardinality(n + x .. n + y - 1)
                 = IF n + x > n + y - 1 THEN 0 ELSE (n + y - 1) - (n + x) + 1
      <4>1. PICK i \in Int, j \in Int : i = n + x /\ j = n + y - 1
        OBVIOUS
      <4>2. IsFiniteSet(i .. j) /\ Cardinality(i .. j) = IF i > j THEN 0 ELSE j - i + 1
        BY FS_Interval
      <4> QED
        BY <4>1, <4>2
    <3>4. Cardinality(n + x .. n + y - 1) = y - x
      BY <3>1, <3>3
    <3>5. y - x = counts[m]
      BY <2>2, <3>1
    <3>6. /\ n .. n + y - 1 = (n .. n + x - 1) \cup (n + x .. n + y - 1)
          /\ (n .. n + x - 1) \cap (n + x .. n + y - 1) = {}
          /\ n .. n + y - 1 \subseteq n .. n + z - 1
      BY <3>1
    <3> HIDE DEF Fresh
    <3> QED
      BY <2>4, <3>2, <3>3, <3>4, <3>5, <3>6, Zenon
  <2>6. \A c \in Layer : w[c] = Units[m]
    <3> SUFFICES ASSUME NEW c \in Layer PROVE w[c] = Units[m]
      OBVIOUS
    <3>1. c \in FreshCards(counts)
      BY <1>4, <2>5
    <3>2. FreshDenom(counts, c) = m
      BY <1>1, <2>4, FreshDenomInTurn
    <3> QED
      BY <3>1, <3>2
  <2>7. \A c \in Fresh(m) \cup Layer : w[c] \in Nat
    <3> SUFFICES ASSUME NEW c \in Fresh(m) \cup Layer PROVE w[c] \in Nat
      OBVIOUS
    <3>1. c \in FreshCards(counts)
      BY <1>4, <2>5
    <3>2. Units[FreshDenom(counts, c)] \in Nat
      BY <1>3, FreshDenomInLadder
    <3> QED
      BY <3>1, <3>2
  <2>8. Units[m] \in Nat
    BY <1>3
  <2> HIDE DEF Fresh, Layer
  <2>9. SumOver(w, Layer) = counts[m] * Units[m]
    BY <2>5, <2>6, <2>8, SumConstant
  <2>10. SumOver(w, Fresh(m) \cup Layer) = SumOver(w, Fresh(m)) + SumOver(w, Layer)
    BY <2>5, <2>7, SumDisjoint
  <2> QED
    BY <2>5, <2>9, <2>10
<1>7. 0 \in G
  <2>1. Fresh(0) = {}
    <3>1. Fresh(0) = n .. n - 1
      BY <1>2, <1>5
    <3> HIDE DEF Fresh
    <3> QED
      BY <3>1
  <2>2. SumOver(w, Fresh(0)) = 0
    BY <2>1, SumEmpty
  <2>3. amount % Units[0] = 0
    BY <1>3
  <2> QED
    BY <2>2, <2>3
<1>8. ASSUME NEW m \in G
      PROVE  m + 1 \in G
  <2> SUFFICES ASSUME m + 1 <= Apex PROVE Worth(m + 1)
    OBVIOUS
  <2>1. m \in Nat /\ m <= Apex /\ m \in Denoms /\ m \in 0 .. Apex - 1 /\ m + 1 \in Denoms
    BY <1>3 DEF Denoms
  <2>2. SumOver(w, Fresh(m)) = amount % Units[m]
    BY <2>1
  <2>3. SumOver(w, Fresh(m + 1)) = SumOver(w, Fresh(m)) + counts[m] * Units[m]
    BY <1>6, <2>1
  <2>4. PICK u, v : u = Units[m] /\ v = Units[m + 1]
    OBVIOUS
  <2>5. u \in Nat \ {0} /\ v \in Nat \ {0} /\ v % u = 0
    BY <1>3, <2>1, <2>4, LadderAssumption
  <2>6. amount % v = ((amount % v) \div u) * u + (amount % u)
    BY <2>5, RemainderOfRemainder
  <2>7. counts[m] = (amount % v) \div u
    BY <1>1, <2>1, <2>4
  <2>8. PICK r, q : r = amount % u /\ q = (amount % v) \div u
    OBVIOUS
  <2>9. r \in Nat /\ q \in Nat
    <3>1. amount % v \in Nat
      BY <2>5, QuotientNat
    <3> QED
      BY <2>5, <2>8, <3>1, QuotientNat
  <2>10. /\ SumOver(w, Fresh(m + 1)) = r + q * u
         /\ amount % v = q * u + r
    <3> HIDE DEF Fresh
    <3> QED
      BY <2>2, <2>3, <2>4, <2>6, <2>7, <2>8, Zenon
  <2>11. q * u \in Nat /\ r + q * u = q * u + r
    BY <2>5, <2>9
  <2> HIDE DEF Fresh
  <2> QED
    BY <2>4, <2>10, <2>11, Zenon
<1>9. Worth(Apex)
  <2>1. G = Nat
    <3> HIDE DEF G
    <3>1. G \in SUBSET Nat
      BY DEF G
    <3> QED
      BY <1>7, <1>8, <3>1, NatSetInduction
  <2>2. Apex \in G /\ Apex <= Apex
    BY <1>3, <2>1
  <2> HIDE DEF Worth
  <2> QED
    BY <2>2
<1>10. PICK u : u = Units[Apex]
  OBVIOUS
<1>11. u \in Nat \ {0}
  BY <1>3, <1>10
<1>12. amount = u * (amount \div u) + (amount % u)
       /\ amount \div u \in Nat /\ amount % u \in Nat
  <2>1. /\ amount = u * (amount \div u) + (amount % u)
        /\ amount \div u \in Nat /\ amount % u \in 0 .. u - 1
    BY <1>11, QuotientRemainder
  <2>2. 0 .. u - 1 \in SUBSET Nat
    BY <1>11
  <2> QED
    BY <2>1, <2>2, Zenon
<1>13. PICK q \in Nat, r \in Nat : q = amount \div u /\ r = amount % u
  BY <1>12
<1>14. SumOver(w, Fresh(Apex + 1)) = r + q * u
  <2>1. SumOver(w, Fresh(Apex + 1)) = SumOver(w, Fresh(Apex)) + counts[Apex] * Units[Apex]
    BY <1>3, <1>6
  <2> HIDE DEF Fresh
  <2> QED
    BY <1>1, <1>9, <1>10, <1>13, <2>1, Zenon DEF Worth
<1>15. amount = u * q + r
  BY <1>12, <1>13, Zenon
<1> HIDE DEF Fresh
<1>16. r + q * u = u * q + r
  BY <1>11
<1> QED
  BY <1>4, <1>14, <1>15, <1>16, Zenon

-----------------------------------------------------------------------------
(* What the steps do, in the terms the proofs use.                         *)

\* A union has at most as many elements as its parts.
LEMMA UnionAtMost ==
    ASSUME NEW S, NEW T, IsFiniteSet(S), IsFiniteSet(T)
    PROVE  Cardinality(S \cup T) <= Cardinality(S) + Cardinality(T)
<1>1. Cardinality(S \cup T) = Cardinality(S) + Cardinality(T) - Cardinality(S \cap T)
  BY FS_Union
<1>2. Cardinality(S) \in Nat /\ Cardinality(T) \in Nat /\ Cardinality(S \cap T) \in Nat
  BY FS_CardinalityType, FS_Intersection
<1> QED
  BY <1>1, <1>2

\* A bid: the cards that enter, what they count for and the new standing bid.
BidOutcome(p, a, ids, fresh, n) ==
    /\ \A c \in ids : owner[c] = p
    /\ \A c \in fresh : minted <= c /\ c < minted'
    /\ minted' \in Nat /\ minted' >= minted
    /\ \A c \in Cards : minted <= c /\ c < minted' => c \in fresh
    /\ Cardinality(escrow[a][p] \cup ids \cup fresh) <= MaxCardsPerBid
    /\ escrow' = [escrow EXCEPT ![a][p] = @ \cup ids \cup fresh]
    /\ owner' = Move(ids \cup fresh, House)
    /\ depositor' = [c \in Cards |-> IF c \in ids \cup fresh THEN <<a, p>>
                                     ELSE depositor[c]]
    /\ backing' \in [Cards -> Nat]
    /\ \A c \in Cards \ fresh : backing'[c] = backing[c]
    /\ houseEth' = houseEth
    /\ units' = [units EXCEPT ![a][p] = n]
    /\ n > auctions[a].highestUnits
    /\ n >= MinimumFrom(auctions[a])
    /\ auctions' = [auctions EXCEPT
                       ![a].highestUnits = n, ![a].highestBidder = p,
                       ![a].endTime = EndTimeAfterBid(auctions[a])]

\* A bid mints some fresh cards and counts for some number of units.
LEMMA BidEffect ==
    ASSUME TypeOK, AuctionsShaped,
           NEW p \in People, NEW a \in AuctionIds, NEW ids \in SUBSET Cards,
           NEW eth \in Amounts, NEW value \in Amounts, Bid(p, a, ids, eth, value)
    PROVE  \E fresh \in SUBSET Cards, n \in Nat : BidOutcome(p, a, ids, fresh, n)
<1> DEFINE k == CardCount(CardsFor(eth))
           fresh == minted .. minted + k - 1
           n == NewUnits(p, a, ids, eth)
<1>1. eth \in Nat /\ value \in Nat /\ MintFee \in Nat
  BY BoundsAssumption
<1>2. k \in Nat
  BY <1>1, CardCountNat
<1>3. fresh = FreshCards(CardsFor(eth)) /\ fresh \in SUBSET Cards
  BY DEF Bid, TakeBid, FreshCards
<1>4. minted \in Nat /\ minted' = minted + k
  BY DEF Bid, TakeBid, TypeOK
<1>5. n \in Nat
  <2>1. SumOver(backing, ids) \in Nat
    <3>1. IsFiniteSet(ids) /\ \A c \in ids : backing[c] \in Nat
      BY TokensAssumption, FS_Subset DEF TypeOK
    <3> QED
      BY <3>1, SumNat
  <2>2. units[a][p] \in Nat
    BY DEF TypeOK
  <2> QED
    BY <1>1, <2>1, <2>2 DEF NewUnits
<1>6. /\ n >= MinimumFrom(auctions[a])
      /\ n > auctions[a].highestUnits
  <2>1. n >= MinimumFrom(auctions[a])
    BY DEF Bid
  <2>2. /\ auctions[a].highestUnits \in Nat /\ auctions[a].minIncrementBps \in Nat
        /\ auctions[a].reserveUnits \in Nat
    BY DEF TypeOK, Auction
  <2>3. MinimumFrom(auctions[a]) \in Nat /\ MinimumFrom(auctions[a]) > auctions[a].highestUnits
    <3>1. PICK h \in Nat, b \in Nat : h = auctions[a].highestUnits
                                    /\ b = auctions[a].minIncrementBps
      BY <2>2
    <3>2. PICK z \in Nat : z = h * b
      OBVIOUS
    <3>3. AtLeastOne((z + 9999) \div 10000) \in Nat \ {0}
      <4>1. (z + 9999) \div 10000 \in Nat
        BY <3>2
      <4> QED
        BY <4>1 DEF AtLeastOne
    <3>4. HasBid(a) => MinimumFrom(auctions[a]) = h + AtLeastOne((z + 9999) \div 10000)
      BY <3>1, <3>2 DEF MinimumFrom, HasBid
    <3>5. ~HasBid(a) => MinimumFrom(auctions[a]) = AtLeastOne(auctions[a].reserveUnits)
      BY DEF MinimumFrom, HasBid
    <3>6. AtLeastOne(auctions[a].reserveUnits) \in Nat \ {0}
      BY <2>2 DEF AtLeastOne
    <3>7. ~HasBid(a) => h = 0
      BY <3>1 DEF AuctionsShaped
    <3> QED
      BY <3>1, <3>3, <3>4, <3>5, <3>6, <3>7
  <2> QED
    BY <1>5, <2>1, <2>2, <2>3
<1>7. Cardinality(escrow[a][p] \cup ids \cup fresh) <= MaxCardsPerBid
  <2>1. IsFiniteSet(Cards)
    BY TokensAssumption
  <2>2. /\ IsFiniteSet(escrow[a][p]) /\ IsFiniteSet(ids) /\ IsFiniteSet(fresh)
        /\ IsFiniteSet(escrow[a][p] \cup ids)
    <3>1. escrow[a][p] \in SUBSET Cards
      BY DEF TypeOK
    <3> HIDE DEF fresh
    <3>2. IsFiniteSet(escrow[a][p]) /\ IsFiniteSet(ids) /\ IsFiniteSet(fresh)
      BY <1>3, <2>1, <3>1, FS_Subset
    <3> QED
      BY <3>2, FS_Union
  <2>3. Cardinality(fresh) = k
    <3>1. PICK q \in Int : q = minted + k - 1
      BY <1>2, <1>4
    <3>2. Cardinality(minted .. q) = IF minted > q THEN 0 ELSE q - minted + 1
      <4>1. minted \in Int
        BY DEF TypeOK
      <4> HIDE DEF k, fresh
      <4> QED
        BY <4>1, FS_Interval
    <3>3. fresh = minted .. q
      BY <3>1
    <3> HIDE DEF k, fresh
    <3> QED
      BY <1>2, <1>4, <3>1, <3>2, <3>3
  <2>4. Cardinality(escrow[a][p] \cup ids \cup fresh)
            <= Cardinality(escrow[a][p]) + Cardinality(ids) + Cardinality(fresh)
    <3> HIDE DEF fresh
    <3>1. Cardinality(escrow[a][p] \cup ids) <= Cardinality(escrow[a][p]) + Cardinality(ids)
      BY <2>2, UnionAtMost
    <3>2. Cardinality(escrow[a][p] \cup ids \cup fresh)
              <= Cardinality(escrow[a][p] \cup ids) + Cardinality(fresh)
      BY <2>2, UnionAtMost
    <3>3. /\ Cardinality(escrow[a][p]) \in Nat /\ Cardinality(ids) \in Nat
          /\ Cardinality(fresh) \in Nat /\ Cardinality(escrow[a][p] \cup ids) \in Nat
          /\ Cardinality(escrow[a][p] \cup ids \cup fresh) \in Nat
      BY <2>2, FS_CardinalityType, FS_Union
    <3> QED
      BY <3>1, <3>2, <3>3
  <2>5. Cardinality(escrow[a][p]) + Cardinality(ids) + k <= MaxCardsPerBid
    BY DEF Bid, TakeBid, MayMintCards
  <2>6. /\ Cardinality(escrow[a][p]) \in Nat /\ Cardinality(ids) \in Nat
        /\ Cardinality(escrow[a][p] \cup ids \cup fresh) \in Nat
    BY <2>2, FS_CardinalityType, FS_Union
  <2> HIDE DEF k, fresh
  <2> QED
    BY <1>2, <2>3, <2>4, <2>5, <2>6, BoundsAssumption
<1>8. backing' \in [Cards -> Nat] /\ \A c \in Cards \ fresh : backing'[c] = backing[c]
  <2>1. \A c \in Cards : Units[FreshDenom(CardsFor(eth), c)] \in Nat
    BY FreshDenomInLadder, LadderAssumption
  <2> QED
    BY <1>3, <2>1 DEF Bid, TakeBid, TypeOK
<1>9. houseEth' = houseEth
  <2>1. houseEth' = houseEth + value - (IF eth = 0 THEN 0 ELSE eth + MintFee * k)
    BY DEF Bid, TakeBid
  <2>2. IF eth = 0 THEN value = 0 ELSE value = eth + MintFee * k
    BY DEF Bid, TakeBid, ExactPayment
  <2>3. houseEth \in Int
    BY DEF TypeOK
  <2> HIDE DEF k
  <2> QED
    BY <1>1, <2>1, <2>2, <2>3
<1>10. /\ \A c \in ids : owner[c] = p
       /\ escrow' = [escrow EXCEPT ![a][p] = @ \cup ids \cup fresh]
       /\ owner' = Move(ids \cup fresh, House)
       /\ depositor' = [c \in Cards |-> IF c \in ids \cup fresh THEN <<a, p>>
                                         ELSE depositor[c]]
       /\ units' = [units EXCEPT ![a][p] = n]
       /\ auctions' = [auctions EXCEPT
                          ![a].highestUnits = n, ![a].highestBidder = p,
                          ![a].endTime = EndTimeAfterBid(auctions[a])]
  BY <1>3 DEF Bid, TakeBid, MayTakeCards
<1>11. /\ \A c \in fresh : minted <= c /\ c < minted'
       /\ \A c \in Cards : minted <= c /\ c < minted' => c \in fresh
       /\ minted' \in Nat /\ minted' >= minted
  <2>1. \A c \in Cards : c \in Nat
    BY TokensAssumption, FS_CardinalityType
  <2> HIDE DEF k
  <2> QED
    BY <1>2, <1>4, <2>1
<1> HIDE DEF n, fresh
<1>12. BidOutcome(p, a, ids, fresh, n)
  BY <1>6, <1>7, <1>8, <1>9, <1>10, <1>11 DEF BidOutcome
<1> QED
  BY <1>3, <1>5, <1>12

-----------------------------------------------------------------------------
(* The invariant, conjunct by conjunct.                                    *)

LEMMA InitInv == Init => IInv
<1> SUFFICES ASSUME Init PROVE IInv
  OBVIOUS
<1>1. TypeOK
  <2>1. \A c \in Cards : Dealt.owner[c] \in People \cup {Nobody}
    BY TokensAssumption
  <2>2. owner \in [Tokens -> Holders]
    BY <2>1, TokensAssumption DEF Init, Tokens, Holders
  <2>3. auctions \in [AuctionIds -> Auction]
    BY DEF Init, Auction, NoAuction
  <2>4. 0 \in 0 .. MaxAuctions /\ 0 \in 0 .. MaxTime
    BY BoundsAssumption
  <2>5. \A a \in AuctionIds, p \in People : Cardinality(escrow[a][p]) <= MaxCardsPerBid
    BY FS_EmptySet, BoundsAssumption DEF Init
  <2>6. backing \in [Cards -> Nat] /\ minted \in Nat
    BY TokensAssumption DEF Init
  <2>7. /\ escrow \in [AuctionIds -> [People -> SUBSET Cards]]
        /\ units \in [AuctionIds -> [People -> Nat]]
        /\ depositor \in [Cards -> (AuctionIds \X People) \cup {NoDeposit}]
        /\ strays \subseteq Cards /\ houseEth \in Int
    BY DEF Init
  <2>8. /\ auctionCount \in 0 .. MaxAuctions /\ now \in 0 .. MaxTime
        /\ auctionIdByToken \in [Tokens -> 0 .. MaxAuctions]
    BY <2>4 DEF Init
  <2> QED
    BY <2>2, <2>3, <2>5, <2>6, <2>7, <2>8 DEF TypeOK
<1>2. Custody
  <2>1. EntriesMatchDeposits
    BY PeopleAssumption DEF Init, EntriesMatchDeposits, NoDeposit
  <2>2. IndexMatchesAuctions
    BY DEF Init, IndexMatchesAuctions, Exists, NoAuction, AuctionIds
  <2>3. HouseOwnsWhatItOwes
    BY DEF Init, HouseOwnsWhatItOwes, Deposited, Listed
  <2>4. NothingUnrecorded
    BY PeopleAssumption, TokensAssumption DEF Init, NothingUnrecorded, Tokens
  <2> QED
    BY <2>1, <2>2, <2>3, <2>4 DEF Custody, Init
<1>3. LeaderLeads
  BY DEF Init, LeaderLeads, HasBid, NoAuction
<1>4. AuctionsShaped
  BY DEF Init, AuctionsShaped, HasBid, NoAuction, AuctionIds
<1>5. FreshUnowned
  <2>1. \A c \in Cards : c >= minted => Dealt.owner[c] = Nobody
    BY TokensAssumption, FS_CardinalityType DEF Init
  <2>2. \A c \in Cards : owner[c] = Dealt.owner[c]
    BY TokensAssumption DEF Init, Tokens
  <2> QED
    BY <2>1, <2>2 DEF FreshUnowned
<1> QED
  BY <1>1, <1>2, <1>3, <1>4, <1>5 DEF IInv

\* Types are kept, and so is the bound on an entry.
LEMMA TypeStep ==
    ASSUME TypeOK, AuctionsShaped, [Next]_vars
    PROVE  TypeOK'
<1> USE DEF TypeOK
<1>1. ASSUME NEW p \in People, NEW t \in Tokens, NEW terms \in AuctionTerms,
             CreateAuction(p, t, terms)
      PROVE  TypeOK'
  <2>1. Listing(p, t, terms) \in Auction
    BY BoundsAssumption DEF Listing, NoAuction, Auction, Terms
  <2>2. auctionCount \in AuctionIds /\ auctionCount + 1 \in 0 .. MaxAuctions
    BY <1>1, BoundsAssumption DEF CreateAuction, AuctionIds
  <2>3. owner' \in [Tokens -> Holders]
    BY <1>1 DEF CreateAuction, LotMove, Move, Holders
  <2>4. auctions' \in [AuctionIds -> Auction]
    BY <1>1, <2>1, <2>2 DEF CreateAuction
  <2>5. auctionIdByToken' \in [Tokens -> 0 .. MaxAuctions]
    BY <1>1, <2>2 DEF CreateAuction
  <2>6. auctionCount' \in 0 .. MaxAuctions
    BY <1>1, <2>2 DEF CreateAuction
  <2> QED
    BY <1>1, <2>3, <2>4, <2>5, <2>6 DEF CreateAuction, escrowVars, historyVars
<1>2. ASSUME NEW p \in People, NEW a \in AuctionIds, CancelAuction(p, a)
      PROVE  TypeOK'
  <2>1. auctions' \in [AuctionIds -> Auction]
    BY <1>2 DEF CancelAuction, Auction
  <2> QED
    BY <1>2, <2>1 DEF CancelAuction, escrowVars, tokenVars, historyVars
<1>3. ASSUME NEW p \in People, NEW a \in AuctionIds, NEW terms \in AuctionTerms,
             SetStartTime(p, a, terms.startTime)
      PROVE  TypeOK'
  <2>1. terms.startTime \in Nat
    BY BoundsAssumption DEF Terms
  <2>2. auctions' \in [AuctionIds -> Auction]
    BY <1>3, <2>1 DEF SetStartTime, Auction
  <2> QED
    BY <1>3, <2>2 DEF SetStartTime, escrowVars, tokenVars, historyVars
<1>4. ASSUME NEW p \in People, NEW a \in AuctionIds, NEW ids \in SUBSET Cards,
             NEW eth \in Amounts, NEW value \in Amounts, Bid(p, a, ids, eth, value)
      PROVE  TypeOK'
  <2> HIDE DEF TypeOK
  <2>1. PICK fresh \in SUBSET Cards, n \in Nat : BidOutcome(p, a, ids, fresh, n)
    BY <1>4, BidEffect
  <2> USE DEF TypeOK, BidOutcome
  <2>2. PICK e \in Nat : e = EndTimeAfterBid(auctions[a])
    BY DEF EndTimeAfterBid, Auction
  <2>3. auctions' \in [AuctionIds -> Auction]
    <3>1. PICK r \in Auction : r = auctions[a]
      OBVIOUS
    <3>2. [r EXCEPT !.highestUnits = n, !.highestBidder = p, !.endTime = e] \in Auction
      BY DEF Auction
    <3>3. auctions' = [auctions EXCEPT ![a] =
                         [r EXCEPT !.highestUnits = n, !.highestBidder = p, !.endTime = e]]
      BY <2>1, <2>2, <3>1
    <3> QED
      BY <3>2, <3>3
  <2>4. escrow' \in [AuctionIds -> [People -> SUBSET Cards]]
    BY <2>1
  <2>5. \A b \in AuctionIds, q \in People : Cardinality(escrow'[b][q]) <= MaxCardsPerBid
    BY <2>1
  <2>6. owner' \in [Tokens -> Holders]
    BY <2>1 DEF Move, Holders
  <2>7. units' \in [AuctionIds -> [People -> Nat]]
    BY <2>1
  <2>8. depositor' \in [Cards -> (AuctionIds \X People) \cup {NoDeposit}]
    BY <2>1
  <2>9. UNCHANGED <<auctionCount, auctionIdByToken, now, strays>>
    BY <1>4 DEF Bid
  <2> QED
    BY <2>1, <2>3, <2>4, <2>5, <2>6, <2>7, <2>8, <2>9
<1>5. ASSUME NEW a \in AuctionIds, NEW p \in People, NEW q \in Holders, Release(a, p, q)
      PROVE  TypeOK'
  <2>1. escrow' \in [AuctionIds -> [People -> SUBSET Cards]]
    BY <1>5 DEF Release
  <2>2. \A b \in AuctionIds, r \in People : Cardinality(escrow'[b][r]) <= MaxCardsPerBid
    BY <1>5, FS_EmptySet, BoundsAssumption DEF Release
  <2>3. owner' \in [Tokens -> Holders]
    BY <1>5 DEF Release, Move
  <2>4. depositor' \in [Cards -> (AuctionIds \X People) \cup {NoDeposit}]
    BY <1>5 DEF Release
  <2>5. units' \in [AuctionIds -> [People -> Nat]]
    BY <1>5 DEF Release
  <2> QED
    BY <1>5, <2>1, <2>2, <2>3, <2>4, <2>5 DEF Release, houseVars
<1>6. ASSUME NEW p \in People, NEW a \in AuctionIds, Withdraw(p, a)
      PROVE  TypeOK'
  BY <1>5, <1>6 DEF Withdraw, Holders
<1>7. ASSUME NEW a \in AuctionIds, Settle(a)
      PROVE  TypeOK'
  <2>1. auctions' \in [AuctionIds -> Auction]
    BY <1>7 DEF Settle, Auction
  <2> QED
    BY <1>7, <2>1 DEF Settle, escrowVars, tokenVars, historyVars
<1>8. ASSUME NEW a \in AuctionIds, ClaimLot(a)
      PROVE  TypeOK'
  <2>0. /\ auctions' = [auctions EXCEPT ![a].lotClaimed = TRUE]
        /\ auctionIdByToken' = [auctionIdByToken EXCEPT ![auctions[a].lot] = 0]
    BY <1>8 DEF ClaimLot
  <2>1. auctions' \in [AuctionIds -> Auction]
    BY <2>0 DEF Auction
  <2>2. LotRecipient(a) \in Holders
    BY <1>8 DEF LotRecipient, HasBid, Auction, Holders
  <2>3. owner' \in [Tokens -> Holders]
    BY <1>8, <2>2 DEF ClaimLot, LotMove, Move
  <2>4. auctionIdByToken' \in [Tokens -> 0 .. MaxAuctions]
    <3>1. 0 \in 0 .. MaxAuctions
      BY BoundsAssumption
    <3> QED
      BY <2>0, <3>1
  <2> QED
    BY <1>8, <2>1, <2>3, <2>4 DEF ClaimLot, escrowVars, historyVars
<1>9. ASSUME NEW a \in AuctionIds, ClaimProceeds(a)
      PROVE  TypeOK'
  <2>1. auctions[a].highestBidder \in People /\ auctions[a].seller \in Holders
    BY <1>9 DEF ClaimProceeds, ProceedsDue, HasBid, Auction, Holders
  <2> QED
    BY <1>5, <1>9, <2>1 DEF ClaimProceeds
<1>10. ASSUME NEW c \in Cards, NEW h \in People \cup {Nobody}, NEW d \in Denoms \cup {-1},
              WalletChange(c, h, IF d = -1 THEN 0 ELSE Units[d])
       PROVE  TypeOK'
  <2>1. (IF d = -1 THEN 0 ELSE Units[d]) \in Nat
    BY LadderAssumption
  <2>2. backing' \in [Cards -> Nat]
    BY <1>10, <2>1 DEF WalletChange
  <2>3. owner' \in [Tokens -> Holders]
    BY <1>10 DEF WalletChange, Move, Holders
  <2> QED
    BY <1>10, <2>2, <2>3 DEF WalletChange, houseVars, escrowVars, historyVars
<1>11. ASSUME NEW c \in Cards, PlainPush(c)
       PROVE  TypeOK'
  <2>1. owner' \in [Tokens -> Holders]
    BY <1>11 DEF PlainPush, Move, Holders
  <2> QED
    BY <1>11, <2>1 DEF PlainPush, houseVars, escrowVars
<1>12. ASSUME NEW p \in People, NEW d \in Denoms, WalletMint(p, Units[d])
       PROVE  TypeOK'
  <2>1. backing' \in [Cards -> Nat]
    BY <1>12, LadderAssumption DEF WalletMint
  <2>2. owner' \in [Tokens -> Holders]
    BY <1>12 DEF WalletMint, Move, Holders
  <2>3. minted' \in Nat
    BY <1>12 DEF WalletMint
  <2> QED
    BY <1>12, <2>1, <2>2, <2>3 DEF WalletMint, houseVars, escrowVars, historyVars
<1>13. CASE Tick
  <2>1. now' \in 0 .. MaxTime
    BY <1>13, BoundsAssumption DEF Tick
  <2> QED
    BY <1>13, <2>1 DEF Tick, houseVars, escrowVars, tokenVars, historyVars
<1>14. CASE UNCHANGED vars
  BY <1>14 DEF vars, houseVars, escrowVars, tokenVars, historyVars
<1> HIDE DEF TypeOK
<1> QED
  BY <1>1, <1>2, <1>3, <1>4, <1>6, <1>7, <1>8, <1>9, <1>10, <1>11, <1>12, <1>13, <1>14
  DEF Next

-----------------------------------------------------------------------------
(* The kinds of step, for the invariants that tell no more of them apart.  *)

\* An existing auction is closed, or its start moved while it was open.
Amended(a) ==
    /\ Exists(a)
    /\ \E closed \in BOOLEAN, start \in Nat :
           /\ auctions[a].settled => closed /\ start = auctions[a].startTime
           /\ auctions' = [auctions EXCEPT ![a].settled = closed, ![a].startTime = start]
    /\ UNCHANGED <<auctionCount, auctionIdByToken, escrowVars, tokenVars, now,
                   historyVars>>

\* An entry goes back to its bidder, or to the seller it was won from.
Released(a, from, to) ==
    /\ Exists(a)
    /\ Release(a, from, to)
    /\ \/ to = from /\ from # auctions[a].highestBidder
       \/ to = auctions[a].seller /\ from = auctions[a].highestBidder
          /\ auctions[a].settled

\* A card outside the house changes hands or worth.
WalletStep(c, h) ==
    /\ owner[c] # House
    /\ owner' = Move({c}, h)
    /\ minted' \in Nat /\ minted' >= minted /\ c < minted'
    /\ \A x \in Cards \ {c} : backing'[x] = backing[x]
    /\ UNCHANGED <<houseVars, escrowVars, now, historyVars>>

LEMMA StepKinds ==
    ASSUME TypeOK, AuctionsShaped, FreshUnowned, Next
    PROVE  \/ \E p \in People, t \in Tokens, terms \in AuctionTerms :
                  CreateAuction(p, t, terms)
           \/ \E a \in AuctionIds : Amended(a)
           \/ \E p \in People, a \in AuctionIds, ids \in SUBSET Cards,
                 eth \in Amounts, value \in Amounts : Bid(p, a, ids, eth, value)
           \/ \E a \in AuctionIds, p \in People, q \in People : Released(a, p, q)
           \/ \E a \in AuctionIds : ClaimLot(a)
           \/ \E c \in Cards, h \in People \cup {Nobody} : WalletStep(c, h)
           \/ \E c \in Cards : PlainPush(c)
           \/ Tick
<1>1. ASSUME NEW p \in People, NEW a \in AuctionIds, CancelAuction(p, a)
      PROVE  Amended(a)
  <2>1. auctions[a].startTime \in Nat
    BY DEF TypeOK, Auction
  <2>2. auctions' = [auctions EXCEPT ![a].settled = TRUE,
                                     ![a].startTime = auctions[a].startTime]
    <3>1. auctions[a] \in Auction
      BY DEF TypeOK
    <3> QED
      BY <1>1, <3>1 DEF CancelAuction, Auction
  <2> QED
    BY <1>1, <2>1, <2>2 DEF CancelAuction, UnbidBySeller, Amended
<1>2. ASSUME NEW p \in People, NEW a \in AuctionIds, NEW terms \in AuctionTerms,
             SetStartTime(p, a, terms.startTime)
      PROVE  Amended(a)
  <2>1. terms.startTime \in Nat /\ auctions[a].settled = FALSE
    BY <1>2, BoundsAssumption DEF Terms, SetStartTime, UnbidBySeller, TypeOK, Auction
  <2>2. auctions' = [auctions EXCEPT ![a].settled = FALSE,
                                     ![a].startTime = terms.startTime]
    <3>1. auctions[a] \in Auction
      BY DEF TypeOK
    <3> QED
      BY <1>2, <2>1, <3>1 DEF SetStartTime, Auction
  <2> QED
    BY <1>2, <2>1, <2>2 DEF SetStartTime, UnbidBySeller, Amended
<1>3. ASSUME NEW a \in AuctionIds, Settle(a)
      PROVE  Amended(a)
  <2>1. auctions[a].startTime \in Nat
    BY DEF TypeOK, Auction
  <2>2. auctions' = [auctions EXCEPT ![a].settled = TRUE,
                                     ![a].startTime = auctions[a].startTime]
    <3>1. auctions[a] \in Auction
      BY DEF TypeOK
    <3> QED
      BY <1>3, <3>1 DEF Settle, Auction
  <2> QED
    BY <1>3, <2>1, <2>2 DEF Settle, Amended
<1>4. ASSUME NEW p \in People, NEW a \in AuctionIds, Withdraw(p, a)
      PROVE  Released(a, p, p)
  BY <1>4 DEF Withdraw, MayWithdraw, Released
<1>5. ASSUME NEW a \in AuctionIds, ClaimProceeds(a)
      PROVE  \E p \in People, q \in People : Released(a, p, q)
  <2>1. auctions[a].highestBidder \in People /\ auctions[a].seller \in People
    BY <1>5 DEF ClaimProceeds, ProceedsDue, Exists, HasBid, TypeOK, Auction
  <2> QED
    BY <1>5, <2>1 DEF ClaimProceeds, ProceedsDue, Released
<1>6. ASSUME NEW c \in Cards, NEW h \in People \cup {Nobody}, NEW v,
             WalletChange(c, h, v)
      PROVE  WalletStep(c, h)
  <2>1. owner[c] # House
    BY <1>6, PeopleAssumption DEF WalletChange
  <2>2. minted' \in Nat /\ minted' >= minted /\ c < minted'
    BY <1>6 DEF WalletChange, TypeOK
  <2> QED
    BY <1>6, <2>1, <2>2 DEF WalletChange, WalletStep, TypeOK
<1>7. ASSUME NEW p \in People, NEW v, WalletMint(p, v)
      PROVE  minted \in Cards /\ WalletStep(minted, p)
  <2>1. minted \in Cards /\ minted \in Nat
    BY <1>7, TokensAssumption DEF WalletMint, TypeOK
  <2>2. owner[minted] # House
    BY <2>1, PeopleAssumption DEF FreshUnowned
  <2>3. minted' \in Nat /\ minted' >= minted /\ minted < minted'
    BY <1>7, <2>1 DEF WalletMint
  <2> QED
    BY <1>7, <2>1, <2>2, <2>3 DEF WalletMint, WalletStep, TypeOK
<1> QED
  BY <1>1, <1>2, <1>3, <1>4, <1>5, <1>6, <1>7 DEF Next

\* A token that someone holds has been issued, and stays so.
LEMMA FreshStep ==
    ASSUME TypeOK, AuctionsShaped, FreshUnowned, [Next]_vars
    PROVE  FreshUnowned'
<1> USE DEF FreshUnowned
<1>0. \A c \in Cards : c \in Nat /\ c \in Tokens
  BY TokensAssumption, FS_CardinalityType DEF Tokens
<1>a. minted \in Nat
  BY DEF TypeOK
<1>1. ASSUME NEW p \in People, NEW t \in Tokens, NEW terms \in AuctionTerms,
             CreateAuction(p, t, terms)
      PROVE  FreshUnowned'
  <2>1. t \in Cards => owner[t] # Nobody
    BY <1>1, PeopleAssumption, TokensAssumption DEF CreateAuction, MayList
  <2> QED
    BY <1>0, <1>1, <2>1 DEF CreateAuction, LotMove, Move
<1>2. ASSUME NEW a \in AuctionIds, Amended(a)
      PROVE  FreshUnowned'
  BY <1>2 DEF Amended, tokenVars
<1>3. ASSUME NEW p \in People, NEW a \in AuctionIds, NEW ids \in SUBSET Cards,
             NEW eth \in Amounts, NEW value \in Amounts, Bid(p, a, ids, eth, value)
      PROVE  FreshUnowned'
  <2>1. PICK fresh \in SUBSET Cards, n \in Nat : BidOutcome(p, a, ids, fresh, n)
    BY <1>3, BidEffect
  <2>2. /\ minted' \in Nat /\ minted' >= minted
        /\ \A c \in fresh : c < minted'
        /\ \A c \in ids : owner[c] = p
        /\ owner' = Move(ids \cup fresh, House)
    BY <2>1 DEF BidOutcome
  <2>3. ASSUME NEW c \in Cards, c >= minted'
        PROVE  owner'[c] = Nobody
    <3>1. c \notin fresh /\ c >= minted
      BY <1>0, <1>a, <2>2, <2>3
    <3>2. c \notin ids
      BY <2>2, <3>1, PeopleAssumption
    <3> QED
      BY <1>0, <2>2, <3>1, <3>2 DEF Move
  <2> QED
    BY <2>3
<1>4. ASSUME NEW a \in AuctionIds, NEW p \in People, NEW q \in People, Released(a, p, q)
      PROVE  FreshUnowned'
  <2>1. /\ \A c \in escrow[a][p] : owner[c] = House
        /\ owner' = Move(escrow[a][p], q) /\ minted' = minted
    BY <1>4 DEF Released, Release
  <2> QED
    BY <1>0, <2>1, PeopleAssumption DEF Move
<1>5. ASSUME NEW a \in AuctionIds, ClaimLot(a)
      PROVE  FreshUnowned'
  <2>1. auctions[a].lot \in Cards => owner[auctions[a].lot] = House
    BY <1>5, TokensAssumption DEF ClaimLot
  <2>2. minted' = minted /\ owner' = LotMove(auctions[a].lot, LotRecipient(a))
    BY <1>5 DEF ClaimLot
  <2> QED
    BY <1>0, <2>1, <2>2, PeopleAssumption DEF LotMove, Move
<1>6. ASSUME NEW c \in Cards, NEW h \in People \cup {Nobody}, WalletStep(c, h)
      PROVE  FreshUnowned'
  <2>1. minted' \in Nat /\ minted' >= minted /\ c < minted' /\ owner' = Move({c}, h)
    BY <1>6 DEF WalletStep
  <2> QED
    BY <1>0, <1>a, <2>1 DEF Move
<1>7. ASSUME NEW c \in Cards, PlainPush(c)
      PROVE  FreshUnowned'
  <2>1. owner[c] # Nobody /\ owner' = Move({c}, House) /\ minted' = minted
    BY <1>7, PeopleAssumption DEF PlainPush
  <2> QED
    BY <1>0, <2>1 DEF Move
<1>8. CASE Tick
  BY <1>8 DEF Tick, tokenVars
<1>9. CASE UNCHANGED vars
  BY <1>9 DEF vars, tokenVars
<1> HIDE DEF FreshUnowned
<1> QED
  BY <1>1, <1>2, <1>3, <1>4, <1>5, <1>6, <1>7, <1>8, <1>9, StepKinds

\* Auctions are created in order, and a bid always stands on cards.
LEMMA ShapedStep ==
    ASSUME TypeOK, AuctionsShaped, FreshUnowned, [Next]_vars
    PROVE  AuctionsShaped'
<1> USE DEF AuctionsShaped
<1>0. AuctionIds \subseteq Nat /\ auctionCount \in Nat
  BY BoundsAssumption DEF AuctionIds, TypeOK
<1>1. ASSUME NEW p \in People, NEW t \in Tokens, NEW terms \in AuctionTerms,
             CreateAuction(p, t, terms)
      PROVE  AuctionsShaped'
  <2>1. /\ auctions' = [auctions EXCEPT ![auctionCount] = Listing(p, t, terms)]
        /\ auctionCount' = auctionCount + 1 /\ auctionCount < MaxAuctions
        /\ UNCHANGED <<units, escrow>>
    BY <1>1 DEF CreateAuction, escrowVars
  <2>2. auctionCount \in AuctionIds
    BY <1>0, <2>1, BoundsAssumption DEF AuctionIds
  <2>3. auctions'[auctionCount] = Listing(p, t, terms)
    BY <2>1, <2>2 DEF TypeOK
  <2>4. /\ Listing(p, t, terms).seller = p /\ Listing(p, t, terms).lot = t
        /\ Listing(p, t, terms).highestBidder = Nobody
        /\ Listing(p, t, terms).highestUnits = 0
        /\ Listing(p, t, terms).extensionWindow <= Listing(p, t, terms).duration
        /\ Listing(p, t, terms).lotClaimed = FALSE
    BY <1>1 DEF CreateAuction, Listing, NoAuction
  <2>5. \A q \in People : units[auctionCount][q] = 0
    BY <1>0, <2>2 DEF HasBid, NoAuction
  <2>6. \A b \in AuctionIds \ {auctionCount} : auctions'[b] = auctions[b]
    BY <2>1 DEF TypeOK
  <2>7. ASSUME NEW b \in AuctionIds, b # auctionCount
        PROVE  /\ b >= auctionCount' => auctions'[b] = NoAuction
               /\ b < auctionCount' => Exists(b)' /\ auctions'[b].lot \in Tokens
    BY <1>0, <2>1, <2>6, <2>7 DEF Exists
  <2> QED
    <3>1. ASSUME NEW b \in AuctionIds, b # auctionCount
          PROVE  /\ HasBid(b)' => auctions'[b].highestUnits >= AtLeastOne(auctions'[b].reserveUnits)
                 /\ ~HasBid(b)' => /\ auctions'[b].highestUnits = 0
                                   /\ \A q \in People : units'[b][q] = 0
                 /\ auctions'[b].extensionWindow <= auctions'[b].duration
                 /\ auctions'[b].lotClaimed => auctions'[b].settled
                 /\ \A q \in People : escrow'[b][q] # {} => units'[b][q] > 0
      BY <2>1, <2>6, <3>1 DEF HasBid
    <3>2. ASSUME NEW b \in AuctionIds, b = auctionCount
          PROVE  /\ ~(b >= auctionCount')
                 /\ auctions'[b].seller # Nobody /\ auctions'[b].lot \in Tokens
                 /\ auctions'[b].highestBidder = Nobody
                 /\ auctions'[b].highestUnits = 0
                 /\ \A q \in People : units'[b][q] = 0
                 /\ auctions'[b].extensionWindow <= auctions'[b].duration
                 /\ ~auctions'[b].lotClaimed
                 /\ \A q \in People : escrow'[b][q] # {} => units'[b][q] > 0
      BY <1>0, <2>1, <2>2, <2>3, <2>4, <2>5, <3>2, PeopleAssumption
    <3> QED
      BY <2>7, <3>1, <3>2 DEF Exists, HasBid
<1>2. ASSUME NEW a \in AuctionIds, Amended(a)
      PROVE  AuctionsShaped'
  <2>1. /\ Exists(a) /\ UNCHANGED <<units, escrow, auctionCount>>
        /\ \E closed \in BOOLEAN, start \in Nat :
             /\ auctions[a].settled => closed
             /\ auctions' = [auctions EXCEPT ![a].settled = closed, ![a].startTime = start]
    BY <1>2 DEF Amended, escrowVars
  <2>2. \A b \in AuctionIds :
            /\ b # a => auctions'[b] = auctions[b]
            /\ auctions'[b].seller = auctions[b].seller
            /\ auctions'[b].lot = auctions[b].lot
            /\ auctions'[b].highestBidder = auctions[b].highestBidder
            /\ auctions'[b].highestUnits = auctions[b].highestUnits
            /\ auctions'[b].reserveUnits = auctions[b].reserveUnits
            /\ auctions'[b].extensionWindow = auctions[b].extensionWindow
            /\ auctions'[b].duration = auctions[b].duration
            /\ auctions'[b].lotClaimed => auctions'[b].settled
    <3>1. auctions \in [AuctionIds -> Auction]
      BY DEF TypeOK
    <3> QED
      BY <2>1, <3>1 DEF Auction
  <2>3. ~(a >= auctionCount)
    BY <2>1 DEF Exists, NoAuction
  <2>4. ASSUME NEW b \in AuctionIds
        PROVE  /\ b >= auctionCount' => auctions'[b] = NoAuction
               /\ b < auctionCount' => auctions'[b].seller # Nobody /\ auctions'[b].lot \in Tokens
    BY <2>1, <2>2, <2>3, <2>4 DEF Exists
  <2>5. ASSUME NEW b \in AuctionIds
        PROVE  /\ auctions'[b].highestBidder = Nobody =>
                      /\ auctions'[b].highestUnits = 0
                      /\ \A q \in People : units'[b][q] = 0
               /\ auctions'[b].highestBidder # Nobody =>
                      auctions'[b].highestUnits >= AtLeastOne(auctions'[b].reserveUnits)
    <3>1. /\ auctions[b].highestBidder = Nobody =>
                 /\ auctions[b].highestUnits = 0
                 /\ \A q \in People : units[b][q] = 0
          /\ auctions[b].highestBidder # Nobody =>
                 auctions[b].highestUnits >= AtLeastOne(auctions[b].reserveUnits)
      BY DEF HasBid
    <3>2. /\ auctions'[b].highestBidder = auctions[b].highestBidder
          /\ auctions'[b].highestUnits = auctions[b].highestUnits
          /\ auctions'[b].reserveUnits = auctions[b].reserveUnits
          /\ units' = units
      BY <2>1, <2>2
    <3> HIDE DEF AuctionsShaped
    <3> QED
      BY <3>1, <3>2
  <2>6. ASSUME NEW b \in AuctionIds
        PROVE  /\ auctions'[b].extensionWindow <= auctions'[b].duration
               /\ auctions'[b].lotClaimed => auctions'[b].settled
               /\ \A q \in People : escrow'[b][q] # {} => units'[b][q] > 0
    BY <2>1, <2>2, <2>6
  <2> QED
    BY <2>4, <2>5, <2>6 DEF Exists, HasBid
<1>3. ASSUME NEW p \in People, NEW a \in AuctionIds, NEW ids \in SUBSET Cards,
             NEW eth \in Amounts, NEW value \in Amounts, Bid(p, a, ids, eth, value)
      PROVE  AuctionsShaped'
  <2>1. PICK fresh \in SUBSET Cards, n \in Nat : BidOutcome(p, a, ids, fresh, n)
    BY <1>3, BidEffect
  <2>2. Exists(a) /\ UNCHANGED auctionCount
    BY <1>3 DEF Bid
  <2>3. n > 0
    BY <2>1 DEF BidOutcome, TypeOK, Auction
  <2>4. /\ \A b \in AuctionIds \ {a} : /\ auctions'[b] = auctions[b]
                                      /\ units'[b] = units[b]
                                      /\ escrow'[b] = escrow[b]
        /\ auctions'[a].seller = auctions[a].seller
        /\ auctions'[a].lot = auctions[a].lot
        /\ auctions'[a].highestBidder = p
        /\ auctions'[a].highestUnits = n
        /\ auctions'[a].reserveUnits = auctions[a].reserveUnits
        /\ auctions'[a].extensionWindow = auctions[a].extensionWindow
        /\ auctions'[a].duration = auctions[a].duration
        /\ auctions'[a].lotClaimed = auctions[a].lotClaimed
        /\ auctions'[a].settled = auctions[a].settled
    BY <2>1 DEF BidOutcome, TypeOK, Auction
  <2>7. n >= AtLeastOne(auctions[a].reserveUnits)
    <3>1. HasBid(a) => /\ n > auctions[a].highestUnits
                       /\ auctions[a].highestUnits >= AtLeastOne(auctions[a].reserveUnits)
      BY <2>1 DEF BidOutcome
    <3>2. ~HasBid(a) => n >= AtLeastOne(auctions[a].reserveUnits)
      BY <2>1 DEF BidOutcome, MinimumFrom, HasBid
    <3>3. auctions[a].highestUnits \in Nat /\ AtLeastOne(auctions[a].reserveUnits) \in Nat
      BY DEF AtLeastOne, TypeOK, Auction
    <3> QED
      BY <3>1, <3>2, <3>3
  <2>5. \A q \in People : escrow'[a][q] # {} => units'[a][q] > 0
    BY <2>1, <2>3 DEF BidOutcome, TypeOK
  <2>6. ~(a >= auctionCount)
    BY <2>2 DEF Exists, NoAuction
  <2> QED
    BY <2>2, <2>4, <2>5, <2>6, <2>7, PeopleAssumption DEF Exists, HasBid
<1>4. ASSUME NEW a \in AuctionIds, NEW p \in People, NEW q \in People, Released(a, p, q)
      PROVE  AuctionsShaped'
  <2>1. /\ UNCHANGED <<auctionCount, auctions>>
        /\ escrow' = [escrow EXCEPT ![a][p] = {}]
        /\ units' = [units EXCEPT ![a][p] = 0]
    BY <1>4 DEF Released, Release, houseVars
  <2>2. \A b \in AuctionIds, r \in People :
            \/ units'[b][r] = units[b][r] /\ escrow'[b][r] = escrow[b][r]
            \/ units'[b][r] = 0 /\ escrow'[b][r] = {}
    BY <2>1 DEF TypeOK
  <2> QED
    BY <2>1, <2>2 DEF Exists, HasBid
<1>5. ASSUME NEW a \in AuctionIds, ClaimLot(a)
      PROVE  AuctionsShaped'
  <2>1. /\ Exists(a) /\ UNCHANGED <<units, escrow, auctionCount>>
        /\ auctions' = [auctions EXCEPT ![a].lotClaimed = TRUE]
        /\ auctions[a].settled
    BY <1>5 DEF ClaimLot, escrowVars
  <2>2. \A b \in AuctionIds :
            /\ b # a => auctions'[b] = auctions[b]
            /\ auctions'[b].seller = auctions[b].seller
            /\ auctions'[b].lot = auctions[b].lot
            /\ auctions'[b].highestBidder = auctions[b].highestBidder
            /\ auctions'[b].highestUnits = auctions[b].highestUnits
            /\ auctions'[b].reserveUnits = auctions[b].reserveUnits
            /\ auctions'[b].extensionWindow = auctions[b].extensionWindow
            /\ auctions'[b].duration = auctions[b].duration
            /\ auctions'[b].lotClaimed => auctions'[b].settled
    <3>1. auctions \in [AuctionIds -> Auction]
      BY DEF TypeOK
    <3> QED
      BY <2>1, <3>1 DEF Auction
  <2>3. ~(a >= auctionCount)
    BY <2>1 DEF Exists, NoAuction
  <2> QED
    BY <2>1, <2>2, <2>3 DEF Exists, HasBid
<1>6. ASSUME UNCHANGED <<auctions, auctionCount, units, escrow>>
      PROVE  AuctionsShaped'
  BY <1>6 DEF Exists, HasBid
<1>7. ASSUME NEW c \in Cards, NEW h \in People \cup {Nobody}, WalletStep(c, h)
      PROVE  AuctionsShaped'
  BY <1>6, <1>7 DEF WalletStep, houseVars, escrowVars
<1>8. ASSUME NEW c \in Cards, PlainPush(c)
      PROVE  AuctionsShaped'
  BY <1>6, <1>8 DEF PlainPush, houseVars, escrowVars
<1>9. CASE Tick
  BY <1>6, <1>9 DEF Tick, houseVars, escrowVars
<1>10. CASE UNCHANGED vars
  BY <1>6, <1>10 DEF vars, houseVars, escrowVars
<1> HIDE DEF AuctionsShaped
<1> QED
  BY <1>1, <1>2, <1>3, <1>4, <1>5, <1>7, <1>8, <1>9, <1>10, StepKinds

\* The leader's entry is the standing bid, and every other is below it.
LEMMA LeaderStep ==
    ASSUME TypeOK, AuctionsShaped, FreshUnowned, LeaderLeads, [Next]_vars
    PROVE  LeaderLeads'
<1> USE DEF LeaderLeads
<1>1. ASSUME NEW p \in People, NEW t \in Tokens, NEW terms \in AuctionTerms,
             CreateAuction(p, t, terms)
      PROVE  LeaderLeads'
  <2>1. /\ \A b \in AuctionIds : auctions'[b] = auctions[b]
                               \/ auctions'[b] = Listing(p, t, terms)
        /\ units' = units
    BY <1>1 DEF CreateAuction, escrowVars, TypeOK
  <2>2. Listing(p, t, terms).highestBidder = Nobody
    BY DEF Listing, NoAuction
  <2> QED
    BY <2>1, <2>2 DEF HasBid
<1>2. ASSUME NEW a \in AuctionIds, Amended(a)
      PROVE  LeaderLeads'
  <2>1. /\ units' = units
        /\ \E closed \in BOOLEAN, start \in Nat :
             /\ auctions[a].settled => closed
             /\ auctions' = [auctions EXCEPT ![a].settled = closed, ![a].startTime = start]
    BY <1>2 DEF Amended, escrowVars
  <2>2. \A b \in AuctionIds :
            /\ auctions'[b].highestBidder = auctions[b].highestBidder
            /\ auctions'[b].highestUnits = auctions[b].highestUnits
            /\ auctions[b].settled => auctions'[b].settled
    BY <2>1 DEF TypeOK, Auction
  <2> QED
    BY <2>1, <2>2 DEF HasBid
<1>3. ASSUME NEW p \in People, NEW a \in AuctionIds, NEW ids \in SUBSET Cards,
             NEW eth \in Amounts, NEW value \in Amounts, Bid(p, a, ids, eth, value)
      PROVE  LeaderLeads'
  <2>1. PICK fresh \in SUBSET Cards, n \in Nat : BidOutcome(p, a, ids, fresh, n)
    BY <1>3, BidEffect
  <2>2. /\ units' = [units EXCEPT ![a][p] = n]
        /\ n > auctions[a].highestUnits /\ auctions[a].highestUnits \in Nat
        /\ auctions'[a].highestBidder = p /\ auctions'[a].highestUnits = n
        /\ \A b \in AuctionIds \ {a} : auctions'[b] = auctions[b]
    BY <2>1 DEF BidOutcome, TypeOK, Auction
  <2>3. ~auctions[a].settled
    BY <1>3 DEF Bid
  <2>4. \A q \in People : units[a][q] \in Nat /\ units[a][q] <= auctions[a].highestUnits
    <3>1. \A q \in People : units[a][q] \in Nat
      BY DEF TypeOK
    <3>2. CASE HasBid(a)
      BY <2>2, <2>3, <3>1, <3>2
    <3>3. CASE ~HasBid(a)
      BY <2>2, <3>1, <3>3 DEF AuctionsShaped
    <3> QED
      BY <3>1, <3>2, <3>3
  <2>5. units'[a][p] = n /\ \A q \in People \ {p} : units'[a][q] < n
    BY <2>2, <2>4 DEF TypeOK
  <2>6. \A b \in AuctionIds \ {a} : units'[b] = units[b]
    BY <2>2 DEF TypeOK
  <2> QED
    BY <2>2, <2>5, <2>6 DEF HasBid
<1>4. ASSUME NEW a \in AuctionIds, NEW p \in People, NEW q \in People, Released(a, p, q)
      PROVE  LeaderLeads'
  <2>1. /\ auctions' = auctions
        /\ units' = [units EXCEPT ![a][p] = 0]
        /\ p # auctions[a].highestBidder \/ auctions[a].settled
    BY <1>4 DEF Released, Release, houseVars
  <2>2. ASSUME NEW b \in AuctionIds, HasBid(b)
        PROVE  /\ \/ units'[b][auctions[b].highestBidder] = auctions[b].highestUnits
                  \/ auctions[b].settled /\ units'[b][auctions[b].highestBidder] = 0
               /\ \A r \in People \ {auctions[b].highestBidder} :
                      units'[b][r] < auctions[b].highestUnits
    <3>1. auctions[b].highestBidder \in People
      BY <2>2 DEF HasBid, TypeOK, Auction
    <3>2. \A r \in People : units[b][r] \in Nat /\ auctions[b].highestUnits \in Nat
      BY DEF TypeOK, Auction
    <3>3. \A r \in People : units'[b][r] = IF b = a /\ r = p THEN 0 ELSE units[b][r]
      BY <2>1 DEF TypeOK
    <3> QED
      BY <2>1, <2>2, <3>1, <3>2, <3>3
  <2> QED
    BY <2>1, <2>2 DEF HasBid
<1>5. ASSUME NEW a \in AuctionIds, ClaimLot(a)
      PROVE  LeaderLeads'
  <2>1. units' = units /\ auctions' = [auctions EXCEPT ![a].lotClaimed = TRUE]
    BY <1>5 DEF ClaimLot, escrowVars
  <2>2. \A b \in AuctionIds :
            /\ auctions'[b].highestBidder = auctions[b].highestBidder
            /\ auctions'[b].highestUnits = auctions[b].highestUnits
            /\ auctions'[b].settled = auctions[b].settled
    BY <2>1 DEF TypeOK, Auction
  <2> QED
    BY <2>1, <2>2 DEF HasBid
<1>6. ASSUME UNCHANGED <<auctions, units>>
      PROVE  LeaderLeads'
  BY <1>6 DEF HasBid
<1>7. ASSUME NEW c \in Cards, NEW h \in People \cup {Nobody}, WalletStep(c, h)
      PROVE  LeaderLeads'
  BY <1>6, <1>7 DEF WalletStep, houseVars, escrowVars
<1>8. ASSUME NEW c \in Cards, PlainPush(c)
      PROVE  LeaderLeads'
  BY <1>6, <1>8 DEF PlainPush, houseVars, escrowVars
<1>9. CASE Tick
  BY <1>6, <1>9 DEF Tick, houseVars, escrowVars
<1>10. CASE UNCHANGED vars
  BY <1>6, <1>10 DEF vars, houseVars, escrowVars
<1> HIDE DEF LeaderLeads
<1> QED
  BY <1>1, <1>2, <1>3, <1>4, <1>5, <1>7, <1>8, <1>9, <1>10, StepKinds

\* Custody survives every kind of step.
LEMMA CustodyStep ==
    ASSUME TypeOK, AuctionsShaped, FreshUnowned, Custody, [Next]_vars
    PROVE  Custody'
<1>0. /\ EntriesMatchDeposits /\ IndexMatchesAuctions /\ HouseOwnsWhatItOwes
      /\ NothingUnrecorded /\ houseEth = 0
  BY DEF Custody
<1>a. /\ Cards \subseteq Tokens /\ \A c \in Cards : c \notin UntruthfulLots /\ c \in Nat
      /\ \A p \in People : p # House /\ p # Nobody
      /\ House # Nobody /\ AuctionIds \subseteq Nat
      /\ \A b \in AuctionIds, p \in People : <<b, p>> # NoDeposit
  BY TokensAssumption, PeopleAssumption, FS_CardinalityType
  DEF Tokens, NoDeposit, AuctionIds
<1>b. /\ auctionIdByToken \in [Tokens -> Nat] /\ strays \subseteq Cards
      /\ minted \in Nat /\ auctionCount \in Nat
  BY BoundsAssumption DEF TypeOK
<1>1. ASSUME NEW p \in People, NEW t \in Tokens, NEW terms \in AuctionTerms,
             CreateAuction(p, t, terms)
      PROVE  Custody'
  <2>1. /\ auctionIdByToken[t] = 0
        /\ t \in UntruthfulLots \/ owner[t] \in People
        /\ auctions' = [auctions EXCEPT ![auctionCount] = Listing(p, t, terms)]
        /\ auctionIdByToken' = [auctionIdByToken EXCEPT ![t] = auctionCount + 1]
        /\ owner' = LotMove(t, House)
        /\ UNCHANGED <<escrow, houseEth, depositor, strays>>
    BY <1>1 DEF CreateAuction, Unlisted, MayList, escrowVars, historyVars
  <2>2. auctionCount \in AuctionIds
    BY <1>1, <1>b, BoundsAssumption DEF CreateAuction, AuctionIds
  <2>3. ~Exists(auctionCount)
    BY <1>b, <2>2 DEF AuctionsShaped, Exists, NoAuction
  <2>4. auctions'[auctionCount].seller # Nobody /\ auctions'[auctionCount].lot = t
        /\ ~auctions'[auctionCount].lotClaimed
    <3>1. auctions'[auctionCount] = Listing(p, t, terms)
      BY <2>1, <2>2 DEF TypeOK
    <3>2. /\ Listing(p, t, terms).seller = p /\ Listing(p, t, terms).lot = t
          /\ ~Listing(p, t, terms).lotClaimed
      BY DEF Listing, NoAuction
    <3>3. p # Nobody
      BY <1>a
    <3> QED
      BY <3>1, <3>2, <3>3
  <2>5. /\ auctionIdByToken'[t] = auctionCount + 1
        /\ \A u \in Tokens \ {t} : auctionIdByToken'[u] = auctionIdByToken[u]
        /\ \A b \in AuctionIds \ {auctionCount} : auctions'[b] = auctions[b]
    BY <2>1 DEF TypeOK
  <2>6. IndexMatchesAuctions'
    <3>1. \A b \in AuctionIds : ~(Exists(b) /\ auctions[b].lot = t /\ ~auctions[b].lotClaimed)
      BY <1>0, <1>a, <2>1 DEF IndexMatchesAuctions
    <3>2. ASSUME NEW u \in Tokens, NEW b \in AuctionIds
          PROVE  auctionIdByToken'[u] = b + 1 <=>
                   Exists(b)' /\ auctions'[b].lot = u /\ ~auctions'[b].lotClaimed
      <4>1. CASE b = auctionCount /\ u = t
        BY <2>4, <2>5, <4>1 DEF Exists
      <4>2. CASE b = auctionCount /\ u # t
        BY <1>0, <2>3, <2>4, <2>5, <4>2 DEF IndexMatchesAuctions
      <4>3. CASE b # auctionCount /\ u = t
        BY <1>a, <1>b, <2>5, <3>1, <4>3 DEF Exists
      <4>4. CASE b # auctionCount /\ u # t
        BY <1>0, <2>5, <4>4 DEF IndexMatchesAuctions, Exists
      <4> QED
        BY <4>1, <4>2, <4>3, <4>4
    <3> QED
      BY <3>2 DEF IndexMatchesAuctions
  <2>7. EntriesMatchDeposits'
    BY <1>0, <2>1 DEF EntriesMatchDeposits
  <2>8. \A u \in Tokens : owner'[u] = IF u = t /\ t \notin UntruthfulLots THEN House
                                     ELSE owner[u]
    BY <2>1 DEF LotMove, Move, TypeOK
  <2>9. t \in Cards => ~Deposited(t) /\ t \notin strays
    BY <1>0, <1>a, <2>1 DEF HouseOwnsWhatItOwes
  <2>10. t \notin strays
    BY <1>b, <2>9
  <2>11. HouseOwnsWhatItOwes'
    <3>1. /\ \A u \in Tokens \ {t} : Listed(u)' <=> Listed(u)
          /\ \A c \in Cards : Deposited(c)' <=> Deposited(c)
      BY <2>1, <2>5 DEF Listed, Deposited
    <3>2. \A c \in Cards : Deposited(c)' => owner'[c] = House /\ ~Listed(c)' /\ c \notin strays'
      BY <1>0, <1>a, <2>1, <2>8, <2>9, <3>1 DEF HouseOwnsWhatItOwes
    <3>3. \A u \in Tokens \ UntruthfulLots :
              Listed(u)' => owner'[u] = House /\ u \notin strays'
      BY <1>0, <2>1, <2>8, <2>10, <3>1 DEF HouseOwnsWhatItOwes
    <3>4. \A c \in strays' : owner'[c] = House
      BY <1>0, <1>a, <1>b, <2>1, <2>8 DEF HouseOwnsWhatItOwes
    <3> QED
      BY <3>2, <3>3, <3>4 DEF HouseOwnsWhatItOwes
  <2>12. NothingUnrecorded'
    BY <1>0, <1>b, <2>1, <2>5, <2>8 DEF NothingUnrecorded, Deposited, Listed
  <2> QED
    BY <1>0, <2>1, <2>6, <2>7, <2>11, <2>12 DEF Custody
<1>2. ASSUME NEW a \in AuctionIds, Amended(a)
      PROVE  Custody'
  <2>1. /\ UNCHANGED <<auctionIdByToken, escrow, houseEth, owner, depositor, strays>>
        /\ \E closed \in BOOLEAN, start \in Nat :
             auctions' = [auctions EXCEPT ![a].settled = closed, ![a].startTime = start]
    BY <1>2 DEF Amended, escrowVars, tokenVars, historyVars
  <2>2. \A b \in AuctionIds :
            /\ auctions'[b].seller = auctions[b].seller
            /\ auctions'[b].lot = auctions[b].lot
            /\ auctions'[b].lotClaimed = auctions[b].lotClaimed
    BY <2>1 DEF TypeOK, Auction
  <2>3. IndexMatchesAuctions'
    <3>1. \A b \in AuctionIds : Exists(b)' <=> Exists(b)
      BY <2>2 DEF Exists
    <3> QED
      <4>1. ASSUME NEW u \in Tokens, NEW b \in AuctionIds
            PROVE  auctionIdByToken'[u] = b + 1 <=>
                     Exists(b)' /\ auctions'[b].lot = u /\ ~auctions'[b].lotClaimed
        <5>1. auctionIdByToken[u] = b + 1 <=>
                Exists(b) /\ auctions[b].lot = u /\ ~auctions[b].lotClaimed
          BY <1>0 DEF IndexMatchesAuctions
        <5>2. auctionIdByToken' = auctionIdByToken
          BY <2>1
        <5>3. auctions'[b].lot = auctions[b].lot /\ auctions'[b].lotClaimed = auctions[b].lotClaimed
          BY <2>2
        <5> QED
          BY <3>1, <5>1, <5>2, <5>3
      <4> QED
        BY <4>1 DEF IndexMatchesAuctions
  <2> QED
    BY <1>0, <2>1, <2>3 DEF Custody, EntriesMatchDeposits, HouseOwnsWhatItOwes,
       NothingUnrecorded, Deposited, Listed
<1>3. ASSUME NEW p \in People, NEW a \in AuctionIds, NEW ids \in SUBSET Cards,
             NEW eth \in Amounts, NEW value \in Amounts, Bid(p, a, ids, eth, value)
      PROVE  Custody'
  <2>1. PICK fresh \in SUBSET Cards, n \in Nat : BidOutcome(p, a, ids, fresh, n)
    BY <1>3, BidEffect
  <2> DEFINE In == ids \cup fresh
  <2>2. /\ houseEth' = houseEth /\ auctionIdByToken' = auctionIdByToken /\ strays' = strays
        /\ escrow' = [escrow EXCEPT ![a][p] = @ \cup In]
        /\ owner' = Move(In, House)
        /\ depositor' = [c \in Cards |-> IF c \in In THEN <<a, p>> ELSE depositor[c]]
    BY <1>3, <2>1 DEF BidOutcome, Bid
  <2>3. \A b \in AuctionIds :
            /\ auctions'[b].seller = auctions[b].seller
            /\ auctions'[b].lot = auctions[b].lot
            /\ auctions'[b].lotClaimed = auctions[b].lotClaimed
    BY <2>1 DEF BidOutcome, TypeOK, Auction
  <2>4. \A c \in In : owner[c] # House
    BY <1>a, <1>b, <2>1 DEF BidOutcome, FreshUnowned
  <2>5. \A c \in In : ~Deposited(c) /\ ~Listed(c) /\ c \notin strays
    BY <1>0, <1>a, <2>4 DEF HouseOwnsWhatItOwes
  <2>6. \A t \in Tokens : owner'[t] = IF t \in In THEN House ELSE owner[t]
    BY <2>2 DEF Move
  <2>7. In \subseteq Cards
    OBVIOUS
  <2>8. \A b \in AuctionIds, q \in People :
            escrow'[b][q] = IF b = a /\ q = p THEN escrow[b][q] \cup In ELSE escrow[b][q]
    BY <2>2 DEF TypeOK
  <2> HIDE DEF In
  <2>9. EntriesMatchDeposits'
    BY <1>0, <1>a, <2>2, <2>5, <2>8 DEF EntriesMatchDeposits, Deposited
  <2>10. IndexMatchesAuctions'
    BY <1>0, <2>2, <2>3 DEF IndexMatchesAuctions, Exists
  <2>11. HouseOwnsWhatItOwes'
    BY <1>0, <1>a, <1>b, <2>2, <2>5, <2>6 DEF HouseOwnsWhatItOwes, Deposited, Listed
  <2>12. NothingUnrecorded'
    BY <1>0, <1>a, <2>2, <2>6, <2>7 DEF NothingUnrecorded, Deposited, Listed
  <2> QED
    BY <1>0, <2>2, <2>9, <2>10, <2>11, <2>12 DEF Custody
<1>4. ASSUME NEW a \in AuctionIds, NEW p \in People, NEW q \in People, Released(a, p, q)
      PROVE  Custody'
  <2> DEFINE Out == escrow[a][p]
  <2>1. /\ UNCHANGED <<auctions, auctionIdByToken, houseEth, strays>>
        /\ escrow' = [escrow EXCEPT ![a][p] = {}]
        /\ owner' = Move(Out, q)
        /\ depositor' = [c \in Cards |-> IF c \in Out THEN NoDeposit ELSE depositor[c]]
    BY <1>4 DEF Released, Release, houseVars
  <2>2. \A c \in Cards : c \in Out <=> depositor[c] = <<a, p>>
    BY <1>0 DEF EntriesMatchDeposits
  <2>3. Out \subseteq Cards
    BY DEF TypeOK
  <2>4. \A c \in Out : Deposited(c) /\ ~Listed(c) /\ c \notin strays
    BY <1>0, <1>a, <2>2, <2>3 DEF HouseOwnsWhatItOwes, Deposited
  <2>5. \A t \in Tokens : owner'[t] = IF t \in Out THEN q ELSE owner[t]
    BY <2>1 DEF Move
  <2>6. \A b \in AuctionIds, r \in People :
            escrow'[b][r] = IF b = a /\ r = p THEN {} ELSE escrow[b][r]
    BY <2>1 DEF TypeOK
  <2> HIDE DEF Out
  <2>7. EntriesMatchDeposits'
    <3>1. \A c \in Cards : depositor'[c] = IF c \in Out THEN NoDeposit ELSE depositor[c]
      BY <2>1
    <3>2. ASSUME NEW b \in AuctionIds, NEW r \in People, NEW c \in Cards
          PROVE  c \in escrow'[b][r] <=> depositor'[c] = <<b, r>>
      <4>1. c \in escrow[b][r] <=> depositor[c] = <<b, r>>
        BY <1>0 DEF EntriesMatchDeposits
      <4>2. <<b, r>> # NoDeposit
        BY <1>a
      <4>3. CASE b = a /\ r = p
        BY <2>2, <2>6, <3>1, <4>2, <4>3
      <4>4. CASE ~(b = a /\ r = p)
        <5>1. <<b, r>> # <<a, p>>
          BY <4>4
        <5> QED
          BY <2>2, <2>6, <3>1, <4>1, <4>2, <4>4, <5>1
      <4> QED
        BY <4>3, <4>4
    <3> QED
      BY <3>2 DEF EntriesMatchDeposits
  <2>8. IndexMatchesAuctions'
    BY <1>0, <2>1 DEF IndexMatchesAuctions, Exists
  <2>9. HouseOwnsWhatItOwes'
    BY <1>0, <1>a, <1>b, <2>1, <2>3, <2>4, <2>5 DEF HouseOwnsWhatItOwes, Deposited, Listed
  <2>10. NothingUnrecorded'
    BY <1>0, <1>a, <2>1, <2>5 DEF NothingUnrecorded, Deposited, Listed
  <2> QED
    BY <1>0, <2>1, <2>7, <2>8, <2>9, <2>10 DEF Custody
<1>5. ASSUME NEW a \in AuctionIds, ClaimLot(a)
      PROVE  Custody'
  <2>1. PICK t : t = auctions[a].lot
    OBVIOUS
  <2>2. /\ Exists(a) /\ ~auctions[a].lotClaimed
        /\ auctions' = [auctions EXCEPT ![a].lotClaimed = TRUE]
        /\ auctionIdByToken' = [auctionIdByToken EXCEPT ![t] = 0]
        /\ owner' = LotMove(t, LotRecipient(a))
        /\ UNCHANGED <<escrow, houseEth, depositor, strays>>
    BY <1>5, <2>1 DEF ClaimLot, escrowVars, historyVars
  <2>3. t \in Tokens
    BY <1>a, <1>b, <2>1, <2>2 DEF AuctionsShaped, Exists, NoAuction
  <2>4. auctionIdByToken[t] = a + 1 /\ Listed(t)
    BY <1>0, <1>a, <2>1, <2>2, <2>3 DEF IndexMatchesAuctions, Listed
  <2>5. LotRecipient(a) \in People
    BY <2>2 DEF LotRecipient, HasBid, Exists, TypeOK, Auction
  <2>6. /\ auctionIdByToken'[t] = 0
        /\ \A u \in Tokens \ {t} : auctionIdByToken'[u] = auctionIdByToken[u]
    BY <2>2, <2>3 DEF TypeOK
  <2>7. /\ \A b \in AuctionIds \ {a} : auctions'[b] = auctions[b]
        /\ auctions'[a].lotClaimed
    BY <2>2 DEF TypeOK, Auction
  <2>8. \A u \in Tokens : owner'[u] = IF u = t /\ t \notin UntruthfulLots THEN LotRecipient(a)
                                     ELSE owner[u]
    BY <2>2 DEF LotMove, Move
  <2>9. IndexMatchesAuctions'
    <3>1. ASSUME NEW u \in Tokens, NEW b \in AuctionIds
          PROVE  auctionIdByToken'[u] = b + 1 <=>
                   Exists(b)' /\ auctions'[b].lot = u /\ ~auctions'[b].lotClaimed
      <4>1. auctionIdByToken[u] = b + 1 <=>
              Exists(b) /\ auctions[b].lot = u /\ ~auctions[b].lotClaimed
        BY <1>0 DEF IndexMatchesAuctions
      <4>2. CASE u = t
        <5>1. auctionIdByToken'[u] # b + 1
          BY <1>a, <2>6, <4>2
        <5>2. b # a => auctionIdByToken[u] # b + 1
          BY <1>a, <2>4, <4>2
        <5> QED
          BY <2>7, <4>1, <5>1, <5>2 DEF Exists
      <4>3. CASE u # t /\ b = a
        BY <2>1, <2>6, <2>7, <4>1, <4>3
      <4>4. CASE u # t /\ b # a
        BY <2>6, <2>7, <4>1, <4>4 DEF Exists
      <4> QED
        BY <4>2, <4>3, <4>4
    <3> QED
      BY <3>1 DEF IndexMatchesAuctions
  <2>10. EntriesMatchDeposits'
    BY <1>0, <2>2 DEF EntriesMatchDeposits
  <2>11. t \in Cards => ~Deposited(t)
    BY <1>0, <2>4 DEF HouseOwnsWhatItOwes
  <2>12. t \notin UntruthfulLots => t \notin strays
    BY <1>0, <2>3, <2>4 DEF HouseOwnsWhatItOwes
  <2>13. HouseOwnsWhatItOwes'
    BY <1>0, <1>a, <1>b, <2>2, <2>6, <2>8, <2>11, <2>12
    DEF HouseOwnsWhatItOwes, Deposited, Listed
  <2>14. NothingUnrecorded'
    BY <1>0, <1>a, <2>2, <2>5, <2>6, <2>8 DEF NothingUnrecorded, Deposited, Listed
  <2> QED
    BY <1>0, <2>2, <2>9, <2>10, <2>13, <2>14 DEF Custody
<1>6. ASSUME NEW c \in Cards, NEW h \in People \cup {Nobody}, WalletStep(c, h)
      PROVE  Custody'
  <2>1. /\ owner[c] # House /\ owner' = Move({c}, h)
        /\ UNCHANGED <<auctions, auctionIdByToken, escrow, houseEth, depositor, strays>>
    BY <1>6 DEF WalletStep, houseVars, escrowVars, historyVars
  <2>2. ~Deposited(c) /\ ~Listed(c) /\ c \notin strays
    BY <1>0, <1>a, <2>1 DEF HouseOwnsWhatItOwes
  <2>3. \A t \in Tokens : owner'[t] = IF t = c THEN h ELSE owner[t]
    BY <2>1 DEF Move
  <2>4. HouseOwnsWhatItOwes'
    BY <1>0, <1>a, <1>b, <2>1, <2>2, <2>3 DEF HouseOwnsWhatItOwes, Deposited, Listed
  <2>5. NothingUnrecorded'
    BY <1>0, <1>a, <2>1, <2>3 DEF NothingUnrecorded, Deposited, Listed
  <2> QED
    BY <1>0, <2>1, <2>4, <2>5
    DEF Custody, EntriesMatchDeposits, IndexMatchesAuctions, Exists
<1>7. ASSUME NEW c \in Cards, PlainPush(c)
      PROVE  Custody'
  <2>1. /\ owner[c] # House /\ owner' = Move({c}, House) /\ strays' = strays \cup {c}
        /\ UNCHANGED <<auctions, auctionIdByToken, escrow, houseEth, depositor>>
    BY <1>7, <1>a DEF PlainPush, houseVars, escrowVars
  <2>2. ~Deposited(c) /\ ~Listed(c)
    BY <1>0, <1>a, <2>1 DEF HouseOwnsWhatItOwes
  <2>3. \A t \in Tokens : owner'[t] = IF t = c THEN House ELSE owner[t]
    BY <2>1 DEF Move
  <2>4. HouseOwnsWhatItOwes'
    BY <1>0, <1>a, <1>b, <2>1, <2>2, <2>3 DEF HouseOwnsWhatItOwes, Deposited, Listed
  <2>5. NothingUnrecorded'
    BY <1>0, <1>a, <2>1, <2>3 DEF NothingUnrecorded, Deposited, Listed
  <2> QED
    BY <1>0, <2>1, <2>4, <2>5
    DEF Custody, EntriesMatchDeposits, IndexMatchesAuctions, Exists
<1>8. ASSUME UNCHANGED <<auctions, auctionIdByToken, escrow, houseEth, owner, depositor,
                         strays>>
      PROVE  Custody'
  BY <1>0, <1>8 DEF Custody, EntriesMatchDeposits, IndexMatchesAuctions, Exists,
     HouseOwnsWhatItOwes, NothingUnrecorded, Deposited, Listed
<1>9. CASE Tick
  BY <1>8, <1>9 DEF Tick, houseVars, escrowVars, tokenVars, historyVars
<1>10. CASE UNCHANGED vars
  BY <1>8, <1>10 DEF vars, houseVars, escrowVars, tokenVars, historyVars
<1> QED
  BY <1>1, <1>2, <1>3, <1>4, <1>5, <1>6, <1>7, <1>9, <1>10, StepKinds

-----------------------------------------------------------------------------
(* The theorems.                                                           *)

LEMMA InvStep == IInv /\ [Next]_vars => IInv'
BY TypeStep, ShapedStep, FreshStep, CustodyStep, LeaderStep DEF IInv

\* Every state the auction house can be in satisfies the invariant.
THEOREM AuctionInvariant == SafeSpec => []IInv
BY InitInv, InvStep, PTL DEF SafeSpec

\* No entry ever holds more cards than a release can move, across every
\* top-up by cards and by ETH (MAX_CARDS_PER_BID).
THEOREM AuctionTypes == SafeSpec => []TypeOK
<1>1. IInv => TypeOK
  BY DEF IInv
<1> QED
  BY <1>1, AuctionInvariant, PTL

\* What the house holds is recorded for exactly one claimant, and what its
\* records promise is there: for any number of auctions, people and cards.
THEOREM CustodyHolds == SafeSpec => []Custody
<1>1. IInv => Custody
  BY DEF IInv
<1> QED
  BY <1>1, AuctionInvariant, PTL

\* Nobody who has staked as much as the leader is passed over.
THEOREM LeaderAlwaysLeads == SafeSpec => []LeaderLeads
<1>1. IInv => LeaderLeads
  BY DEF IInv
<1> QED
  BY <1>1, AuctionInvariant, PTL

-----------------------------------------------------------------------------
(* The units of an entry.                                                  *)

\* An entry that a step leaves alone, with the worth of its cards, stays backed.
LEMMA EntryKept ==
    ASSUME NEW a \in AuctionIds, NEW p \in People,
           units[a][p] = SumOver(backing, escrow[a][p]),
           units'[a][p] = units[a][p], escrow'[a][p] = escrow[a][p],
           \A c \in escrow[a][p] : backing'[c] = backing[c]
    PROVE  units'[a][p] = SumOver(backing', escrow'[a][p])
<1>1. SumOver(backing', escrow[a][p]) = SumOver(backing, escrow[a][p])
  BY SumSame
<1> QED
  BY <1>1

\* The house holds every card of every entry.
LEMMA EntriesInHouse ==
    ASSUME TypeOK, Custody, NEW a \in AuctionIds, NEW p \in People
    PROVE  /\ escrow[a][p] \in SUBSET Cards
           /\ \A c \in escrow[a][p] : owner[c] = House
<1>1. escrow[a][p] \in SUBSET Cards
  BY DEF TypeOK
<1>2. ASSUME NEW c \in escrow[a][p]
      PROVE  owner[c] = House
  <2>1. c \in Cards /\ depositor[c] = <<a, p>>
    BY <1>1 DEF Custody, EntriesMatchDeposits
  <2>2. Deposited(c)
    BY <2>1, PeopleAssumption DEF Deposited, NoDeposit
  <2> QED
    BY <2>1, <2>2 DEF Custody, HouseOwnsWhatItOwes
<1> QED
  BY <1>1, <1>2

\* A bid adds to an entry cards worth what it adds to the units, and neither
\* takes a card twice nor mints one that anybody has.
LEMMA BidBacked ==
    ASSUME TypeOK, Custody, FreshUnowned, UnitsBacked,
           NEW p \in People, NEW a \in AuctionIds, NEW ids \in SUBSET Cards,
           NEW eth \in Amounts, NEW value \in Amounts, Bid(p, a, ids, eth, value)
    PROVE  UnitsBacked'
<1>1. PICK counts : counts = CardsFor(eth)
  OBVIOUS
<1>2. PICK fresh : fresh = FreshCards(counts)
  OBVIOUS
<1>3. /\ fresh \in SUBSET Cards
      /\ escrow' = [escrow EXCEPT ![a][p] = @ \cup ids \cup fresh]
      /\ units' = [units EXCEPT ![a][p] = NewUnits(p, a, ids, eth)]
      /\ backing' = [c \in Cards |-> IF c \in fresh THEN Units[FreshDenom(counts, c)]
                                     ELSE backing[c]]
      /\ \A c \in ids : owner[c] = p
  BY <1>1, <1>2 DEF Bid, TakeBid, MayTakeCards
<1>4. \A c \in fresh : owner[c] = Nobody
  <2>1. \A c \in fresh : c \in Cards /\ c >= minted
    <3>1. PICK n, m : /\ n \in Nat /\ n = minted
                      /\ m = minted + CardCount(counts) - 1
      BY DEF TypeOK
    <3>2. fresh = n .. m
      BY <1>2, <3>1 DEF FreshCards
    <3> QED
      BY <1>3, <3>1, <3>2
  <2> QED
    BY <2>1 DEF FreshUnowned
<1>5. eth \in Nat /\ minted \in Nat
  BY BoundsAssumption DEF TypeOK
<1>6. \A c \in Cards : backing[c] \in Nat /\ backing'[c] \in Nat
  <2>1. \A c \in Cards : Units[FreshDenom(counts, c)] \in Nat
    BY FreshDenomInLadder, LadderAssumption
  <2> QED
    BY <1>3, <2>1 DEF TypeOK
<1>7. ASSUME NEW b \in AuctionIds, NEW q \in People, b # a \/ q # p
      PROVE  units'[b][q] = SumOver(backing', escrow'[b][q])
  <2>1. /\ units[b][q] = SumOver(backing, escrow[b][q])
        /\ escrow[b][q] \in SUBSET Cards
        /\ \A c \in escrow[b][q] : owner[c] = House
    BY EntriesInHouse DEF UnitsBacked
  <2>2. units'[b][q] = units[b][q] /\ escrow'[b][q] = escrow[b][q]
    BY <1>3, <1>7 DEF TypeOK
  <2>3. \A c \in escrow[b][q] : backing'[c] = backing[c]
    BY <1>3, <1>4, <2>1, PeopleAssumption
  <2> QED
    BY <2>1, <2>2, <2>3, EntryKept
<1>8. units'[a][p] = SumOver(backing', escrow'[a][p])
  <2>1. PICK S : S = escrow[a][p]
    OBVIOUS
  <2>2. /\ units[a][p] = SumOver(backing, S) /\ S \in SUBSET Cards
        /\ \A c \in S : owner[c] = House
    BY <2>1, EntriesInHouse DEF UnitsBacked
  <2>3. S \cap ids = {} /\ (S \cup ids) \cap fresh = {}
    BY <1>3, <1>4, <2>2, PeopleAssumption
  <2>4. /\ IsFiniteSet(S) /\ IsFiniteSet(ids) /\ IsFiniteSet(fresh)
        /\ IsFiniteSet(S \cup ids)
    <3>1. IsFiniteSet(S) /\ IsFiniteSet(ids) /\ IsFiniteSet(fresh)
      BY <1>3, <2>2, TokensAssumption, FS_Subset
    <3> QED
      BY <3>1, FS_Union
  <2>5. /\ \A c \in S : backing'[c] = backing[c]
        /\ \A c \in ids : backing'[c] = backing[c]
    BY <1>3, <2>2, <2>3
  <2>6. PICK w : w = backing'
    OBVIOUS
  <2>7. SumOver(w, S) = SumOver(backing, S) /\ SumOver(w, ids) = SumOver(backing, ids)
    BY <2>5, <2>6, SumSame
  <2>8. SumOver(w, fresh) = eth
    <3>1. \A c \in FreshCards(counts) : w[c] = Units[FreshDenom(counts, c)]
      BY <1>2, <1>3, <2>6
    <3> QED
      BY <1>1, <1>2, <1>5, <3>1, MintedWorth
  <2>9. \A c \in Cards : w[c] \in Nat
    BY <1>6, <2>6
  <2>10. SumOver(w, S \cup ids) = SumOver(w, S) + SumOver(w, ids)
    <3>1. \A c \in S \cup ids : w[c] \in Nat
      BY <2>2, <2>9
    <3> QED
      BY <2>3, <2>4, <3>1, SumDisjoint
  <2>11. SumOver(w, (S \cup ids) \cup fresh) = SumOver(w, S \cup ids) + SumOver(w, fresh)
    <3>1. \A c \in (S \cup ids) \cup fresh : w[c] \in Nat
      BY <1>3, <2>2, <2>9
    <3> QED
      BY <2>3, <2>4, <3>1, SumDisjoint
  <2>12. /\ units'[a][p] = units[a][p] + SumOver(backing, ids) + eth
         /\ escrow'[a][p] = (S \cup ids) \cup fresh
    BY <1>3, <2>1 DEF TypeOK, NewUnits
  <2> QED
    BY <2>2, <2>6, <2>7, <2>8, <2>10, <2>11, <2>12
<1> QED
  BY <1>7, <1>8 DEF UnitsBacked

\* No step unbacks an entry: the worth of a card in the house does not change.
LEMMA UnitsStep ==
    ASSUME IInv, UnitsBacked, [Next]_vars
    PROVE  UnitsBacked'
<1> USE DEF IInv
<1>0. ASSUME escrow' = escrow, units' = units, backing' = backing
      PROVE  UnitsBacked'
  BY <1>0 DEF UnitsBacked
<1>1. ASSUME NEW p \in People, NEW t \in Tokens, NEW terms \in AuctionTerms,
             CreateAuction(p, t, terms)
      PROVE  UnitsBacked'
  BY <1>0, <1>1 DEF CreateAuction, escrowVars
<1>2. ASSUME NEW a \in AuctionIds, Amended(a)
      PROVE  UnitsBacked'
  BY <1>0, <1>2 DEF Amended, escrowVars, tokenVars
<1>3. ASSUME NEW p \in People, NEW a \in AuctionIds, NEW ids \in SUBSET Cards,
             NEW eth \in Amounts, NEW value \in Amounts, Bid(p, a, ids, eth, value)
      PROVE  UnitsBacked'
  BY <1>3, BidBacked
<1>4. ASSUME NEW a \in AuctionIds, NEW p \in People, NEW q \in People, Released(a, p, q)
      PROVE  UnitsBacked'
  <2>1. /\ escrow' = [escrow EXCEPT ![a][p] = {}]
        /\ units' = [units EXCEPT ![a][p] = 0]
        /\ backing' = backing
    BY <1>4 DEF Released, Release
  <2>2. ASSUME NEW b \in AuctionIds, NEW r \in People, b # a \/ r # p
        PROVE  units'[b][r] = SumOver(backing', escrow'[b][r])
    BY <2>1, <2>2 DEF UnitsBacked, TypeOK
  <2>3. units'[a][p] = 0 /\ escrow'[a][p] = {}
    BY <2>1 DEF TypeOK
  <2>4. SumOver(backing', {}) = 0
    BY SumEmpty
  <2> QED
    BY <2>2, <2>3, <2>4 DEF UnitsBacked
<1>5. ASSUME NEW a \in AuctionIds, ClaimLot(a)
      PROVE  UnitsBacked'
  BY <1>0, <1>5 DEF ClaimLot, escrowVars
<1>6. ASSUME NEW c \in Cards, NEW h \in People \cup {Nobody}, WalletStep(c, h)
      PROVE  UnitsBacked'
  <2>1. /\ owner[c] # House /\ \A x \in Cards \ {c} : backing'[x] = backing[x]
        /\ escrow' = escrow /\ units' = units
    BY <1>6 DEF WalletStep, escrowVars
  <2>2. ASSUME NEW b \in AuctionIds, NEW r \in People
        PROVE  units'[b][r] = SumOver(backing', escrow'[b][r])
    <3>1. /\ units[b][r] = SumOver(backing, escrow[b][r])
          /\ escrow[b][r] \in SUBSET Cards
          /\ \A x \in escrow[b][r] : owner[x] = House
      BY EntriesInHouse DEF UnitsBacked
    <3>2. \A x \in escrow[b][r] : backing'[x] = backing[x]
      BY <2>1, <3>1
    <3> QED
      BY <2>1, <3>1, <3>2, EntryKept
  <2> QED
    BY <2>2 DEF UnitsBacked
<1>7. ASSUME NEW c \in Cards, PlainPush(c)
      PROVE  UnitsBacked'
  BY <1>0, <1>7 DEF PlainPush, escrowVars
<1>8. CASE Tick
  BY <1>0, <1>8 DEF Tick, escrowVars, tokenVars
<1>9. CASE UNCHANGED vars
  BY <1>0, <1>9 DEF vars, escrowVars, tokenVars
<1> QED
  BY <1>1, <1>2, <1>3, <1>4, <1>5, <1>6, <1>7, <1>8, <1>9, StepKinds

\* What a bid counts for is always what the cards in custody back: the units of
\* an entry, on which the price order and the seller's proceeds rest, equal the
\* worth of its cards at any moment, however cards were valued when they were
\* pulled and whatever ETH the bid was minted from.
THEOREM UnitsAlwaysBacked == SafeSpec => []UnitsBacked
<1>1. Init => UnitsBacked
  BY SumEmpty DEF Init, UnitsBacked
<1>2. IInv /\ UnitsBacked /\ [Next]_vars => UnitsBacked'
  BY UnitsStep
<1> QED
  BY <1>1, <1>2, AuctionInvariant, PTL DEF SafeSpec

-----------------------------------------------------------------------------
(* What a step may never do.                                               *)

\* A card in the house stays, or goes to whom it belongs.
LEMMA HomeStep ==
    ASSUME IInv, [Next]_vars, NEW c \in Cards
    PROVE  GoesHome(c)
<1> SUFFICES ASSUME owner[c] = House
             PROVE  /\ owner'[c] = House \/ MayGoTo(c, owner'[c])
                    /\ backing'[c] = backing[c]
  BY DEF GoesHome
<1>0. /\ TypeOK /\ AuctionsShaped /\ FreshUnowned
      /\ EntriesMatchDeposits
  BY DEF IInv, Custody
<1>a. /\ c \in Tokens /\ c \notin UntruthfulLots /\ House \notin People /\ House # Nobody
  BY TokensAssumption, PeopleAssumption DEF Tokens
<1>1. ASSUME NEW p \in People, NEW t \in Tokens, NEW terms \in AuctionTerms,
             CreateAuction(p, t, terms)
      PROVE  owner'[c] = House /\ backing'[c] = backing[c]
  BY <1>a, <1>1 DEF CreateAuction, LotMove, Move
<1>2. ASSUME UNCHANGED <<owner, backing>>
      PROVE  owner'[c] = House /\ backing'[c] = backing[c]
  BY <1>2
<1>3. ASSUME NEW p \in People, NEW a \in AuctionIds, NEW ids \in SUBSET Cards,
             NEW eth \in Amounts, NEW value \in Amounts, Bid(p, a, ids, eth, value)
      PROVE  owner'[c] = House /\ backing'[c] = backing[c]
  <2>1. PICK fresh \in SUBSET Cards, n \in Nat : BidOutcome(p, a, ids, fresh, n)
    BY <1>0, <1>3, BidEffect
  <2>2. c \notin fresh
    BY <1>0, <1>a, <2>1 DEF BidOutcome, FreshUnowned, TypeOK
  <2> QED
    BY <1>a, <2>1, <2>2 DEF BidOutcome, Move
<1>4. ASSUME NEW a \in AuctionIds, NEW p \in People, NEW q \in People, Released(a, p, q)
      PROVE  /\ owner'[c] = House \/ MayGoTo(c, owner'[c])
             /\ backing'[c] = backing[c]
  <2>1. owner' = Move(escrow[a][p], q) /\ backing' = backing
    BY <1>4 DEF Released, Release
  <2>2. CASE c \in escrow[a][p]
    <3>1. owner'[c] = q /\ depositor[c] = <<a, p>>
      BY <1>0, <1>a, <2>1, <2>2 DEF Move, EntriesMatchDeposits
    <3>2. MayGoTo(c, q)
      BY <1>4, <3>1 DEF Released, MayGoTo
    <3> QED
      BY <2>1, <3>1, <3>2
  <2>3. CASE c \notin escrow[a][p]
    BY <1>a, <2>1, <2>3 DEF Move
  <2> QED
    BY <2>2, <2>3
<1>5. ASSUME NEW a \in AuctionIds, ClaimLot(a)
      PROVE  /\ owner'[c] = House \/ MayGoTo(c, owner'[c])
             /\ backing'[c] = backing[c]
  <2>1. /\ owner' = LotMove(auctions[a].lot, LotRecipient(a)) /\ backing' = backing
        /\ auctions[a].settled /\ ~auctions[a].lotClaimed
        /\ auctions' = [auctions EXCEPT ![a].lotClaimed = TRUE]
    BY <1>5 DEF ClaimLot
  <2>2. auctions'[a].lotClaimed
    BY <1>0, <2>1 DEF TypeOK, Auction
  <2>3. CASE c = auctions[a].lot
    <3>1. owner'[c] = LotRecipient(a)
      BY <1>a, <2>1, <2>3 DEF LotMove, Move
    <3>2. MayGoTo(c, LotRecipient(a))
      BY <2>1, <2>2, <2>3 DEF MayGoTo, LotRecipient
    <3> QED
      BY <2>1, <3>1, <3>2
  <2>4. CASE c # auctions[a].lot
    BY <1>a, <2>1, <2>4 DEF LotMove, Move
  <2> QED
    BY <2>3, <2>4
<1>6. ASSUME NEW d \in Cards, NEW h \in People \cup {Nobody}, WalletStep(d, h)
      PROVE  owner'[c] = House /\ backing'[c] = backing[c]
  BY <1>a, <1>6 DEF WalletStep, Move
<1>7. ASSUME NEW d \in Cards, PlainPush(d)
      PROVE  owner'[c] = House /\ backing'[c] = backing[c]
  BY <1>a, <1>7 DEF PlainPush, Move
<1>8. ASSUME NEW a \in AuctionIds, Amended(a)
      PROVE  owner'[c] = House /\ backing'[c] = backing[c]
  BY <1>2, <1>8 DEF Amended, tokenVars
<1>9. CASE Tick
  BY <1>2, <1>9 DEF Tick, tokenVars
<1>10. CASE UNCHANGED vars
  BY <1>2, <1>10 DEF vars, tokenVars
<1> QED
  BY <1>0, <1>1, <1>3, <1>4, <1>5, <1>6, <1>7, <1>8, <1>9, <1>10, StepKinds

\* No step of anyone moves an escrowed card anywhere but home, nor changes
\* what it is worth while the house holds it.
THEOREM EscrowGoesHome == SafeSpec => CardsGoHome
<1>1. IInv /\ [Next]_vars => [\A c \in Cards : GoesHome(c)]_vars
  BY HomeStep
<1> QED
  BY <1>1, AuctionInvariant, PTL DEF SafeSpec, CardsGoHome

\* A bid that takes the lead leaves time to answer and clears the increment.
LEMMA OutbidStep ==
    ASSUME IInv, NEW p \in People, NEW a \in AuctionIds, NEW ids \in SUBSET Cards,
           NEW eth \in Amounts, NEW value \in Amounts, Bid(p, a, ids, eth, value)
    PROVE  /\ Outbid(auctions[a], auctions'[a])
           /\ auctions'[a].endTime >= auctions[a].endTime
           /\ ~auctions[a].settled
           /\ \A b \in AuctionIds \ {a} : auctions'[b] = auctions[b]
<1>0. TypeOK /\ AuctionsShaped
  BY DEF IInv
<1>1. PICK fresh \in SUBSET Cards, n \in Nat : BidOutcome(p, a, ids, fresh, n)
  BY <1>0, BidEffect
<1>2. PICK h \in Nat, b \in Nat, x \in Nat, e \in Nat, t \in Nat, d \in Nat, r \in Nat :
          /\ h = auctions[a].highestUnits /\ b = auctions[a].minIncrementBps
          /\ x = auctions[a].extensionWindow /\ e = auctions[a].endTime
          /\ d = auctions[a].duration /\ t = now /\ r = auctions[a].reserveUnits
  <2>1. /\ auctions[a].highestUnits \in Nat /\ auctions[a].minIncrementBps \in Nat
        /\ auctions[a].extensionWindow \in Nat /\ auctions[a].endTime \in Nat
        /\ auctions[a].duration \in Nat /\ auctions[a].reserveUnits \in Nat
    BY <1>0 DEF TypeOK, Auction
  <2>2. now \in Nat
    BY <1>0, BoundsAssumption DEF TypeOK
  <2> QED
    BY <2>1, <2>2
<1>3. /\ auctions'[a].highestUnits = n /\ auctions'[a].extensionWindow = x
      /\ auctions'[a].endTime = EndTimeAfterBid(auctions[a])
      /\ \A c \in AuctionIds \ {a} : auctions'[c] = auctions[c]
      /\ n > h /\ n >= MinimumFrom(auctions[a])
  BY <1>0, <1>1, <1>2 DEF BidOutcome, TypeOK, Auction
<1>4. x <= d
  BY <1>0, <1>2 DEF AuctionsShaped
<1>5. EndTimeAfterBid(auctions[a]) - t >= x /\ EndTimeAfterBid(auctions[a]) >= e
  BY <1>2, <1>4 DEF EndTimeAfterBid
<1>6. n >= AtLeastOne(r)
  <2>1. AtLeastOne(r) \in Nat
    BY DEF AtLeastOne
  <2>2. HasBid(a) => h >= AtLeastOne(r)
    BY <1>0, <1>2 DEF AuctionsShaped
  <2>3. ~HasBid(a) => n >= AtLeastOne(r)
    BY <1>2, <1>3 DEF MinimumFrom, HasBid
  <2> QED
    BY <1>3, <2>1, <2>2, <2>3
<1>7. (n - h) * 10000 >= h * b
  <2>1. PICK z \in Nat : z = h * b
    OBVIOUS
  <2>2. CASE ~HasBid(a)
    <3>1. h = 0
      BY <1>0, <1>2, <2>2 DEF AuctionsShaped
    <3>2. h * b = 0
      BY <3>1
    <3> QED
      BY <1>3, <3>1, <3>2
  <2>3. CASE HasBid(a)
    <3>1. n >= h + AtLeastOne((z + 9999) \div 10000)
      BY <1>2, <1>3, <2>1, <2>3 DEF MinimumFrom, HasBid
    <3>2. PICK y \in Nat : y = (z + 9999) \div 10000 /\ y * 10000 >= z
      BY <2>1
    <3>3. AtLeastOne(y) \in Nat /\ AtLeastOne(y) >= y
      BY DEF AtLeastOne
    <3>4. n - h >= y
      BY <3>1, <3>2, <3>3
    <3> QED
      BY <2>1, <3>2, <3>4
  <2> QED
    BY <2>2, <2>3
<1>8. ~auctions[a].settled
  BY DEF Bid
<1> QED
  BY <1>2, <1>3, <1>5, <1>6, <1>7, <1>8 DEF Outbid

\* Every step carries every auction on as the house promises its bidders.
LEMMA ProceedsStep ==
    ASSUME IInv, [Next]_vars, NEW a \in AuctionIds
    PROVE  Proceeds(auctions[a], auctions'[a])
<1>0. /\ TypeOK /\ AuctionsShaped /\ FreshUnowned
      /\ auctions[a] \in Auction
      /\ auctions[a].lotClaimed => auctions[a].settled
  BY DEF IInv, TypeOK, AuctionsShaped
<1>1. ASSUME NEW p \in People, NEW t \in Tokens, NEW terms \in AuctionTerms,
             CreateAuction(p, t, terms)
      PROVE  Proceeds(auctions[a], auctions'[a])
  <2>1. \/ auctions'[a] = auctions[a]
        \/ auctions[a] = NoAuction /\ auctions'[a] = Listing(p, t, terms)
    <3>1. auctions' = [auctions EXCEPT ![auctionCount] = Listing(p, t, terms)]
      BY <1>1 DEF CreateAuction
    <3>2. CASE a = auctionCount
      <4>1. a >= auctionCount
        BY <1>0, <3>2, BoundsAssumption DEF TypeOK
      <4> QED
        BY <1>0, <3>1, <3>2, <4>1 DEF AuctionsShaped, TypeOK
    <3>3. CASE a # auctionCount
      BY <1>0, <3>1, <3>3 DEF TypeOK
    <3> QED
      BY <3>2, <3>3
  <2>2. CASE auctions'[a] = auctions[a]
    BY <1>0, <2>2 DEF Proceeds, Auction
  <2>3. CASE auctions[a] = NoAuction /\ auctions'[a] = Listing(p, t, terms)
    BY <2>3 DEF Proceeds, NoAuction, Listing
  <2> QED
    BY <2>1, <2>2, <2>3
<1>2. ASSUME auctions'[a] = auctions[a]
      PROVE  Proceeds(auctions[a], auctions'[a])
  BY <1>0, <1>2 DEF Proceeds, Auction
<1>3. ASSUME NEW b \in AuctionIds, Amended(b)
      PROVE  Proceeds(auctions[a], auctions'[a])
  <2>1. CASE a # b
    <3>1. auctions'[a] = auctions[a]
      BY <1>0, <1>3, <2>1 DEF Amended, TypeOK
    <3> QED
      BY <1>2, <3>1
  <2>2. CASE a = b
    <3>1. PICK closed \in BOOLEAN, start \in Nat :
             /\ auctions[a].settled => closed /\ start = auctions[a].startTime
             /\ auctions' = [auctions EXCEPT ![a].settled = closed, ![a].startTime = start]
      BY <1>3, <2>2 DEF Amended
    <3>2. auctions'[a] = [auctions[a] EXCEPT !.settled = closed, !.startTime = start]
      BY <1>0, <3>1 DEF TypeOK
    <3>3. PICK old \in Auction : old = auctions[a]
      BY <1>0
    <3>4. old.settled => closed = TRUE /\ start = old.startTime
      BY <3>1, <3>3
    <3>5. old.settled => [old EXCEPT !.settled = closed, !.startTime = start] = old
      BY <3>4 DEF Auction
    <3>6. CASE old.settled
      BY <1>2, <3>2, <3>3, <3>5, <3>6
    <3>7. CASE ~old.settled
      <4>1. ~old.lotClaimed
        BY <1>0, <3>3, <3>7
      <4> QED
        BY <3>2, <3>3, <3>7, <4>1 DEF Proceeds, Auction
    <3> QED
      BY <3>6, <3>7
  <2> QED
    BY <2>1, <2>2
<1>4. ASSUME NEW p \in People, NEW b \in AuctionIds, NEW ids \in SUBSET Cards,
             NEW eth \in Amounts, NEW value \in Amounts, Bid(p, b, ids, eth, value)
      PROVE  Proceeds(auctions[a], auctions'[a])
  <2>1. CASE a # b
    BY <1>2, <1>4, <2>1, OutbidStep
  <2>2. CASE a = b
    <3>1. /\ Outbid(auctions[a], auctions'[a])
          /\ auctions'[a].endTime >= auctions[a].endTime
          /\ ~auctions[a].settled
      BY <1>4, <2>2, OutbidStep
    <3> QED
      BY <1>0, <3>1 DEF Proceeds
  <2> QED
    BY <2>1, <2>2
<1>5. ASSUME NEW b \in AuctionIds, ClaimLot(b)
      PROVE  Proceeds(auctions[a], auctions'[a])
  <2>1. CASE a # b
    <3>1. auctions'[a] = auctions[a]
      BY <1>0, <1>5, <2>1 DEF ClaimLot, TypeOK
    <3> QED
      BY <1>2, <3>1
  <2>2. CASE a = b
    <3>1. ~auctions[a].lotClaimed /\ auctions'[a] = [auctions[a] EXCEPT !.lotClaimed = TRUE]
      BY <1>0, <1>5, <2>2 DEF ClaimLot, TypeOK
    <3> QED
      BY <1>0, <3>1 DEF Proceeds, Auction
  <2> QED
    BY <2>1, <2>2
<1>6. ASSUME UNCHANGED auctions
      PROVE  Proceeds(auctions[a], auctions'[a])
  BY <1>2, <1>6
<1>7. ASSUME NEW b \in AuctionIds, NEW p \in People, NEW q \in People, Released(b, p, q)
      PROVE  Proceeds(auctions[a], auctions'[a])
  BY <1>6, <1>7 DEF Released, Release, houseVars
<1>8. ASSUME NEW c \in Cards, NEW h \in People \cup {Nobody}, WalletStep(c, h)
      PROVE  Proceeds(auctions[a], auctions'[a])
  BY <1>6, <1>8 DEF WalletStep, houseVars
<1>9. ASSUME NEW c \in Cards, PlainPush(c)
      PROVE  Proceeds(auctions[a], auctions'[a])
  BY <1>6, <1>9 DEF PlainPush, houseVars
<1>10. CASE Tick
  BY <1>6, <1>10 DEF Tick, houseVars
<1>11. CASE UNCHANGED vars
  BY <1>6, <1>11 DEF vars, houseVars
<1> QED
  BY <1>0, <1>1, <1>3, <1>4, <1>5, <1>7, <1>8, <1>9, <1>10, <1>11, StepKinds

\* Arriving last does not win an auction, whatever its terms, and a closed
\* auction keeps its outcome.
THEOREM AlwaysTimeToAnswer == SafeSpec => TimeToAnswer
<1>1. IInv /\ [Next]_vars => [\A a \in AuctionIds : Proceeds(auctions[a], auctions'[a])]_vars
  BY ProceedsStep
<1> QED
  BY <1>1, AuctionInvariant, PTL DEF SafeSpec, TimeToAnswer

-----------------------------------------------------------------------------
(* The auction house implements EnglishAuction.                            *)

\* An auction whose record stays as it is looks the same from outside.
LEMMA SameOutside ==
    ASSUME NEW b \in AuctionIds, auctions'[b] = auctions[b]
    PROVE  Phase(b)' = Phase(b) /\ LotOwed(b)' = LotOwed(b)
BY DEF Phase, LotOwed, Exists, HasBid

LEMMA RefinesInit == Init => EA!Init
<1> SUFFICES ASSUME Init PROVE EA!Init
  OBVIOUS
<1>1. \A a \in AuctionIds : auctions[a] = NoAuction
  BY DEF Init
<1>2. \A a \in AuctionIds : Phase(a) = "none" /\ LotOwed(a) = FALSE
  BY <1>1 DEF Phase, LotOwed, Exists, NoAuction
<1>3. \A a \in AuctionIds : /\ auctions[a].seller = Nobody
                           /\ auctions[a].highestBidder = Nobody
                           /\ auctions[a].highestUnits = 0
  BY <1>1 DEF NoAuction
<1> QED
  BY <1>2, <1>3 DEF EA!Init, Init

\* A listing opens an auction, whose lot may turn out to be untruthful.
LEMMA RefinesList ==
    ASSUME IInv, NEW p \in People, NEW t \in Tokens, NEW terms \in AuctionTerms,
           CreateAuction(p, t, terms)
    PROVE  \E a \in AuctionIds : EA!List(a, p)
<1>0. TypeOK /\ AuctionsShaped
  BY DEF IInv
<1>1. PICK a \in AuctionIds : a = auctionCount
  BY <1>0, BoundsAssumption DEF CreateAuction, AuctionIds, TypeOK
<1>2. auctions[a] = NoAuction
  BY <1>0, <1>1, BoundsAssumption DEF AuctionsShaped, AuctionIds
<1>3. /\ auctions'[a] = Listing(p, t, terms)
      /\ \A b \in AuctionIds \ {a} : auctions'[b] = auctions[b]
      /\ units' = units
  BY <1>0, <1>1 DEF CreateAuction, TypeOK, escrowVars
<1>4. Phase(a) = "none" /\ LotOwed(a) = FALSE
  BY <1>2 DEF Phase, LotOwed, Exists, NoAuction
<1>5. /\ auctions'[a].seller = p /\ auctions'[a].highestBidder = Nobody
      /\ auctions'[a].highestUnits = 0 /\ auctions'[a].settled = FALSE
  BY <1>3 DEF Listing, NoAuction
<1>6. Phase(a)' = "listed" /\ LotOwed(a)' \in BOOLEAN
  <2>1. p # Nobody
    BY PeopleAssumption
  <2> QED
    BY <1>3, <1>5, <2>1 DEF Phase, LotOwed, Exists, HasBid
<1>7. \A b \in AuctionIds \ {a} : Phase(b)' = Phase(b) /\ LotOwed(b)' = LotOwed(b)
  BY <1>3, SameOutside
<1>8. auctions[a].highestBidder = Nobody /\ auctions[a].highestUnits = 0
  BY <1>2 DEF NoAuction
<1> QED
  <2>1. [b \in AuctionIds |-> Phase(b)]'
            = [[b \in AuctionIds |-> Phase(b)] EXCEPT ![a] = "listed"]
    BY <1>6, <1>7
  <2>2. [b \in AuctionIds |-> LotOwed(b)]'
            = [[b \in AuctionIds |-> LotOwed(b)] EXCEPT ![a] = LotOwed(a)']
    BY <1>7
  <2>3. [b \in AuctionIds |-> auctions[b].seller]'
            = [[b \in AuctionIds |-> auctions[b].seller] EXCEPT ![a] = p]
    BY <1>3, <1>5
  <2>4. /\ [b \in AuctionIds |-> auctions[b].highestBidder]'
               = [b \in AuctionIds |-> auctions[b].highestBidder]
        /\ [b \in AuctionIds |-> auctions[b].highestUnits]'
               = [b \in AuctionIds |-> auctions[b].highestUnits]
    BY <1>3, <1>5, <1>8
  <2>5. EA!List(a, p)
    BY <1>1, <1>3, <1>4, <1>6, <2>1, <2>2, <2>3, <2>4 DEF EA!List
  <2> QED
    BY <1>1, <2>5

\* A bid raises the price and puts the whole entry at stake.
LEMMA RefinesBid ==
    ASSUME IInv, NEW p \in People, NEW a \in AuctionIds, NEW ids \in SUBSET Cards,
           NEW eth \in Amounts, NEW value \in Amounts, Bid(p, a, ids, eth, value)
    PROVE  EA!Bid(a, p)
<1>0. TypeOK /\ AuctionsShaped
  BY DEF IInv
<1>1. PICK fresh \in SUBSET Cards, n \in Nat : BidOutcome(p, a, ids, fresh, n)
  BY <1>0, BidEffect
<1>2. /\ Exists(a) /\ p # auctions[a].seller /\ ~auctions[a].settled
  BY DEF Bid
<1>3. /\ n > auctions[a].highestUnits
      /\ auctions'[a].highestUnits = n /\ auctions'[a].highestBidder = p
      /\ auctions'[a].seller = auctions[a].seller
      /\ auctions'[a].settled = auctions[a].settled
      /\ auctions'[a].lot = auctions[a].lot
      /\ auctions'[a].lotClaimed = auctions[a].lotClaimed
      /\ \A b \in AuctionIds \ {a} : auctions'[b] = auctions[b]
      /\ units' = [units EXCEPT ![a][p] = n]
  BY <1>0, <1>1 DEF BidOutcome, TypeOK, Auction
<1>4. Phase(a) \in {"listed", "running"} /\ Phase(a)' = "running"
  <2>1. p # Nobody
    BY PeopleAssumption
  <2> QED
    BY <1>2, <1>3, <2>1 DEF Phase, Exists, HasBid
<1>5. LotOwed(a)' = LotOwed(a)
  BY <1>3 DEF LotOwed, Exists
<1>6. \A b \in AuctionIds \ {a} : Phase(b)' = Phase(b) /\ LotOwed(b)' = LotOwed(b)
  BY <1>3, SameOutside
<1>7. [b \in AuctionIds |-> Phase(b)]'
          = [[b \in AuctionIds |-> Phase(b)] EXCEPT ![a] = "running"]
  BY <1>4, <1>6
<1>8. /\ [b \in AuctionIds |-> LotOwed(b)]' = [b \in AuctionIds |-> LotOwed(b)]
      /\ [b \in AuctionIds |-> auctions[b].seller]'
             = [b \in AuctionIds |-> auctions[b].seller]
  BY <1>3, <1>5, <1>6
<1>9. [b \in AuctionIds |-> auctions[b].highestBidder]'
          = [[b \in AuctionIds |-> auctions[b].highestBidder] EXCEPT ![a] = p]
  BY <1>3
<1>10. [b \in AuctionIds |-> auctions[b].highestUnits]'
           = [[b \in AuctionIds |-> auctions[b].highestUnits] EXCEPT ![a] = n]
  BY <1>3
<1>11. [b \in AuctionIds |-> auctions[b].highestUnits]'[a] = n
  BY <1>3
<1> QED
  BY <1>2, <1>3, <1>4, <1>7, <1>8, <1>9, <1>10, <1>11 DEF EA!Bid

\* Closing closes, and moving the start of an auction is seen by nobody.
LEMMA RefinesAmend ==
    ASSUME IInv, NEW a \in AuctionIds, Amended(a)
    PROVE  EA!Close(a) \/ UNCHANGED EA!vars
<1>0. TypeOK
  BY DEF IInv
<1>1. /\ Exists(a) /\ units' = units
      /\ \E closed \in BOOLEAN, start \in Nat :
             /\ auctions[a].settled => closed
             /\ auctions' = [auctions EXCEPT ![a].settled = closed, ![a].startTime = start]
  BY DEF Amended, escrowVars
<1>2. /\ \A b \in AuctionIds \ {a} : auctions'[b] = auctions[b]
      /\ auctions'[a].seller = auctions[a].seller
      /\ auctions'[a].highestBidder = auctions[a].highestBidder
      /\ auctions'[a].highestUnits = auctions[a].highestUnits
      /\ auctions'[a].lot = auctions[a].lot
      /\ auctions'[a].lotClaimed = auctions[a].lotClaimed
      /\ auctions'[a].settled \in BOOLEAN
      /\ auctions[a].settled => auctions'[a].settled
  BY <1>0, <1>1 DEF TypeOK, Auction
<1>3. LotOwed(a)' = LotOwed(a)
  BY <1>2 DEF LotOwed, Exists
<1>4. \A b \in AuctionIds \ {a} : Phase(b)' = Phase(b) /\ LotOwed(b)' = LotOwed(b)
  BY <1>2, SameOutside
<1>5. /\ [b \in AuctionIds |-> LotOwed(b)]' = [b \in AuctionIds |-> LotOwed(b)]
      /\ [b \in AuctionIds |-> auctions[b].seller]'
             = [b \in AuctionIds |-> auctions[b].seller]
      /\ [b \in AuctionIds |-> auctions[b].highestBidder]'
             = [b \in AuctionIds |-> auctions[b].highestBidder]
      /\ [b \in AuctionIds |-> auctions[b].highestUnits]'
             = [b \in AuctionIds |-> auctions[b].highestUnits]
  BY <1>2, <1>3, <1>4
<1>6. CASE auctions'[a].settled = auctions[a].settled
  <2>1. Phase(a)' = Phase(a)
    BY <1>2, <1>6 DEF Phase, Exists, HasBid
  <2>2. [b \in AuctionIds |-> Phase(b)]' = [b \in AuctionIds |-> Phase(b)]
    BY <1>4, <2>1
  <2> QED
    BY <1>1, <1>5, <2>2 DEF EA!vars
<1>7. CASE auctions'[a].settled /\ ~auctions[a].settled
  <2>1. \/ Phase(a) = "running" /\ Phase(a)' = "sold"
        \/ Phase(a) = "listed" /\ Phase(a)' = "unsold"
    BY <1>1, <1>2, <1>7 DEF Phase, Exists, HasBid
  <2>2. \/ /\ Phase(a) = "running"
           /\ [b \in AuctionIds |-> Phase(b)]'
                  = [[b \in AuctionIds |-> Phase(b)] EXCEPT ![a] = "sold"]
        \/ /\ Phase(a) = "listed"
           /\ [b \in AuctionIds |-> Phase(b)]'
                  = [[b \in AuctionIds |-> Phase(b)] EXCEPT ![a] = "unsold"]
    BY <1>4, <2>1
  <2> QED
    BY <1>1, <1>5, <2>2 DEF EA!Close
<1>8. auctions[a].settled \in BOOLEAN
  BY <1>0 DEF TypeOK, Auction
<1> QED
  BY <1>2, <1>6, <1>7, <1>8

\* An entry that is released was somebody's stake, or the price of a sale.
LEMMA RefinesRelease ==
    ASSUME IInv, NEW a \in AuctionIds, NEW p \in People, NEW q \in People, Released(a, p, q)
    PROVE  EA!Refund(a, p) \/ EA!Pay(a)
<1>0. TypeOK /\ AuctionsShaped
  BY DEF IInv
<1>1. /\ auctions' = auctions /\ units' = [units EXCEPT ![a][p] = 0]
      /\ escrow[a][p] # {} /\ Exists(a)
  BY DEF Released, Release, houseVars
<1>2. units[a][p] > 0
  BY <1>0, <1>1 DEF AuctionsShaped
<1>3. \A b \in AuctionIds : Phase(b)' = Phase(b) /\ LotOwed(b)' = LotOwed(b)
  BY <1>1, SameOutside
<1>4. /\ [b \in AuctionIds |-> Phase(b)]' = [b \in AuctionIds |-> Phase(b)]
      /\ [b \in AuctionIds |-> LotOwed(b)]' = [b \in AuctionIds |-> LotOwed(b)]
      /\ [b \in AuctionIds |-> auctions[b].seller]'
             = [b \in AuctionIds |-> auctions[b].seller]
      /\ [b \in AuctionIds |-> auctions[b].highestBidder]'
             = [b \in AuctionIds |-> auctions[b].highestBidder]
      /\ [b \in AuctionIds |-> auctions[b].highestUnits]'
             = [b \in AuctionIds |-> auctions[b].highestUnits]
  BY <1>1, <1>3
<1>5. CASE p # auctions[a].highestBidder
  BY <1>1, <1>2, <1>4, <1>5 DEF EA!Refund
<1>6. CASE p = auctions[a].highestBidder
  <2>1. auctions[a].settled
    BY <1>6 DEF Released
  <2>2. Phase(a) = "sold"
    BY <1>1, <1>6, <2>1, PeopleAssumption DEF Phase, HasBid
  <2> QED
    BY <1>1, <1>2, <1>4, <1>6, <2>2 DEF EA!Pay
<1> QED
  BY <1>5, <1>6

\* A lot leaves a closed auction, once; an untruthful one was owed to nobody.
LEMMA RefinesClaimLot ==
    ASSUME IInv, NEW a \in AuctionIds, ClaimLot(a)
    PROVE  EA!Deliver(a) \/ UNCHANGED EA!vars
<1>0. TypeOK
  BY DEF IInv
<1>1. /\ Exists(a) /\ auctions[a].settled /\ ~auctions[a].lotClaimed
      /\ auctions' = [auctions EXCEPT ![a].lotClaimed = TRUE] /\ units' = units
  BY DEF ClaimLot, escrowVars
<1>2. /\ \A b \in AuctionIds \ {a} : auctions'[b] = auctions[b]
      /\ auctions'[a].seller = auctions[a].seller
      /\ auctions'[a].highestBidder = auctions[a].highestBidder
      /\ auctions'[a].highestUnits = auctions[a].highestUnits
      /\ auctions'[a].lot = auctions[a].lot
      /\ auctions'[a].settled = auctions[a].settled
      /\ auctions'[a].lotClaimed
  BY <1>0, <1>1 DEF TypeOK, Auction
<1>3. Phase(a)' = Phase(a) /\ Phase(a) \in {"sold", "unsold"}
  BY <1>1, <1>2 DEF Phase, Exists, HasBid
<1>4. \A b \in AuctionIds \ {a} : Phase(b)' = Phase(b) /\ LotOwed(b)' = LotOwed(b)
  BY <1>2, SameOutside
<1>5. /\ [b \in AuctionIds |-> Phase(b)]' = [b \in AuctionIds |-> Phase(b)]
      /\ [b \in AuctionIds |-> auctions[b].seller]'
             = [b \in AuctionIds |-> auctions[b].seller]
      /\ [b \in AuctionIds |-> auctions[b].highestBidder]'
             = [b \in AuctionIds |-> auctions[b].highestBidder]
      /\ [b \in AuctionIds |-> auctions[b].highestUnits]'
             = [b \in AuctionIds |-> auctions[b].highestUnits]
  BY <1>2, <1>3, <1>4
<1>6. LotOwed(a)' = FALSE
  BY <1>2 DEF LotOwed
<1>7. CASE LotOwed(a)
  <2>1. [b \in AuctionIds |-> LotOwed(b)]'
            = [[b \in AuctionIds |-> LotOwed(b)] EXCEPT ![a] = FALSE]
    BY <1>4, <1>6
  <2> QED
    BY <1>1, <1>3, <1>5, <1>7, <2>1 DEF EA!Deliver
<1>8. CASE ~LotOwed(a)
  <2>1. [b \in AuctionIds |-> LotOwed(b)]' = [b \in AuctionIds |-> LotOwed(b)]
    <3>1. LotOwed(a) = FALSE
      BY <1>8 DEF LotOwed
    <3> QED
      BY <1>4, <1>6, <3>1
  <2> QED
    BY <1>1, <1>5, <2>1 DEF EA!vars
<1> QED
  BY <1>7, <1>8

LEMMA RefinesStep == IInv /\ [Next]_vars => [EA!Next]_(EA!vars)
<1> SUFFICES ASSUME IInv, [Next]_vars PROVE EA!Next \/ UNCHANGED EA!vars
  OBVIOUS
<1>0. TypeOK /\ AuctionsShaped /\ FreshUnowned
  BY DEF IInv
<1>1. ASSUME NEW p \in People, NEW t \in Tokens, NEW terms \in AuctionTerms,
             CreateAuction(p, t, terms)
      PROVE  EA!Next
  BY <1>1, RefinesList DEF EA!Next
<1>2. ASSUME NEW a \in AuctionIds, Amended(a)
      PROVE  EA!Next \/ UNCHANGED EA!vars
  BY <1>2, RefinesAmend DEF EA!Next
<1>3. ASSUME NEW p \in People, NEW a \in AuctionIds, NEW ids \in SUBSET Cards,
             NEW eth \in Amounts, NEW value \in Amounts, Bid(p, a, ids, eth, value)
      PROVE  EA!Next
  BY <1>3, RefinesBid DEF EA!Next
<1>4. ASSUME NEW a \in AuctionIds, NEW p \in People, NEW q \in People, Released(a, p, q)
      PROVE  EA!Next
  BY <1>4, RefinesRelease DEF EA!Next
<1>5. ASSUME NEW a \in AuctionIds, ClaimLot(a)
      PROVE  EA!Next \/ UNCHANGED EA!vars
  BY <1>5, RefinesClaimLot DEF EA!Next
<1>6. ASSUME UNCHANGED <<auctions, units>>
      PROVE  UNCHANGED EA!vars
  <2>1. \A b \in AuctionIds : Phase(b)' = Phase(b) /\ LotOwed(b)' = LotOwed(b)
    BY <1>6, SameOutside
  <2> QED
    BY <1>6, <2>1 DEF EA!vars
<1>7. ASSUME NEW c \in Cards, NEW h \in People \cup {Nobody}, WalletStep(c, h)
      PROVE  UNCHANGED EA!vars
  BY <1>6, <1>7 DEF WalletStep, houseVars, escrowVars
<1>8. ASSUME NEW c \in Cards, PlainPush(c)
      PROVE  UNCHANGED EA!vars
  BY <1>6, <1>8 DEF PlainPush, houseVars, escrowVars
<1>9. CASE Tick
  BY <1>6, <1>9 DEF Tick, houseVars, escrowVars
<1>10. CASE UNCHANGED vars
  BY <1>6, <1>10 DEF vars, houseVars, escrowVars
<1> QED
  BY <1>0, <1>1, <1>2, <1>3, <1>4, <1>5, <1>7, <1>8, <1>9, <1>10, StepKinds

\* Whatever is called in whatever order, and whatever collections the lots
\* come from, the house is an English auction.
THEOREM HouseIsEnglishAuction == SafeSpec => ImplementsEnglishAuction
BY RefinesInit, RefinesStep, AuctionInvariant, PTL
   DEF SafeSpec, ImplementsEnglishAuction, EA!Spec
=============================================================================
