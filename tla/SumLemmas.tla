----------------------------- MODULE SumLemmas -----------------------------
(***************************************************************************)
(* What the sums of module Sums obey, for every finite set.                *)
(***************************************************************************)
EXTENDS Sums, FiniteSetTheorems, TLAPS

\* A pile over finitely many tokens, each of a natural amount, is finite.
LEMMA CoinsFinite ==
    ASSUME NEW S, IsFiniteSet(S), NEW f, \A x \in S : f[x] \in Nat
    PROVE  IsFiniteSet(Coins(f, S))
<1> DEFINE Pile(x) == {x} \X (1 .. f[x])
           Piles == {Pile(x) : x \in S}
           g == [x \in S |-> Pile(x)]
<1>1. IsFiniteSet(Piles)
  <2>1. g \in Surjection(S, Piles)
    BY DEF Surjection
  <2> HIDE DEF Piles, g
  <2> QED
    BY <2>1, FS_Surjection
<1>2. ASSUME NEW x \in S
      PROVE  IsFiniteSet(Pile(x))
  <2>1. IsFiniteSet({x})
    BY FS_Singleton
  <2>2. IsFiniteSet(1 .. f[x])
    BY FS_Interval
  <2> QED
    BY <2>1, <2>2, FS_Product
<1>3. \A T \in Piles : IsFiniteSet(T)
  BY <1>2
<1> HIDE DEF Piles
<1>4. IsFiniteSet(UNION Piles)
  BY <1>1, <1>3, FS_UNION
<1> QED
  BY <1>4 DEF Coins, Piles

\* A sum of naturals is a natural.
LEMMA SumNat ==
    ASSUME NEW S, IsFiniteSet(S), NEW f, \A x \in S : f[x] \in Nat
    PROVE  SumOver(f, S) \in Nat
BY CoinsFinite, FS_CardinalityType DEF SumOver

\* The empty sum.
LEMMA SumEmpty ==
    ASSUME NEW f
    PROVE  SumOver(f, {}) = 0
<1>1. Coins(f, {}) = {}
  BY DEF Coins
<1> QED
  BY <1>1, FS_EmptySet DEF SumOver

\* A sum depends only on the values at the members of its set.
LEMMA SumSame ==
    ASSUME NEW S, NEW f, NEW g, \A x \in S : f[x] = g[x]
    PROVE  SumOver(f, S) = SumOver(g, S)
<1>1. Coins(f, S) = Coins(g, S)
  BY DEF Coins
<1> QED
  BY <1>1 DEF SumOver

\* A sum over two disjoint sets splits into their sums.
LEMMA SumDisjoint ==
    ASSUME NEW S, NEW T, IsFiniteSet(S), IsFiniteSet(T), S \cap T = {},
           NEW f, \A x \in S \cup T : f[x] \in Nat
    PROVE  SumOver(f, S \cup T) = SumOver(f, S) + SumOver(f, T)
<1>1. Coins(f, S \cup T) = Coins(f, S) \cup Coins(f, T)
  BY DEF Coins
<1>2. Coins(f, S) \cap Coins(f, T) = {}
  BY DEF Coins
<1>3. IsFiniteSet(Coins(f, S)) /\ IsFiniteSet(Coins(f, T))
  BY CoinsFinite
<1>4. Cardinality(Coins(f, S) \cup Coins(f, T))
          = Cardinality(Coins(f, S)) + Cardinality(Coins(f, T)) - Cardinality({})
  BY <1>2, <1>3, FS_Union
<1>5. /\ Cardinality(Coins(f, S)) \in Nat
      /\ Cardinality(Coins(f, T)) \in Nat
      /\ Cardinality({}) = 0
  BY <1>3, FS_CardinalityType, FS_EmptySet
<1>6. Cardinality(Coins(f, S) \cup Coins(f, T))
          = Cardinality(Coins(f, S)) + Cardinality(Coins(f, T))
  BY <1>4, <1>5
<1> QED
  BY <1>1, <1>6 DEF SumOver

\* The sum over one token is its amount.
LEMMA SumSingleton ==
    ASSUME NEW x, NEW f, f[x] \in Nat
    PROVE  SumOver(f, {x}) = f[x]
<1>1. Coins(f, {x}) = {x} \X (1 .. f[x])
  BY DEF Coins
<1>2. IsFiniteSet({x}) /\ Cardinality({x}) = 1
  BY FS_Singleton
<1>3. IsFiniteSet(1 .. f[x]) /\ Cardinality(1 .. f[x]) = f[x]
  BY FS_Interval
<1>4. Cardinality({x} \X (1 .. f[x])) = 1 * f[x]
  BY <1>2, <1>3, FS_Product
<1>5. Cardinality({x} \X (1 .. f[x])) = f[x]
  BY <1>4
<1> QED
  BY <1>1, <1>5 DEF SumOver

\* Taking one token out of a sum.
LEMMA SumRemove ==
    ASSUME NEW S, IsFiniteSet(S), NEW x \in S,
           NEW f, \A y \in S : f[y] \in Nat
    PROVE  SumOver(f, S) = f[x] + SumOver(f, S \ {x})
<1>1. IsFiniteSet({x}) /\ IsFiniteSet(S \ {x})
  BY FS_Singleton, FS_RemoveElement
<1>2. SumOver(f, {x} \cup (S \ {x})) = SumOver(f, {x}) + SumOver(f, S \ {x})
  BY <1>1, SumDisjoint
<1>3. {x} \cup (S \ {x}) = S
  OBVIOUS
<1> QED
  BY <1>2, <1>3, SumSingleton

\* Taking a subset out of a sum.
LEMMA SumDifference ==
    ASSUME NEW S, IsFiniteSet(S), NEW T \in SUBSET S,
           NEW f, \A y \in S : f[y] \in Nat
    PROVE  SumOver(f, S) = SumOver(f, T) + SumOver(f, S \ T)
<1>1. IsFiniteSet(T) /\ IsFiniteSet(S \ T)
  BY FS_Subset, FS_Difference
<1>2. SumOver(f, T \cup (S \ T)) = SumOver(f, T) + SumOver(f, S \ T)
  BY <1>1, SumDisjoint
<1>3. T \cup (S \ T) = S
  OBVIOUS
<1> QED
  BY <1>2, <1>3

\* A sum of ones counts.
LEMMA SumOnes ==
    ASSUME NEW S, IsFiniteSet(S), NEW f, \A x \in S : f[x] = 1
    PROVE  SumOver(f, S) = Cardinality(S)
<1> DEFINE h == [x \in S |-> <<x, 1>>]
<1>1. \A c : c \in Coins(f, S) <=> \E x \in S : c = <<x, 1>>
  BY DEF Coins
<1>2. h \in Bijection(S, Coins(f, S))
  BY <1>1 DEF Bijection, Injection, Surjection, IsInjective
<1> HIDE DEF h
<1>3. ExistsBijection(S, Coins(f, S))
  BY <1>2 DEF ExistsBijection
<1> QED
  BY <1>3, FS_Bijection DEF SumOver

\* A sum of equal amounts is a product.
LEMMA SumConstant ==
    ASSUME NEW S, IsFiniteSet(S), NEW k \in Nat, NEW f, \A x \in S : f[x] = k
    PROVE  SumOver(f, S) = Cardinality(S) * k
<1>1. Coins(f, S) = S \X (1 .. k)
  BY DEF Coins
<1>2. IsFiniteSet(1 .. k) /\ Cardinality(1 .. k) = k
  BY FS_Interval
<1>3. Cardinality(S \X (1 .. k)) = Cardinality(S) * k
  BY <1>2, FS_Product
<1> QED
  BY <1>1, <1>3 DEF SumOver

\* A sum over tokens renamed one to one.
LEMMA SumReindex ==
    ASSUME NEW S, IsFiniteSet(S), NEW T, NEW h \in Bijection(S, T),
           NEW f, NEW g, \A x \in S : f[x] \in Nat /\ f[x] = g[h[x]]
    PROVE  SumOver(f, S) = SumOver(g, T)
<1> DEFINE k == [c \in Coins(f, S) |-> <<h[c[1]], c[2]>>]
<1>1. \A c : c \in Coins(f, S) <=> \E x \in S : \E n \in 1 .. f[x] : c = <<x, n>>
  BY DEF Coins
<1>2. \A c : c \in Coins(g, T) <=> \E y \in T : \E n \in 1 .. g[y] : c = <<y, n>>
  BY DEF Coins
<1>3. /\ \A x \in S : h[x] \in T
      /\ \A x, y \in S : h[x] = h[y] => x = y
      /\ \A y \in T : \E x \in S : h[x] = y
  BY DEF Bijection, Injection, Surjection, IsInjective
<1>4. \A c \in Coins(f, S) : k[c] \in Coins(g, T)
  BY <1>1, <1>2, <1>3
<1>5. \A c, d \in Coins(f, S) : k[c] = k[d] => c = d
  BY <1>1, <1>3
<1>6. \A e \in Coins(g, T) : \E c \in Coins(f, S) : k[c] = e
  <2> SUFFICES ASSUME NEW e \in Coins(g, T)
               PROVE  \E c \in Coins(f, S) : k[c] = e
    OBVIOUS
  <2>1. PICK y \in T : \E n \in 1 .. g[y] : e = <<y, n>>
    BY <1>2
  <2>2. PICK n \in 1 .. g[y] : e = <<y, n>>
    BY <2>1
  <2>3. PICK x \in S : h[x] = y
    BY <1>3
  <2>4. <<x, n>> \in Coins(f, S)
    BY <1>1, <2>2, <2>3
  <2> QED
    BY <2>2, <2>3, <2>4
<1>7. k \in [Coins(f, S) -> Coins(g, T)]
  BY <1>4
<1> HIDE DEF k
<1>8. k \in Bijection(Coins(f, S), Coins(g, T))
  BY <1>5, <1>6, <1>7 DEF Bijection, Injection, Surjection, IsInjective
<1>9. ExistsBijection(Coins(f, S), Coins(g, T))
  BY <1>8 DEF ExistsBijection
<1> QED
  BY <1>9, CoinsFinite, FS_Bijection DEF SumOver

\* Exchanging A for B beside an untouched rest R.
LEMMA SumExchange ==
    ASSUME NEW A, NEW B, NEW R, IsFiniteSet(A), IsFiniteSet(B), IsFiniteSet(R),
           A \cap R = {}, B \cap R = {}, NEW f, NEW g,
           \A x \in A \cup R : f[x] \in Nat, \A x \in B \cup R : g[x] \in Nat,
           \A x \in R : f[x] = g[x]
    PROVE  SumOver(g, B \cup R) + SumOver(f, A)
               = SumOver(f, A \cup R) + SumOver(g, B)
<1>1. SumOver(f, A \cup R) = SumOver(f, A) + SumOver(f, R)
  BY SumDisjoint
<1>2. SumOver(g, B \cup R) = SumOver(g, B) + SumOver(g, R)
  BY SumDisjoint
<1>3. SumOver(f, R) = SumOver(g, R)
  BY SumSame
<1>4. /\ SumOver(f, A) \in Nat /\ SumOver(g, B) \in Nat
      /\ SumOver(f, R) \in Nat
  BY SumNat
<1> QED
  BY <1>1, <1>2, <1>3, <1>4

\* What contributes nothing can be left out of a sum, finite or not.
LEMMA SumSupport ==
    ASSUME NEW S, NEW T \in SUBSET S, NEW f, \A x \in S \ T : f[x] = 0
    PROVE  SumOver(f, S) = SumOver(f, T)
<1>1. \A x \in S \ T : {x} \X (1 .. f[x]) = {}
  OBVIOUS
<1>2. Coins(f, S) = Coins(f, T)
  BY <1>1 DEF Coins
<1> QED
  BY <1>2 DEF SumOver

-----------------------------------------------------------------------------
(* Induction, and lists filled in turn.                                     *)

\* A set of naturals that is not empty has a least member.
LEMMA LeastNat ==
    ASSUME NEW T \in SUBSET Nat, T # {}
    PROVE  \E x \in T : \A y \in T : x <= y
<1> DEFINE Below(n) == 0 .. n - 1
           Belows == {Below(n) : n \in T}
<1>1. \A n \in T : IsFiniteSet(Below(n)) /\ Below(n) \in SUBSET Nat
  BY FS_Interval
<1>2. Belows \subseteq FiniteSubsetsOf(Nat) /\ Belows # {}
  BY <1>1 DEF FiniteSubsetsOf
<1>3. IsWellFoundedOn(StrictSubsetOrdering(Nat), FiniteSubsetsOf(Nat))
  BY FS_StrictSubsetOrderingWellFounded
<1>4. \E B \in Belows : \A C \in Belows :
          <<C, B>> \notin StrictSubsetOrdering(Nat)
  <2> HIDE DEF Belows
  <2> QED
    BY <1>2, <1>3, WFMin
<1>5. PICK x \in T : \A C \in Belows :
          <<C, Below(x)>> \notin StrictSubsetOrdering(Nat)
  BY <1>4
<1>6. ASSUME NEW y \in T, y < x
      PROVE  FALSE
  <2>1. Below(y) \in SUBSET Below(x) /\ Below(y) # Below(x)
    <3>1. y \in Below(x) /\ y \notin Below(y)
      BY <1>6
    <3>2. Below(y) \in SUBSET Below(x)
      BY <1>6
    <3> QED
      BY <3>1, <3>2
  <2>2. <<Below(y), Below(x)>> \in StrictSubsetOrdering(Nat)
    <3>1. Below(y) \in SUBSET Nat /\ Below(x) \in SUBSET Nat
      BY <1>1
    <3> HIDE DEF Below
    <3> QED
      BY <2>1, <3>1 DEF StrictSubsetOrdering
  <2> QED
    BY <1>5, <2>2
<1> QED
  BY <1>6

\* Induction, on a set of naturals.
LEMMA NatSetInduction ==
    ASSUME NEW G \in SUBSET Nat, 0 \in G, \A n \in G : n + 1 \in G
    PROVE  G = Nat
<1> SUFFICES ASSUME Nat \ G # {} PROVE FALSE
  OBVIOUS
<1>1. PICK x \in Nat \ G : \A y \in Nat \ G : x <= y
  BY LeastNat
<1>2. x # 0 /\ x - 1 \in Nat /\ x - 1 \in G
  BY <1>1
<1> QED
  BY <1>1, <1>2

\* A smaller amount of each token makes a smaller sum.
LEMMA SumLe ==
    ASSUME NEW S, IsFiniteSet(S), NEW f, NEW g,
           \A x \in S : f[x] \in Nat /\ g[x] \in Nat /\ f[x] <= g[x]
    PROVE  SumOver(f, S) <= SumOver(g, S)
<1>1. IsFiniteSet(Coins(g, S))
  BY CoinsFinite
<1>2. Coins(f, S) \in SUBSET Coins(g, S)
  <2> SUFFICES ASSUME NEW c \in Coins(f, S) PROVE c \in Coins(g, S)
    OBVIOUS
  <2>1. PICK x \in S : c \in {x} \X (1 .. f[x])
    BY DEF Coins
  <2>2. c \in {x} \X (1 .. g[x])
    BY <2>1
  <2> QED
    BY <2>2 DEF Coins
<1> QED
  BY <1>1, <1>2, FS_Subset DEF SumOver

\* The sum of a list grows by its next entry.
LEMMA SumNext ==
    ASSUME NEW m \in Nat, NEW f, \A k \in 1 .. m + 1 : f[k] \in Nat
    PROVE  SumOver(f, 1 .. m + 1) = SumOver(f, 1 .. m) + f[m + 1]
<1>1. IsFiniteSet(1 .. m + 1) /\ IsFiniteSet(1 .. m)
  BY FS_Interval
<1>2. (1 .. m + 1) \ {m + 1} = 1 .. m /\ m + 1 \in 1 .. m + 1
  OBVIOUS
<1>3. SumOver(f, 1 .. m + 1) = f[m + 1] + SumOver(f, (1 .. m + 1) \ {m + 1})
  BY <1>1, <1>2, SumRemove
<1>4. SumOver(f, 1 .. m) \in Nat
  BY <1>1, SumNat
<1> QED
  BY <1>2, <1>3, <1>4

\* Each place of a list takes what the capacities before it left over, up to its
\* own capacity.
FilledInTurn(a, c, o, n) ==
    \A k \in 1 .. n :
        LET filled == SumOver(c, 1 .. k - 1)
        IN  a[k] = IF filled >= o THEN 0
                   ELSE IF o - filled < c[k] THEN o - filled
                   ELSE c[k]

\* A list filled in turn, each place to its capacity, holds what is poured in or
\* all it can.
LEMMA GreedyFill ==
    ASSUME NEW n \in Nat, NEW c \in [1 .. n -> Nat], NEW o \in Nat, NEW a,
           FilledInTurn(a, c, o, n), o <= SumOver(c, 1 .. n)
    PROVE  SumOver(a, 1 .. n) = o
<1> DEFINE C(m) == SumOver(c, 1 .. m)
           A(m) == SumOver(a, 1 .. m)
           Poured(m) == A(m) = IF C(m) <= o THEN C(m) ELSE o
           G == {m \in Nat : m <= n => Poured(m)}
<1>1. \A m \in 0 .. n : C(m) \in Nat
  <2> SUFFICES ASSUME NEW m \in 0 .. n PROVE C(m) \in Nat
    OBVIOUS
  <2>1. \A x \in 1 .. m : c[x] \in Nat
    OBVIOUS
  <2>2. IsFiniteSet(1 .. m)
    BY FS_Interval
  <2> QED
    BY <2>1, <2>2, SumNat
<1>2. \A k \in 1 .. n : a[k] = IF C(k - 1) >= o THEN 0
                               ELSE IF o - C(k - 1) < c[k] THEN o - C(k - 1)
                               ELSE c[k]
  BY DEF FilledInTurn
<1>3. \A k \in 1 .. n : a[k] \in Nat
  <2> SUFFICES ASSUME NEW k \in 1 .. n PROVE a[k] \in Nat
    OBVIOUS
  <2>1. C(k - 1) \in Nat /\ c[k] \in Nat
    BY <1>1
  <2>2. PICK b : b = C(k - 1)
    OBVIOUS
  <2>3. a[k] = IF b >= o THEN 0 ELSE IF o - b < c[k] THEN o - b ELSE c[k]
    BY <1>2, <2>2
  <2> HIDE DEF C
  <2> QED
    BY <2>1, <2>2, <2>3
<1>4. 0 \in G
  <2>1. 1 .. 0 = {}
    OBVIOUS
  <2>2. C(0) = 0 /\ A(0) = 0
    BY <2>1, SumEmpty
  <2> QED
    BY <2>2
<1>5. ASSUME NEW m \in G
      PROVE  m + 1 \in G
  <2> SUFFICES ASSUME m + 1 <= n PROVE Poured(m + 1)
    OBVIOUS
  <2>1. m \in Nat /\ m \in 0 .. n /\ m + 1 \in 1 .. n /\ (m + 1) - 1 = m
    OBVIOUS
  <2>2. Poured(m)
    BY <1>5
  <2>3. C(m + 1) = C(m) + c[m + 1]
    <3>1. \A k \in 1 .. m + 1 : c[k] \in Nat
      BY <2>1
    <3> QED
      BY <2>1, <3>1, SumNext
  <2>4. A(m + 1) = A(m) + a[m + 1]
    <3>1. \A k \in 1 .. m + 1 : a[k] \in Nat
      BY <1>3, <2>1
    <3> QED
      BY <2>1, <3>1, SumNext
  <2>5. /\ C(m) \in Nat /\ c[m + 1] \in Nat
        /\ a[m + 1] = IF C(m) >= o THEN 0
                      ELSE IF o - C(m) < c[m + 1] THEN o - C(m) ELSE c[m + 1]
    BY <1>1, <1>2, <2>1
  <2> HIDE DEF C, A
  <2> QED
    BY <2>2, <2>3, <2>4, <2>5
<1>6. n \in G
  <2>1. G = Nat
    <3> HIDE DEF G
    <3>1. G \in SUBSET Nat
      BY DEF G
    <3> QED
      BY <1>4, <1>5, <3>1, NatSetInduction
  <2> QED
    BY <2>1
<1>7. C(n) \in Nat /\ o <= C(n)
  BY <1>1
<1>8. Poured(n)
  BY <1>6
<1> HIDE DEF C
<1> QED
  BY <1>7, <1>8
=============================================================================
