--------------------------- MODULE IndexerEffects ---------------------------
(***************************************************************************)
(* Where a log leads the tables of the indexer: what its handlers make of  *)
(* the events of each operation of Shapes, one after the other, in loops   *)
(* of any length.  Nothing here depends on what the chain is.              *)
(***************************************************************************)
EXTENDS IndexerProperties, SumLemmas, FiniteSetTheorems, TLAPS

-----------------------------------------------------------------------------
(* Reading a log, one event at a time.                                     *)

\* Reading the events in a transaction of `sender` takes the tables from t to
\* u, and no handler throws on the way.
Yields(sender, t, events, u) ==
    \E S, T : /\ events \in Seq(S)
              /\ T[0] = t /\ T[Len(events)] = u
              /\ \A k \in 1 .. Len(events) :
                    ~Throws(T[k - 1], events[k])
                    /\ T[k] = Handled(T[k - 1], events[k], sender)

\* No event, no change.
LEMMA YieldsNone ==
    ASSUME NEW sender, NEW t
    PROVE  Yields(sender, t, <<>>, t)
<1> DEFINE T == [k \in {0} |-> t]
<1>1. <<>> \in Seq({}) /\ Len(<<>>) = 0 /\ T[0] = t
  OBVIOUS
<1> HIDE DEF T
<1>2. \A k \in 1 .. Len(<<>>) : FALSE
  BY <1>1
<1> QED
  BY <1>1, <1>2 DEF Yields

\* One event is read by its handler.
LEMMA YieldsOne ==
    ASSUME NEW sender, NEW t, NEW e, ~Throws(t, e)
    PROVE  Yields(sender, t, <<e>>, Handled(t, e, sender))
<1>1. PICK u, E : u = Handled(t, e, sender) /\ E = <<e>>
  OBVIOUS
<1> DEFINE T == [k \in 0 .. 1 |-> IF k = 0 THEN t ELSE u]
<1>2. E \in Seq({e}) /\ Len(E) = 1 /\ E[1] = e
  BY <1>1
<1>3. T[0] = t /\ T[1] = u
  OBVIOUS
<1> HIDE DEF T
<1>4. \A k \in 1 .. Len(E) : k = 1 /\ k - 1 = 0
  BY <1>2
<1>5. \A k \in 1 .. Len(E) : ~Throws(T[k - 1], E[k])
                              /\ T[k] = Handled(T[k - 1], E[k], sender)
  BY <1>1, <1>2, <1>3, <1>4
<1>6. T[Len(E)] = u
  BY <1>2, <1>3
<1>7. Yields(sender, t, E, u)
  BY <1>2, <1>3, <1>5, <1>6 DEF Yields
<1> QED
  BY <1>1, <1>7

\* Reading goes on where it stopped.
LEMMA YieldsThen ==
    ASSUME NEW sender, NEW t, NEW E, NEW u, NEW F, NEW v,
           Yields(sender, t, E, u), Yields(sender, u, F, v)
    PROVE  Yields(sender, t, E \o F, v)
<1>1. PICK A, P : /\ E \in Seq(A)
                  /\ P[0] = t /\ P[Len(E)] = u
                  /\ \A k \in 1 .. Len(E) :
                        ~Throws(P[k - 1], E[k])
                        /\ P[k] = Handled(P[k - 1], E[k], sender)
  BY DEF Yields
<1>2. PICK B, Q : /\ F \in Seq(B)
                  /\ Q[0] = u /\ Q[Len(F)] = v
                  /\ \A k \in 1 .. Len(F) :
                        ~Throws(Q[k - 1], F[k])
                        /\ Q[k] = Handled(Q[k - 1], F[k], sender)
  BY DEF Yields
<1>3. PICK m, n, G : m = Len(E) /\ n = Len(F) /\ G = E \o F
  OBVIOUS
<1>4. /\ m \in Nat /\ n \in Nat /\ Len(G) = m + n
      /\ \A k \in 1 .. m : G[k] = E[k]
      /\ \A k \in 1 .. n : G[m + k] = F[k]
      /\ G \in Seq(A \cup B)
  <2>1. E \in Seq(A \cup B) /\ F \in Seq(A \cup B)
    BY <1>1, <1>2
  <2> QED
    BY <1>3, <2>1
<1> DEFINE T == [k \in 0 .. m + n |-> IF k <= m THEN P[k] ELSE Q[k - m]]
<1>5. /\ \A k \in 0 .. m : T[k] = P[k]
      /\ \A k \in 0 .. n : T[m + k] = Q[k]
  <2>1. P[m] = Q[0]
    BY <1>1, <1>2, <1>3
  <2>2. ASSUME NEW k \in 0 .. m PROVE T[k] = P[k]
    BY <1>4
  <2>3. ASSUME NEW k \in 0 .. n PROVE T[m + k] = Q[k]
    <3>1. m + k \in 0 .. m + n /\ (m + k) - m = k /\ (m + k <= m <=> k = 0)
      BY <1>4
    <3> QED
      BY <1>4, <2>1, <3>1
  <2> QED
    BY <2>2, <2>3
<1> HIDE DEF T
<1>6. ASSUME NEW k \in 1 .. m + n
      PROVE  ~Throws(T[k - 1], G[k]) /\ T[k] = Handled(T[k - 1], G[k], sender)
  <2>1. CASE k <= m
    <3>1. k \in 1 .. m /\ k - 1 \in 0 .. m /\ k \in 0 .. m
      BY <1>4, <2>1
    <3>2. T[k - 1] = P[k - 1] /\ T[k] = P[k] /\ G[k] = E[k]
      BY <1>4, <1>5, <3>1
    <3> QED
      BY <1>1, <1>3, <3>1, <3>2
  <2>2. CASE ~(k <= m)
    <3>1. PICK j : j = k - m
      OBVIOUS
    <3>2. j \in 1 .. n /\ j - 1 \in 0 .. n /\ j \in 0 .. n
          /\ k = m + j /\ k - 1 = m + (j - 1)
      BY <1>4, <2>2, <3>1
    <3>3. T[k - 1] = Q[j - 1] /\ T[k] = Q[j] /\ G[k] = F[j]
      BY <1>4, <1>5, <3>2
    <3> QED
      BY <1>2, <1>3, <3>2, <3>3
  <2> QED
    BY <2>1, <2>2
<1>7. T[0] = t /\ T[m + n] = v
  <2>1. 0 \in 0 .. m /\ n \in 0 .. n
    BY <1>4
  <2> QED
    BY <1>1, <1>2, <1>3, <1>5, <2>1
<1>8. T[Len(G)] = v /\ \A k \in 1 .. Len(G) : k \in 1 .. m + n
  BY <1>4, <1>7
<1>9. PICK C : G \in Seq(C)
  BY <1>4
<1>10. \A k \in 1 .. Len(G) : ~Throws(T[k - 1], G[k])
                               /\ T[k] = Handled(T[k - 1], G[k], sender)
  BY <1>6, <1>8
<1>11. Yields(sender, t, G, v)
  BY <1>7, <1>8, <1>9, <1>10 DEF Yields
<1> QED
  BY <1>3, <1>11

\* What is left to read once the first event is handled.
LEMMA YieldsHead ==
    ASSUME NEW sender, NEW t, NEW E, NEW u, E # <<>>, Yields(sender, t, E, u)
    PROVE  /\ ~Throws(t, Head(E))
           /\ Yields(sender, Handled(t, Head(E), sender), Tail(E), u)
<1>1. PICK A, P : /\ E \in Seq(A)
                  /\ P[0] = t /\ P[Len(E)] = u
                  /\ \A k \in 1 .. Len(E) :
                        ~Throws(P[k - 1], E[k])
                        /\ P[k] = Handled(P[k - 1], E[k], sender)
  BY DEF Yields
<1>2. PICK n, F : n = Len(E) /\ F = Tail(E)
  OBVIOUS
<1>3. /\ n \in Nat /\ n >= 1 /\ F \in Seq(A) /\ Len(F) = n - 1
      /\ Head(E) = E[1] /\ \A k \in 1 .. n - 1 : F[k] = E[k + 1]
  BY <1>1, <1>2
<1>4. ~Throws(t, Head(E)) /\ P[1] = Handled(t, Head(E), sender)
  <2>1. 1 \in 1 .. n /\ 1 - 1 = 0
    BY <1>3
  <2> QED
    BY <1>1, <1>2, <1>3, <2>1
<1> DEFINE T == [k \in 0 .. n - 1 |-> P[k + 1]]
<1>5. \A k \in 0 .. n - 1 : T[k] = P[k + 1]
  OBVIOUS
<1> HIDE DEF T
<1>6. ASSUME NEW k \in 1 .. n - 1
      PROVE  ~Throws(T[k - 1], F[k]) /\ T[k] = Handled(T[k - 1], F[k], sender)
  <2>1. /\ k + 1 \in 1 .. n /\ (k + 1) - 1 = k /\ (k - 1) + 1 = k
        /\ k \in 0 .. n - 1 /\ k - 1 \in 0 .. n - 1
    BY <1>3
  <2>2. T[k - 1] = P[k] /\ T[k] = P[k + 1] /\ F[k] = E[k + 1]
    BY <1>3, <1>5, <2>1
  <2> QED
    BY <1>1, <1>2, <2>1, <2>2
<1>7. T[0] = P[1] /\ T[n - 1] = u
  <2>1. 0 \in 0 .. n - 1 /\ n - 1 \in 0 .. n - 1 /\ (n - 1) + 1 = n /\ 0 + 1 = 1
    BY <1>3
  <2> QED
    BY <1>1, <1>2, <1>5, <2>1
<1> QED
  BY <1>2, <1>3, <1>4, <1>6, <1>7 DEF Yields

\* A log of two events, one event at a time.
LEMMA Pair == ASSUME NEW a, NEW b PROVE <<a>> \o <<b>> = <<a, b>>
<1>1. PICK S, P, Q, R : S = {a, b} /\ P = <<a>> /\ Q = <<b>> /\ R = <<a, b>>
  OBVIOUS
<1>2. P \in Seq(S) /\ Q \in Seq(S) /\ R \in Seq(S)
  BY <1>1
<1>3. P \o Q \in Seq(S) /\ Len(P \o Q) = 2 /\ Len(R) = 2
  BY <1>1, <1>2
<1>4. (P \o Q)[1] = R[1] /\ (P \o Q)[2] = R[2]
  BY <1>1, <1>2
<1>6. \A k \in 1 .. 2 : k = 1 \/ k = 2
  OBVIOUS
<1>5. P \o Q = R
  <2>1. PICK W : W = P \o Q
    OBVIOUS
  <2>2. W \in Seq(S) /\ Len(W) = Len(R) /\ \A k \in 1 .. Len(R) : W[k] = R[k]
    BY <1>3, <1>4, <1>6, <2>1
  <2>3. W = R
    BY <1>2, <2>2
  <2> QED BY <2>1, <2>3
<1> QED
  BY <1>1, <1>5

\* With nothing left to read the tables are where the events lead.
LEMMA YieldsEmpty ==
    ASSUME NEW sender, NEW t, NEW u, Yields(sender, t, <<>>, u)
    PROVE  u = t
<1>1. PICK E : E = <<>>
  OBVIOUS
<1>2. Len(E) = 0
  BY <1>1
<1>3. PICK T : T[0] = t /\ T[Len(E)] = u
  BY <1>1 DEF Yields
<1> QED
  BY <1>2, <1>3

-----------------------------------------------------------------------------
(* The loops of the contract list ids in increasing order.                 *)

\* A set of ids is finite, and its size a number.
LEMMA SetsOfIds ==
    /\ Ids \subseteq Nat
    /\ \A S \in SUBSET Ids : IsFiniteSet(S) /\ Cardinality(S) \in Nat
<1>1. Ids = 0 .. MaxMinted - 1 /\ MaxMinted \in Nat
  BY BoundsAssumption DEF Ids
<1>2. IsFiniteSet(Ids)
  <2>1. 0 \in Int /\ MaxMinted - 1 \in Int
    BY <1>1
  <2> QED
    BY <1>1, <2>1, FS_Interval
<1>3. ASSUME NEW S \in SUBSET Ids
      PROVE  IsFiniteSet(S) /\ Cardinality(S) \in Nat
  <2>1. IsFiniteSet(S)
    BY <1>2, FS_Subset
  <2> QED
    BY <2>1, FS_CardinalityType
<1>4. Ids \subseteq Nat
  BY <1>1
<1> QED
  BY <1>3, <1>4

\* A set of ids can be listed in increasing order.
LEMMA InOrder ==
    ASSUME NEW S \in SUBSET Ids
    PROVE  \E f \in [1 .. Cardinality(S) -> S] :
              \A j, k \in 1 .. Cardinality(S) : j < k => f[j] < f[k]
<1> DEFINE Ordered(T, n) ==
               \E f \in [1 .. n -> T] : \A j, k \in 1 .. n : j < k => f[j] < f[k]
           G == {n \in Nat : \A T \in SUBSET Ids :
                    Cardinality(T) = n => Ordered(T, n)}
<1>1. 0 \in G
  <2> SUFFICES ASSUME NEW T \in SUBSET Ids PROVE Ordered(T, 0)
    OBVIOUS
  <2>1. PICK I : I = 1 .. 0
    OBVIOUS
  <2>2. \A j : j \notin I
    BY <2>1
  <2>3. [k \in I |-> 0] \in [I -> T] /\ \A j, k \in I : FALSE
    BY <2>2
  <2> QED
    BY <2>1, <2>3
<1>2. ASSUME NEW n \in G PROVE n + 1 \in G
  <2> SUFFICES ASSUME NEW T \in SUBSET Ids, Cardinality(T) = n + 1
               PROVE  Ordered(T, n + 1)
    OBVIOUS
  <2>1. n \in Nat /\ IsFiniteSet(T) /\ T \in SUBSET Nat
    BY SetsOfIds
  <2>2. T # {}
    BY <2>1, FS_EmptySet
  <2>3. PICK x \in T : \A y \in T : x <= y
    BY <2>1, <2>2, LeastNat
  <2>4. PICK U : U = T \ {x}
    OBVIOUS
  <2>5. U \in SUBSET Ids /\ Cardinality(U) = n
    <3>1. Cardinality(U) = (n + 1) - 1
      BY <2>1, <2>3, <2>4, FS_RemoveElement
    <3> QED
      BY <2>1, <2>4, <3>1
  <2>6. PICK f \in [1 .. n -> U] : \A j, k \in 1 .. n : j < k => f[j] < f[k]
    BY <2>5
  <2>7. PICK g : g = [k \in 1 .. n + 1 |-> IF k = 1 THEN x ELSE f[k - 1]]
    OBVIOUS
  <2>8. ASSUME NEW k \in 1 .. n + 1
        PROVE  /\ k = 1 => g[k] = x
               /\ k # 1 => k - 1 \in 1 .. n /\ g[k] = f[k - 1] /\ g[k] \in U
               /\ g[k] \in T
    BY <2>1, <2>3, <2>4, <2>6, <2>7
  <2>9. g \in [1 .. n + 1 -> T]
    BY <2>7, <2>8
  <2>10. ASSUME NEW j \in 1 .. n + 1, NEW k \in 1 .. n + 1, j < k
         PROVE  g[j] < g[k]
    <3>1. k # 1 /\ k - 1 \in 1 .. n /\ g[k] = f[k - 1] /\ g[k] \in U
      BY <2>1, <2>8, <2>10
    <3>2. CASE j = 1
      <4>1. g[j] = x /\ g[k] # x /\ x <= g[k] /\ x \in Nat /\ g[k] \in Nat
        BY <2>1, <2>3, <2>4, <2>8, <3>1, <3>2
      <4> QED
        BY <4>1
    <3>3. CASE j # 1
      <4>1. j - 1 \in 1 .. n /\ g[j] = f[j - 1] /\ j - 1 < k - 1
        BY <2>1, <2>8, <2>10, <3>3
      <4> QED
        BY <2>6, <3>1, <4>1
    <3> QED
      BY <3>2, <3>3
  <2> QED
    BY <2>9, <2>10
<1> HIDE DEF G
<1>3. G = Nat
  <2>1. G \in SUBSET Nat
    BY DEF G
  <2> QED
    BY <1>1, <1>2, <2>1, NatSetInduction
<1>4. Cardinality(S) \in G
  BY <1>3, SetsOfIds
<1> QED
  BY <1>4 DEF G

\* The list of a loop over a set of ids names each of them.
LEMMA ListedAll ==
    ASSUME NEW S \in SUBSET Ids
    PROVE  /\ Listed(S) \in [1 .. Cardinality(S) -> S]
           /\ \A i \in S : \E k \in 1 .. Cardinality(S) : Listed(S)[k] = i
<1>1. PICK n, f : n = Cardinality(S) /\ f = Listed(S)
  OBVIOUS
<1>2. n \in Nat /\ IsFiniteSet(S) /\ S \subseteq Nat
  BY <1>1, SetsOfIds
<1>3. /\ f \in [1 .. n -> S]
      /\ \A j, k \in 1 .. n : j < k => f[j] < f[k]
  <2>1. \E g \in [1 .. n -> S] : \A j, k \in DOMAIN g : j < k => g[j] < g[k]
    BY <1>1, InOrder
  <2>2. f = CHOOSE g \in [1 .. n -> S] :
                \A j, k \in DOMAIN g : j < k => g[j] < g[k]
    BY <1>1 DEF Listed
  <2>3. f \in [1 .. n -> S] /\ \A j, k \in DOMAIN f : j < k => f[j] < f[k]
    BY <2>1, <2>2
  <2> QED
    BY <2>3
<1>4. ASSUME NEW j \in 1 .. n, NEW k \in 1 .. n, f[j] = f[k]
      PROVE  j = k
  <2>1. f[j] \in Nat /\ j \in Nat /\ k \in Nat
    <3>1. f[j] \in S
      BY <1>3
    <3>2. f[j] \in Nat
      BY <1>2, <3>1, Zenon
    <3>3. j \in Nat /\ k \in Nat
      BY <1>2
    <3> QED
      BY <3>2, <3>3, Zenon
  <2>2. ~(j < k) /\ ~(k < j)
    BY <1>3, <1>4, <2>1
  <2> QED
    BY <2>1, <2>2
<1>5. f \in Injection(1 .. n, S)
  BY <1>3, <1>4 DEF Injection, IsInjective
<1>6. Cardinality(1 .. n) = n
  <2>1. Cardinality(1 .. n) = IF 1 > n THEN 0 ELSE n - 1 + 1
    BY <1>2, FS_Interval
  <2> QED
    BY <1>2, <2>1
<1>7. f \in Surjection(1 .. n, S)
  BY <1>1, <1>2, <1>5, <1>6, FS_Injection
<1> QED
  BY <1>1, <1>3, <1>7 DEF Surjection

-----------------------------------------------------------------------------
(* The tables, and what the handlers make of the events of a loop.         *)

\* The rows of the schema: token, collectionOwner, lineageEdge, the kinds of the
\* activity feed, and the cards of the escrow.
Row == [seed : Seeds, denom : Denoms, backing : Nat, origins : Nat,
        depth : Int, art : Arts, black : BOOLEAN, live : BOOLEAN,
        owner : Accounts \cup {NoOne}, splitFrom : Denoms \cup {Null},
        splitOrigin : Denoms \cup {Null}, mintDenom : Denoms]
OwnerRow == [tokenId : 0 .. MaxMinted, address : Accounts \cup {NoOne}]
Edge == [kind : {"continuation", "split", "revival"}, parent : Ids,
         children : SUBSET Ids, parentDenom : Denoms]
FeedKinds == {"mint", "compose", "split", "decompose", "burnBacking", "redeem",
              "ownerTokenMoved", "transfer"}
FeedRow == [kind : FeedKinds, ids : SUBSET Ids]
Card == Ids \X Denoms

\* The tables once m ids were minted.
TablesOf(m) == [token : [0 .. m - 1 -> Row], collectionOwner : OwnerRow,
                lineageEdge : Seq(Edge), activity : SUBSET FeedRow,
                escrowedCard : SUBSET Card]

\* Reading n events takes n turns of the handlers.
LEMMA RunOf ==
    ASSUME NEW sender, NEW n \in Nat, NEW E, E = [k \in 1 .. n |-> E[k]],
           NEW V, \A k \in 1 .. n : ~Throws(V[k - 1], E[k])
                                    /\ V[k] = Handled(V[k - 1], E[k], sender)
    PROVE  Yields(sender, V[0], E, V[n])
<1>1. PICK C : C = {E[k] : k \in 1 .. n}
  OBVIOUS
<1>2. E \in Seq(C) /\ Len(E) = n
  BY <1>1
<1> QED
  BY <1>2 DEF Yields

\* Which handler reads which event.
LEMMA HandledKinds ==
    ASSUME NEW t, NEW e, NEW sender
    PROVE  /\ e.event = "ShapeMinted" => Handled(t, e, sender) = OnShapeMinted(t, e)
           /\ e.event = "ArtSet" => Handled(t, e, sender) = OnArtSet(t, e)
           /\ e.event = "Composed" => Handled(t, e, sender) = OnComposed(t, e)
           /\ e.event = "Split" => Handled(t, e, sender) = OnSplit(t, e, sender)
           /\ e.event = "Decomposed" =>
                 Handled(t, e, sender) = OnDecomposed(t, e, sender)
           /\ e.event = "BlackShapeCreated" =>
                 Handled(t, e, sender) = OnBlackShapeCreated(t, e)
           /\ e.event = "ShapeRedeemed" =>
                 Handled(t, e, sender) = OnShapeRedeemed(t, e)
           /\ e.event = "OwnerTokenMoved" =>
                 Handled(t, e, sender) = OnOwnerTokenMoved(t, e)
           /\ e.event = "Transfer" => Handled(t, e, sender) = OnTransfer(t, e)
BY DEF Handled

\* What a loop over the ids of S has been through after k turns.
LEMMA TakenAll ==
    ASSUME NEW S \in SUBSET Ids, NEW L, L = Listed(S), NEW n, n = Cardinality(S)
    PROVE  /\ n \in Nat
           /\ \A k \in 1 .. n : L[k] \in S
           /\ {L[j] : j \in 1 .. n} = S
           /\ {L[j] : j \in 1 .. 0} = {}
           /\ \A k \in 1 .. n :
                 {L[j] : j \in 1 .. k} = {L[j] : j \in 1 .. k - 1} \cup {L[k]}
<1>1. n \in Nat
  BY SetsOfIds
<1>2. L \in [1 .. n -> S] /\ \A i \in S : \E k \in 1 .. n : L[k] = i
  BY ListedAll
<1>3. {L[j] : j \in 1 .. n} = S
  BY <1>2
<1>4. {L[j] : j \in 1 .. 0} = {}
  OBVIOUS
<1>5. ASSUME NEW k \in 1 .. n
      PROVE  {L[j] : j \in 1 .. k} = {L[j] : j \in 1 .. k - 1} \cup {L[k]}
  <2>1. 1 .. k = (1 .. k - 1) \cup {k}
    BY <1>1
  <2> QED
    BY <2>1
<1> QED
  BY <1>1, <1>2, <1>3, <1>4, <1>5

\* The ArtSet events of a loop set the art of each of its ids.
LEMMA ArtLoop ==
    ASSUME NEW sender, NEW m \in Nat, NEW t \in TablesOf(m),
           NEW S \in SUBSET Ids, S \subseteq 0 .. m - 1,
           NEW a, \A i \in S : a[i] \in Arts,
           NEW E, E = [k \in 1 .. Cardinality(S) |->
                         ArtSet(Listed(S)[k], a[Listed(S)[k]])]
    PROVE  Yields(sender, t, E,
                  [t EXCEPT !.token =
                      [i \in 0 .. m - 1 |->
                          IF i \in S THEN [t.token[i] EXCEPT !.art = a[i]]
                          ELSE t.token[i]]])
<1>1. PICK L, n : L = Listed(S) /\ n = Cardinality(S)
  OBVIOUS
<1> DEFINE First(k) == {L[j] : j \in 1 .. k}
           V == [k \in 0 .. n |->
                   [t EXCEPT !.token =
                      [i \in 0 .. m - 1 |->
                          IF i \in First(k) THEN [t.token[i] EXCEPT !.art = a[i]]
                          ELSE t.token[i]]]]
<1>2. /\ n \in Nat
      /\ \A k \in 1 .. n : L[k] \in S
      /\ First(n) = S
      /\ First(0) = {}
      /\ \A k \in 1 .. n : First(k) = First(k - 1) \cup {L[k]}
  BY <1>1, TakenAll
<1>3. /\ E = [k \in 1 .. n |-> E[k]]
      /\ \A k \in 1 .. n : E[k] = [event |-> "ArtSet", id |-> L[k], art |-> a[L[k]]]
  BY <1>1 DEF ArtSet
<1> HIDE DEF First
<1>4. ASSUME NEW k \in 1 .. n
      PROVE  ~Throws(V[k - 1], E[k]) /\ V[k] = Handled(V[k - 1], E[k], sender)
  <2>1. PICK e, i, w, A : /\ e = E[k] /\ i = L[k] /\ w = V[k - 1]
                          /\ A = First(k - 1)
    OBVIOUS
  <2>2. k \in 0 .. n /\ k - 1 \in 0 .. n /\ First(k) = A \cup {i}
    BY <1>2, <2>1
  <2>3. /\ w = [t EXCEPT !.token =
                   [j \in 0 .. m - 1 |-> IF j \in A
                                         THEN [t.token[j] EXCEPT !.art = a[j]]
                                         ELSE t.token[j]]]
        /\ V[k] = [t EXCEPT !.token =
                   [j \in 0 .. m - 1 |-> IF j \in A \cup {i}
                                         THEN [t.token[j] EXCEPT !.art = a[j]]
                                         ELSE t.token[j]]]
    BY <2>1, <2>2
  <2>4. /\ i \in S /\ i \in 0 .. m - 1
        /\ e = [event |-> "ArtSet", id |-> i, art |-> a[i]]
        /\ e.event = "ArtSet" /\ e.id = i /\ e.art = a[i]
    <3>1. i \in S /\ i \in 0 .. m - 1
      BY <1>2, <2>1
    <3>2. e = [event |-> "ArtSet", id |-> i, art |-> a[i]]
      BY <1>3, <2>1
    <3> QED
      BY <3>1, <3>2
  <2> HIDE DEF V
  <2>5. /\ DOMAIN w.token = 0 .. m - 1
        /\ w.token = [j \in 0 .. m - 1 |-> IF j \in A
                                         THEN [t.token[j] EXCEPT !.art = a[j]]
                                         ELSE t.token[j]]
    BY <2>3 DEF TablesOf
  <2>6. ~Throws(w, e)
    BY <2>4, <2>5 DEF Throws, RowsNeeded, RowsInserted
  <2>7. Handled(w, e, sender) = [w EXCEPT !.token[i].art = a[i]]
    <3>1. Handled(w, e, sender) = OnArtSet(w, e)
      BY <2>4, HandledKinds
    <3>2. OnArtSet(w, e) = [w EXCEPT !.token[i].art = a[i]]
      BY <2>4, Zenon DEF OnArtSet
    <3> QED
      BY <3>1, <3>2
  <2>8. [w EXCEPT !.token[i].art = a[i]] = V[k]
    <3>1. PICK f, g : /\ f = [w.token EXCEPT ![i] = [w.token[i] EXCEPT !.art = a[i]]]
                      /\ g = [j \in 0 .. m - 1 |-> IF j \in A \cup {i}
                                         THEN [t.token[j] EXCEPT !.art = a[j]]
                                         ELSE t.token[j]]
      OBVIOUS
    <3>2. [w.token[i] EXCEPT !.art = a[i]] = [t.token[i] EXCEPT !.art = a[i]]
      BY <2>4, <2>5 DEF TablesOf, Row
    <3>3. f = g
      BY <2>4, <2>5, <3>1, <3>2
    <3>4. [w EXCEPT !.token[i].art = a[i]] = [w EXCEPT !.token = f]
      BY <3>1
    <3>5. [w EXCEPT !.token = f] = [t EXCEPT !.token = f]
      BY <2>3 DEF TablesOf
    <3> QED
      BY <2>3, <3>1, <3>3, <3>4, <3>5
  <2> QED
    BY <2>1, <2>6, <2>7, <2>8
<1>5. V[0] = t
  <2>1. [i \in 0 .. m - 1 |-> IF i \in First(0) THEN [t.token[i] EXCEPT !.art = a[i]]
                              ELSE t.token[i]] = t.token
    BY <1>2 DEF TablesOf
  <2>2. V[0] = [t EXCEPT !.token = t.token]
    BY <1>2, <2>1
  <2> QED
    BY <2>2 DEF TablesOf
<1>6. V[n] = [t EXCEPT !.token =
                      [i \in 0 .. m - 1 |->
                          IF i \in S THEN [t.token[i] EXCEPT !.art = a[i]]
                          ELSE t.token[i]]]
  BY <1>2
<1> HIDE DEF V
<1>7. Yields(sender, V[0], E, V[n])
  BY <1>2, <1>3, <1>4, RunOf
<1> QED
  BY <1>5, <1>6, <1>7

\* The Transfers of a loop of burns change nothing: the event that says what
\* the burn was for does.
LEMMA BurnLoop ==
    ASSUME NEW sender, NEW t, NEW S \in SUBSET Ids, NEW caller,
           NEW E, E = [k \in 1 .. Cardinality(S) |->
                         Transfer(caller, NoOne, Listed(S)[k])]
    PROVE  Yields(sender, t, E, t)
<1>1. PICK L, n : L = Listed(S) /\ n = Cardinality(S)
  OBVIOUS
<1>2. n \in Nat
  BY <1>1, TakenAll
<1>3. /\ E = [k \in 1 .. n |-> E[k]]
      /\ \A k \in 1 .. n : E[k] = [event |-> "Transfer", from |-> caller,
                                   to |-> NoOne, id |-> L[k]]
  BY <1>1 DEF Transfer
<1> DEFINE V == [k \in 0 .. n |-> t]
<1>4. \A k \in 0 .. n : V[k] = t
  OBVIOUS
<1> HIDE DEF V
<1>5. ASSUME NEW k \in 1 .. n
      PROVE  ~Throws(V[k - 1], E[k]) /\ V[k] = Handled(V[k - 1], E[k], sender)
  <2>1. V[k - 1] = t /\ V[k] = t
    BY <1>2, <1>4
  <2>2. PICK e : e = E[k]
    OBVIOUS
  <2>3. e.event = "Transfer" /\ e.to = NoOne
    <3>1. e = [event |-> "Transfer", from |-> caller, to |-> NoOne, id |-> L[k]]
      BY <1>3, <2>2
    <3> QED
      BY <3>1
  <2>4. ~Throws(t, e)
    BY <2>3 DEF Throws, RowsNeeded, RowsInserted
  <2>5. Handled(t, e, sender) = OnTransfer(t, e)
    BY <2>3, HandledKinds
  <2>6. OnTransfer(t, e) = t
    BY <2>3 DEF OnTransfer
  <2> QED
    BY <2>1, <2>2, <2>4, <2>5, <2>6
<1>6. Yields(sender, V[0], E, V[n])
  BY <1>2, <1>3, <1>5, RunOf
<1>7. V[0] = t /\ V[n] = t
  BY <1>2, <1>4
<1> QED
  BY <1>6, <1>7

\* The rows once those of S are no longer live.
Dead(t, m, S) == [i \in 0 .. m - 1 |->
                     IF i \in S THEN [t.token[i] EXCEPT !.live = FALSE]
                     ELSE t.token[i]]

\* The rows of the feed that redeeming the ids of S adds.
RedeemedRows(S) == {ActivityRow("redeem", {i}) : i \in S}

\* The ShapeRedeemed events of a loop end each of its tokens, each in a row of
\* the feed.
LEMMA RedeemLoop ==
    ASSUME NEW sender, NEW m \in Nat, NEW t \in TablesOf(m),
           NEW S \in SUBSET Ids, S \subseteq 0 .. m - 1, NEW to,
           NEW E, E = [k \in 1 .. Cardinality(S) |->
                         ShapeRedeemed(Listed(S)[k], to)]
    PROVE  Yields(sender, t, E,
                  [t EXCEPT !.token = Dead(t, m, S),
                            !.activity = t.activity \cup RedeemedRows(S)])
<1>1. PICK L, n : L = Listed(S) /\ n = Cardinality(S)
  OBVIOUS
<1> DEFINE First(k) == {L[j] : j \in 1 .. k}
           Until(A) == [t EXCEPT !.token = Dead(t, m, A),
                                 !.activity = t.activity \cup RedeemedRows(A)]
           V == [k \in 0 .. n |-> Until(First(k))]
<1>2. /\ n \in Nat
      /\ \A k \in 1 .. n : L[k] \in S
      /\ First(n) = S
      /\ First(0) = {}
      /\ \A k \in 1 .. n : First(k) = First(k - 1) \cup {L[k]}
  BY <1>1, TakenAll
<1>3. /\ E = [k \in 1 .. n |-> E[k]]
      /\ \A k \in 1 .. n : E[k] = [event |-> "ShapeRedeemed", id |-> L[k], to |-> to]
  BY <1>1 DEF ShapeRedeemed
<1> HIDE DEF First
<1>4. ASSUME NEW A, NEW i \in 0 .. m - 1, NEW e, e.event = "ShapeRedeemed", e.id = i
      PROVE  /\ ~Throws(Until(A), e)
             /\ Until(A \cup {i}) = Handled(Until(A), e, sender)
  <2>1. PICK w, f, g, R :
            /\ w = Until(A) /\ f = Dead(t, m, A) /\ g = Dead(t, m, A \cup {i})
            /\ R = t.activity \cup RedeemedRows(A)
    OBVIOUS
  <2>2. /\ f = [j \in 0 .. m - 1 |-> IF j \in A THEN [t.token[j] EXCEPT !.live = FALSE]
                                     ELSE t.token[j]]
        /\ g = [j \in 0 .. m - 1 |-> IF j \in A \cup {i}
                                     THEN [t.token[j] EXCEPT !.live = FALSE]
                                     ELSE t.token[j]]
    BY <2>1 DEF Dead
  <2>3. /\ w = [t EXCEPT !.token = f, !.activity = R]
        /\ w.token = f /\ w.activity = R /\ DOMAIN f = 0 .. m - 1
    BY <2>1, <2>2 DEF TablesOf
  <2>4. ~Throws(w, e)
    BY <1>4, <2>3 DEF Throws, RowsNeeded, RowsInserted
  <2>5. Handled(w, e, sender) = OnShapeRedeemed(w, e)
    BY <1>4, HandledKinds
  <2>6. OnShapeRedeemed(w, e)
            = [w EXCEPT !.token[i].live = FALSE,
                        !.activity = @ \cup {ActivityRow("redeem", {i})}]
    BY <1>4, Zenon DEF OnShapeRedeemed
  <2>7. [f EXCEPT ![i] = [f[i] EXCEPT !.live = FALSE]] = g
    <3>1. [f[i] EXCEPT !.live = FALSE] = [t.token[i] EXCEPT !.live = FALSE]
      BY <1>4, <2>2 DEF TablesOf, Row
    <3> QED
      BY <1>4, <2>2, <3>1
  <2>8. R \cup {ActivityRow("redeem", {i})} = t.activity \cup RedeemedRows(A \cup {i})
    BY <2>1 DEF RedeemedRows
  <2>9. [w EXCEPT !.token[i].live = FALSE,
                  !.activity = @ \cup {ActivityRow("redeem", {i})}]
            = [t EXCEPT !.token = g, !.activity = R \cup {ActivityRow("redeem", {i})}]
    <3>1. [w EXCEPT !.token[i].live = FALSE,
                    !.activity = @ \cup {ActivityRow("redeem", {i})}]
            = [w EXCEPT !.token = [f EXCEPT ![i] = [f[i] EXCEPT !.live = FALSE]],
                        !.activity = R \cup {ActivityRow("redeem", {i})}]
      BY <2>3
    <3> QED
      BY <2>3, <2>7, <3>1 DEF TablesOf
  <2> QED
    BY <2>1, <2>4, <2>5, <2>6, <2>8, <2>9
<1>9. \A k \in 0 .. n : V[k] = Until(First(k))
  OBVIOUS
<1>5. ASSUME NEW k \in 1 .. n
      PROVE  ~Throws(V[k - 1], E[k]) /\ V[k] = Handled(V[k - 1], E[k], sender)
  <2>1. PICK i, A : i = L[k] /\ A = First(k - 1)
    OBVIOUS
  <2>2. /\ k \in 0 .. n /\ k - 1 \in 0 .. n /\ First(k) = A \cup {i}
        /\ i \in S
    BY <1>2, <2>1
  <2>3. i \in 0 .. m - 1
    BY <2>2
  <2>4. E[k].event = "ShapeRedeemed" /\ E[k].id = i
    <3>1. PICK e : e = E[k]
      OBVIOUS
    <3>2. e = [event |-> "ShapeRedeemed", id |-> i, to |-> to]
      BY <1>3, <2>1, <3>1
    <3>3. e.event = "ShapeRedeemed" /\ e.id = i
      BY <3>2
    <3> QED
      BY <3>1, <3>3
  <2>5. V[k - 1] = Until(A) /\ V[k] = Until(A \cup {i})
    BY <1>9, <2>1, <2>2
  <2> HIDE DEF Until, V
  <2> QED
    BY <1>4, <2>3, <2>4, <2>5
<1>6. V[0] = t
  <2>1. Dead(t, m, {}) = t.token
    BY DEF Dead, TablesOf
  <2>2. RedeemedRows({}) = {}
    BY DEF RedeemedRows
  <2>3. Until({}) = t
    BY <2>1, <2>2 DEF TablesOf
  <2>4. V[0] = Until({})
    <3>1. 0 \in 0 .. n
      BY <1>2
    <3> HIDE DEF V, Until
    <3> QED
      BY <1>2, <1>9, <3>1
  <2> QED
    BY <2>3, <2>4
<1>7. V[n] = Until(S)
  <2>1. n \in 0 .. n
    BY <1>2
  <2> HIDE DEF V, Until
  <2> QED
    BY <1>2, <1>9, <2>1
<1> HIDE DEF V
<1>8. Yields(sender, V[0], E, V[n])
  BY <1>2, <1>3, <1>5, RunOf
<1> QED
  BY <1>6, <1>7, <1>8

\* The rows of the feed once a transaction has minted the ids of S more.
Mints(rows) == {row \in rows : row.kind = "mint"}

\* The feed with the ids of S in its one row of the mints of a transaction.
WithMinted(rows, S) ==
    IF S = {} THEN rows
    ELSE (rows \ Mints(rows))
         \cup {ActivityRow("mint", S \cup UNION {row.ids : row \in Mints(rows)})}

\* A mint more joins the row of the mints.
LEMMA FoldJoins ==
    ASSUME NEW rows, NEW S, NEW i
    PROVE  FoldMint(WithMinted(rows, S), i) = WithMinted(rows, S \cup {i})
<1>1. S \cup {i} # {}
  OBVIOUS
<1>2. \A R : FoldMint(R, i) = (R \ Mints(R))
                \cup {ActivityRow("mint", {i} \cup UNION {row.ids : row \in Mints(R)})}
  BY DEF FoldMint, Mints
<1>3. CASE S = {}
  <2>1. WithMinted(rows, S) = rows /\ S \cup {i} = {i}
    BY <1>3 DEF WithMinted
  <2> QED
    BY <1>1, <1>2, <2>1 DEF WithMinted
<1>4. CASE S # {}
  <2>1. PICK U, r, R : /\ U = UNION {row.ids : row \in Mints(rows)}
                       /\ r = ActivityRow("mint", S \cup U)
                       /\ R = WithMinted(rows, S)
    OBVIOUS
  <2>2. R = (rows \ Mints(rows)) \cup {r} /\ r.kind = "mint" /\ r.ids = S \cup U
    BY <1>4, <2>1 DEF WithMinted, ActivityRow
  <2>3. Mints(R) = {r} /\ R \ Mints(R) = rows \ Mints(rows)
    BY <2>2 DEF Mints
  <2>4. UNION {row.ids : row \in Mints(R)} = S \cup U
    BY <2>2, <2>3
  <2>5. {i} \cup (S \cup U) = (S \cup {i}) \cup U
    OBVIOUS
  <2>6. FoldMint(R, i) = (rows \ Mints(rows))
                         \cup {ActivityRow("mint", (S \cup {i}) \cup U)}
    BY <1>2, <2>3, <2>4, <2>5
  <2> QED
    BY <1>1, <2>1, <2>6 DEF WithMinted
<1> QED
  BY <1>3, <1>4

\* The tables once the ids from m on, n of them, were minted.
MintedTables(t, m, n, to, d) ==
    [t EXCEPT !.token = [i \in 0 .. m + n - 1 |->
                            IF i < m THEN t.token[i]
                            ELSE MintRow(to, MintedShape(i, d))],
              !.activity = WithMinted(t.activity, m .. m + n - 1)]

\* The ShapeMinted events of a batch make its rows, and one row of the feed.
LEMMA MintLoop ==
    ASSUME NEW sender, NEW m \in Nat, NEW t \in TablesOf(m),
           NEW q \in Nat, NEW to, NEW d,
           NEW E, E = [k \in 1 .. q |-> ShapeMinted(m + k - 1, to, d)]
    PROVE  Yields(sender, t, E, MintedTables(t, m, q, to, d))
<1> DEFINE V == [k \in 0 .. q |-> MintedTables(t, m, k, to, d)]
<1>1. \A k \in 0 .. q : V[k] = MintedTables(t, m, k, to, d)
  OBVIOUS
<1>2. E = [k \in 1 .. q |-> E[k]]
  OBVIOUS
<1> HIDE DEF V
<1>3. ASSUME NEW k \in 1 .. q
      PROVE  ~Throws(V[k - 1], E[k]) /\ V[k] = Handled(V[k - 1], E[k], sender)
  <2>1. PICK e, i, w, f, g, R, Q :
            /\ e = E[k] /\ i = m + k - 1 /\ w = V[k - 1]
            /\ f = [j \in 0 .. i - 1 |-> IF j < m THEN t.token[j]
                                         ELSE MintRow(to, MintedShape(j, d))]
            /\ g = [j \in 0 .. i |-> IF j < m THEN t.token[j]
                                         ELSE MintRow(to, MintedShape(j, d))]
            /\ R = WithMinted(t.activity, m .. i - 1)
            /\ Q = WithMinted(t.activity, m .. i)
    OBVIOUS
  <2>2. /\ k \in 0 .. q /\ k - 1 \in 0 .. q /\ i \in Nat /\ i >= m
        /\ m + k - 1 = i /\ m + (k - 1) - 1 = i - 1
    BY <2>1
  <2>3. /\ w = [t EXCEPT !.token = f, !.activity = R]
        /\ V[k] = [t EXCEPT !.token = g, !.activity = Q]
    <3>1. w = MintedTables(t, m, k - 1, to, d) /\ V[k] = MintedTables(t, m, k, to, d)
      BY <1>1, <2>1, <2>2
    <3> QED
      BY <2>1, <2>2, <3>1 DEF MintedTables
  <2>4. w.token = f /\ w.activity = R /\ DOMAIN f = 0 .. i - 1
    BY <2>1, <2>3 DEF TablesOf
  <2>5. e.event = "ShapeMinted" /\ e.id = i /\ e.to = to /\ e.shape = MintedShape(i, d)
    <3>1. e = [event |-> "ShapeMinted", id |-> i, to |-> to, shape |-> MintedShape(i, d)]
      BY <2>1 DEF ShapeMinted
    <3> QED
      BY <3>1
  <2>6. ~Throws(w, e)
    <3>1. i \notin DOMAIN f
      BY <2>2, <2>4
    <3> QED
      BY <2>4, <2>5, <3>1 DEF Throws, RowsNeeded, RowsInserted
  <2>7. Handled(w, e, sender) = OnShapeMinted(w, e)
    BY <2>5, HandledKinds
  <2>8. OnShapeMinted(w, e)
            = [w EXCEPT !.token = [j \in DOMAIN w.token \cup {i} |->
                                      IF j = i THEN MintRow(to, MintedShape(i, d))
                                      ELSE w.token[j]],
                        !.activity = FoldMint(@, i)]
    BY <2>5, Zenon DEF OnShapeMinted
  <2>9. [j \in DOMAIN w.token \cup {i} |->
            IF j = i THEN MintRow(to, MintedShape(i, d)) ELSE w.token[j]] = g
    <3>1. DOMAIN f \cup {i} = 0 .. i
      BY <2>2, <2>4
    <3>2. [j \in 0 .. i |-> IF j = i THEN MintRow(to, MintedShape(i, d))
                            ELSE f[j]] = g
      <4>1. PICK x : x = MintRow(to, MintedShape(i, d))
        OBVIOUS
      <4>2. ASSUME NEW j \in 0 .. i
            PROVE  (IF j = i THEN x ELSE f[j]) = g[j]
        <5>1. CASE j = i
          <6>1. ~(j < m)
            BY <2>2, <5>1
          <6> QED
            BY <2>1, <4>1, <5>1, <6>1
        <5>2. CASE j # i
          <6>1. j \in 0 .. i - 1
            BY <2>2, <5>2
          <6> QED
            BY <2>1, <5>2, <6>1
        <5> QED
          BY <5>1, <5>2
      <4> QED
        BY <2>1, <4>1, <4>2
    <3> QED
      BY <2>4, <3>1, <3>2
  <2>10. FoldMint(R, i) = Q
    <3>1. PICK S : S = m .. i - 1
      OBVIOUS
    <3>2. S \cup {i} = m .. i
      BY ONLY <2>2, <3>1
    <3>3. R = WithMinted(t.activity, S) /\ Q = WithMinted(t.activity, S \cup {i})
      <4>1. R = WithMinted(t.activity, m .. i - 1) /\ Q = WithMinted(t.activity, m .. i)
        BY <2>1
      <4> QED
        BY ONLY <3>1, <3>2, <4>1
    <3>4. FoldMint(WithMinted(t.activity, S), i) = WithMinted(t.activity, S \cup {i})
      BY ONLY FoldJoins
    <3> QED
      BY ONLY <3>3, <3>4
  <2>11. [w EXCEPT !.token = [j \in DOMAIN w.token \cup {i} |->
                                      IF j = i THEN MintRow(to, MintedShape(i, d))
                                      ELSE w.token[j]],
                        !.activity = FoldMint(@, i)]
           = [w EXCEPT !.token = g, !.activity = Q]
    BY <2>4, <2>9, <2>10
  <2>12. [w EXCEPT !.token = g, !.activity = Q] = V[k]
    BY <2>3 DEF TablesOf
  <2> QED
    BY <2>1, <2>6, <2>7, <2>8, <2>11, <2>12
<1>4. V[0] = t
  <2>1. /\ 0 \in 0 .. q /\ m + 0 - 1 = m - 1 /\ m .. m - 1 = {}
    OBVIOUS
  <2>2. [i \in 0 .. m - 1 |-> IF i < m THEN t.token[i]
                              ELSE MintRow(to, MintedShape(i, d))] = t.token
    BY DEF TablesOf
  <2>3. V[0] = [t EXCEPT !.token = t.token, !.activity = t.activity]
    <3>1. V[0] = MintedTables(t, m, 0, to, d)
      BY <1>1, <2>1
    <3>2. WithMinted(t.activity, m .. m + 0 - 1) = t.activity
      BY <2>1 DEF WithMinted
    <3> QED
      BY <2>1, <2>2, <3>1, <3>2 DEF MintedTables
  <2> QED
    BY <2>3 DEF TablesOf
<1>5. V[q] = MintedTables(t, m, q, to, d)
  BY <1>1
<1>6. Yields(sender, V[0], E, V[q])
  BY <1>2, <1>3, RunOf
<1> QED
  BY <1>4, <1>5, <1>6

-----------------------------------------------------------------------------
(* Replaying the lineage edges.                                            *)

\* What an edge makes of the merges replayed so far.
Replayed(merges, edge, i) ==
    IF edge.parent = i /\ edge.kind # "split" THEN Replay(merges, edge)
    ELSE merges

\* f is a replay of the first n edges for token i.
Replays(f, edges, i, n) ==
    f = [k \in 0 .. n |-> IF k = 0 THEN <<>>
                          ELSE Replayed(f[k - 1], edges[k], i)]

\* Every list of edges has a replay.
LEMMA ReplayExists ==
    ASSUME NEW edges, NEW i, NEW n \in Nat
    PROVE  \E f : Replays(f, edges, i, n)
<1> DEFINE G == {m \in Nat : \E f : Replays(f, edges, i, m)}
<1>1. 0 \in G
  <2>1. PICK f : f = [k \in 0 .. 0 |-> <<>>]
    OBVIOUS
  <2>2. \A k \in 0 .. 0 : k = 0
    OBVIOUS
  <2>3. f = [k \in 0 .. 0 |-> IF k = 0 THEN <<>>
                              ELSE Replayed(f[k - 1], edges[k], i)]
    BY <2>1, <2>2
  <2> QED
    BY <2>3 DEF Replays
<1>2. ASSUME NEW m \in G PROVE m + 1 \in G
  <2>1. PICK f : Replays(f, edges, i, m)
    OBVIOUS
  <2>2. m \in Nat
    OBVIOUS
  <2>3. PICK x : x = Replayed(f[m], edges[m + 1], i)
    OBVIOUS
  <2>4. PICK g : g = [k \in 0 .. m + 1 |-> IF k = m + 1 THEN x ELSE f[k]]
    OBVIOUS
  <2>5. ASSUME NEW k \in 0 .. m + 1
        PROVE  g[k] = IF k = 0 THEN <<>> ELSE Replayed(g[k - 1], edges[k], i)
    <3>1. CASE k = m + 1
      <4>1. k # 0 /\ k - 1 = m /\ m \in 0 .. m + 1 /\ m # m + 1 /\ g[m] = f[m]
        BY <2>2, <2>4, <3>1
      <4>2. g[k] = x
        BY <2>4, <3>1
      <4> QED
        BY <2>3, <3>1, <4>1, <4>2
    <3>2. CASE k # m + 1
      <4>1. k \in 0 .. m /\ g[k] = f[k]
        BY <2>2, <2>4, <3>2
      <4>2. k # 0 => k - 1 \in 0 .. m + 1 /\ k - 1 # m + 1
        BY <2>2, <4>1
      <4>3. k # 0 => g[k - 1] = f[k - 1]
        BY <2>4, <4>2
      <4>4. f[k] = IF k = 0 THEN <<>> ELSE Replayed(f[k - 1], edges[k], i)
        BY <2>1, <4>1 DEF Replays
      <4> QED
        BY <4>1, <4>3, <4>4
    <3> QED
      BY <3>1, <3>2
  <2>6. Replays(g, edges, i, m + 1)
    BY <2>4, <2>5 DEF Replays
  <2> QED
    BY <2>2, <2>6
<1>3. G \in SUBSET Nat
  OBVIOUS
<1> HIDE DEF G
<1>4. n \in G
  BY <1>1, <1>2, <1>3, NatSetInduction
<1> QED
  BY <1>4 DEF G

\* A replay depends on nothing but the edges it has been through.
LEMMA ReplaySame ==
    ASSUME NEW E, NEW F, NEW i, NEW n \in Nat, NEW m \in Nat, NEW p \in Nat,
           n <= m, n <= p, \A k \in 1 .. n : E[k] = F[k],
           NEW f, NEW g, Replays(f, E, i, m), Replays(g, F, i, p)
    PROVE  f[n] = g[n]
<1> DEFINE G == {k \in Nat : k <= n => f[k] = g[k]}
<1>1. 0 \in G
  <2>1. 0 \in 0 .. m /\ 0 \in 0 .. p
    OBVIOUS
  <2>2. f[0] = <<>> /\ g[0] = <<>>
    BY <2>1 DEF Replays
  <2> QED
    BY <2>2
<1>2. ASSUME NEW k \in G PROVE k + 1 \in G
  <2> SUFFICES ASSUME k + 1 <= n PROVE f[k + 1] = g[k + 1]
    OBVIOUS
  <2>1. /\ k \in Nat /\ k + 1 \in 0 .. m /\ k + 1 \in 0 .. p /\ k + 1 # 0
        /\ (k + 1) - 1 = k /\ k + 1 \in 1 .. n /\ f[k] = g[k]
    OBVIOUS
  <2>2. PICK j : j = k + 1
    OBVIOUS
  <2>3. f[j] = Replayed(f[k], E[j], i) /\ g[j] = Replayed(g[k], F[j], i)
    BY <2>1, <2>2 DEF Replays
  <2> QED
    BY <2>1, <2>2, <2>3
<1>3. G \in SUBSET Nat
  OBVIOUS
<1> HIDE DEF G
<1>4. n \in G
  BY <1>1, <1>2, <1>3, NatSetInduction
<1> QED
  BY <1>4 DEF G

\* The merges that stand are what a replay of all the edges ends with.
LEMMA MergesReplay ==
    ASSUME NEW edges, NEW i, Len(edges) \in Nat
    PROVE  \E f : /\ Replays(f, edges, i, Len(edges))
                  /\ MergesFrom(edges, i) = f[Len(edges)]
<1>1. PICK n : n = Len(edges)
  OBVIOUS
<1>2. PICK f : f = CHOOSE g : g = [k \in 0 .. n |->
                        IF k = 0 THEN <<>>
                        ELSE IF edges[k].parent = i /\ edges[k].kind # "split"
                             THEN Replay(g[k - 1], edges[k])
                             ELSE g[k - 1]]
  OBVIOUS
<1>3. MergesFrom(edges, i) = f[n]
  BY <1>1, <1>2 DEF MergesFrom
<1>4. \E g : Replays(g, edges, i, n)
  BY <1>1, ReplayExists
<1>5. \E g : g = [k \in 0 .. n |->
                        IF k = 0 THEN <<>>
                        ELSE IF edges[k].parent = i /\ edges[k].kind # "split"
                             THEN Replay(g[k - 1], edges[k])
                             ELSE g[k - 1]]
  BY <1>4 DEF Replays, Replayed
<1>6. f = [k \in 0 .. n |->
                        IF k = 0 THEN <<>>
                        ELSE IF edges[k].parent = i /\ edges[k].kind # "split"
                             THEN Replay(f[k - 1], edges[k])
                             ELSE f[k - 1]]
  BY <1>2, <1>5
<1>7. Replays(f, edges, i, n)
  BY <1>6 DEF Replays, Replayed
<1> QED
  BY <1>1, <1>3, <1>7

\* Without edges no merge stands.
LEMMA MergesNone == \A i : MergesFrom(<<>>, i) = <<>>
<1> SUFFICES ASSUME NEW i PROVE MergesFrom(<<>>, i) = <<>>
  OBVIOUS
<1>1. PICK E : E = <<>>
  OBVIOUS
<1>2. Len(E) = 0
  BY <1>1
<1>3. PICK f : Replays(f, E, i, 0) /\ MergesFrom(E, i) = f[0]
  BY <1>2, MergesReplay
<1>4. f[0] = <<>>
  BY <1>3 DEF Replays
<1> QED
  BY <1>1, <1>3, <1>4

\* An edge more is replayed on what stood before it.
LEMMA MergesAppend ==
    ASSUME NEW T, NEW E \in Seq(T), NEW e, NEW i
    PROVE  MergesFrom(Append(E, e), i) = Replayed(MergesFrom(E, i), e, i)
<1>1. PICK F, n : F = Append(E, e) /\ n = Len(E)
  OBVIOUS
<1>2. /\ n \in Nat /\ Len(F) = n + 1 /\ F[n + 1] = e
      /\ \A k \in 1 .. n : F[k] = E[k]
  BY <1>1
<1>3. PICK f : Replays(f, E, i, n) /\ MergesFrom(E, i) = f[n]
  BY <1>1, <1>2, MergesReplay
<1>4. PICK g : Replays(g, F, i, n + 1) /\ MergesFrom(F, i) = g[n + 1]
  <2>1. Len(F) \in Nat
    BY <1>2
  <2> QED
    BY <1>2, <2>1, MergesReplay
<1>5. g[n] = f[n]
  <2>1. PICK p : p = n + 1
    OBVIOUS
  <2>2. n <= n /\ n <= p /\ p \in Nat
    BY <1>2, <2>1
  <2>3. Replays(f, E, i, n) /\ Replays(g, F, i, p)
    BY <1>3, <1>4, <2>1
  <2>4. \A k \in 1 .. n : E[k] = F[k]
    BY <1>2
  <2>5. n \in Nat
    BY <1>2
  <2>6. f[n] = g[n]
    BY ONLY <2>2, <2>3, <2>4, <2>5, ReplaySame
  <2> QED
    BY <2>6
<1>6. g[n + 1] = Replayed(g[n], e, i)
  <2>1. PICK j : j = n + 1
    OBVIOUS
  <2>2. j \in 0 .. n + 1 /\ j # 0 /\ j - 1 = n /\ F[j] = e
    BY <1>2, <2>1
  <2>3. g[j] = Replayed(g[j - 1], F[j], i)
    BY <1>4, <2>2 DEF Replays
  <2> QED
    BY <2>1, <2>2, <2>3
<1> QED
  BY <1>1, <1>3, <1>4, <1>5, <1>6

-----------------------------------------------------------------------------
(* Where the events of each operation lead.                                *)

\* The ids that the rows of the feed name.
Told(rows) == UNION {row.ids : row \in rows}

\* From the tables t, the events E leave tables with the rows f, the owner row w,
\* the edges L and the cards C, and a feed that names at least the ids D.
Leads(sender, t, E, m, f, w, L, D, C) ==
    \E v \in TablesOf(m) : /\ Yields(sender, t, E, v)
                           /\ v.token = f /\ v.collectionOwner = w
                           /\ v.lineageEdge = L /\ D \subseteq Told(v.activity)
                           /\ v.escrowedCard = C

\* What the handlers write to a row leaves it a row.
LEMMA RowKept ==
    ASSUME NEW r \in Row
    PROVE  /\ \A x \in Arts : /\ [r EXCEPT !.art = x] \in Row
           /\ [r EXCEPT !.live = FALSE] \in Row
           /\ \A x \in Accounts \cup {NoOne} :
                 /\ [r EXCEPT !.owner = x] \in Row
                 /\ [r EXCEPT !.live = TRUE, !.owner = x] \in Row
           /\ [r EXCEPT !.black = TRUE, !.backing = 0] \in Row
BY DEF Row

\* A row more in the feed: it still names what it named, and the row's ids.
LEMMA ToldMore ==
    ASSUME NEW rows \in SUBSET FeedRow, NEW kind \in FeedKinds, NEW ids \in SUBSET Ids
    PROVE  /\ rows \cup {ActivityRow(kind, ids)} \in SUBSET FeedRow
           /\ Told(rows) \cup ids \subseteq Told(rows \cup {ActivityRow(kind, ids)})
<1>1. PICK r : r = ActivityRow(kind, ids)
  OBVIOUS
<1>2. r \in FeedRow /\ r.ids = ids
  BY <1>1 DEF ActivityRow, FeedRow
<1> QED
  BY <1>1, <1>2 DEF Told

\* The same for the row of the mints.
LEMMA ToldMint ==
    ASSUME NEW rows \in SUBSET FeedRow, NEW ids \in SUBSET Ids
    PROVE  /\ WithMinted(rows, ids) \in SUBSET FeedRow
           /\ Told(rows) \cup ids \subseteq Told(WithMinted(rows, ids))
<1>1. CASE ids = {}
  BY <1>1 DEF WithMinted, Told
<1>2. CASE ids # {}
  <2>1. PICK M, r : /\ M = Mints(rows)
                    /\ r = ActivityRow("mint", ids \cup UNION {row.ids : row \in M})
    OBVIOUS
  <2>2. /\ r = [kind |-> "mint", ids |-> ids \cup UNION {row.ids : row \in M}]
        /\ r.ids = ids \cup UNION {row.ids : row \in M}
    BY <2>1 DEF ActivityRow
  <2>3. M \subseteq rows
    BY <2>1 DEF Mints
  <2>4. \A row \in rows : row.ids \subseteq Ids
    BY DEF FeedRow
  <2>5. r \in FeedRow
    BY <2>2, <2>3, <2>4 DEF FeedRow, FeedKinds
  <2>6. WithMinted(rows, ids) = (rows \ M) \cup {r}
    BY <1>2, <2>1 DEF WithMinted
  <2>7. ASSUME NEW x \in Told(rows) PROVE x \in Told((rows \ M) \cup {r})
    <3>1. PICK row \in rows : x \in row.ids
      BY <2>7 DEF Told
    <3>2. CASE row \in M
      BY <2>2, <3>1, <3>2 DEF Told
    <3>3. CASE row \notin M
      BY <3>1, <3>3 DEF Told
    <3> QED
      BY <3>2, <3>3
  <2>8. \A x \in ids : x \in Told((rows \ M) \cup {r})
    BY <2>2 DEF Told
  <2> QED
    BY <2>3, <2>5, <2>6, <2>7, <2>8
<1> QED
  BY <1>1, <1>2

\* The rows once those of S carry the art a.
ArtRows(t, m, S, a) == [i \in 0 .. m - 1 |->
                           IF i \in S THEN [t.token[i] EXCEPT !.art = a[i]]
                           ELSE t.token[i]]

\* Where the ArtSet events of a loop lead.
LEMMA ArtEffect ==
    ASSUME NEW sender, NEW m \in Nat, NEW t \in TablesOf(m),
           NEW S \in SUBSET Ids, S \subseteq 0 .. m - 1,
           NEW a, \A i \in S : a[i] \in Arts,
           NEW E, E = [k \in 1 .. Cardinality(S) |->
                         ArtSet(Listed(S)[k], a[Listed(S)[k]])]
    PROVE  Leads(sender, t, E, m, ArtRows(t, m, S, a), t.collectionOwner,
                 t.lineageEdge, Told(t.activity), t.escrowedCard)
<1>1. PICK f : f = [i \in 0 .. m - 1 |->
                               IF i \in S THEN [t.token[i] EXCEPT !.art = a[i]]
                               ELSE t.token[i]]
  OBVIOUS
<1>2. f \in [0 .. m - 1 -> Row]
  <2>1. ASSUME NEW i \in 0 .. m - 1 PROVE f[i] \in Row
    <3>1. t.token[i] \in Row
      BY DEF TablesOf
    <3> QED
      BY <1>1, <3>1, RowKept
  <2> QED
    BY <1>1, <2>1
<1>3. PICK v : v = [t EXCEPT !.token = f]
  OBVIOUS
<1>4. Yields(sender, t, E, v)
  BY <1>1, <1>3, ArtLoop
<1>5. /\ v \in TablesOf(m) /\ v.token = f
      /\ v.collectionOwner = t.collectionOwner
      /\ v.lineageEdge = t.lineageEdge
      /\ v.activity = t.activity
      /\ v.escrowedCard = t.escrowedCard
  BY <1>2, <1>3 DEF TablesOf
<1> QED
  BY <1>1, <1>4, <1>5 DEF Leads, ArtRows

\* Where one ArtSet leads.
LEMMA OneArtEffect ==
    ASSUME NEW sender, NEW m \in Nat, NEW t \in TablesOf(m),
           NEW s \in 0 .. m - 1, NEW x \in Arts
    PROVE  Leads(sender, t, <<ArtSet(s, x)>>, m,
                 [t.token EXCEPT ![s] = [t.token[s] EXCEPT !.art = x]],
                 t.collectionOwner, t.lineageEdge, Told(t.activity),
                 t.escrowedCard)
<1>1. PICK e, v, f : /\ e = ArtSet(s, x) /\ v = [t EXCEPT !.token = f]
                     /\ f = [t.token EXCEPT ![s] = [t.token[s] EXCEPT !.art = x]]
  OBVIOUS
<1>2. e.event = "ArtSet" /\ e.id = s /\ e.art = x
  <2>1. e = [event |-> "ArtSet", id |-> s, art |-> x]
    BY <1>1 DEF ArtSet
  <2> QED
    BY <2>1
<1>3. ~Throws(t, e)
  BY <1>2 DEF Throws, RowsNeeded, RowsInserted, TablesOf
<1>4. Handled(t, e, sender) = v
  <2>1. Handled(t, e, sender) = OnArtSet(t, e)
    BY <1>2, HandledKinds
  <2>2. OnArtSet(t, e) = [t EXCEPT !.token[s].art = x]
    BY <1>2, Zenon DEF OnArtSet
  <2> QED
    BY <1>1, <2>1, <2>2
<1>5. Yields(sender, t, <<e>>, v)
  BY <1>3, <1>4, YieldsOne
<1>6. f \in [0 .. m - 1 -> Row]
  <2>1. t.token \in [0 .. m - 1 -> Row] /\ t.token[s] \in Row
    BY DEF TablesOf
  <2>2. [t.token[s] EXCEPT !.art = x] \in Row
    BY <2>1, RowKept
  <2> QED
    BY <1>1, <2>1, <2>2
<1>7. /\ v \in TablesOf(m) /\ v.token = f
      /\ v.collectionOwner = t.collectionOwner
      /\ v.lineageEdge = t.lineageEdge
      /\ v.activity = t.activity
      /\ v.escrowedCard = t.escrowedCard
  BY <1>1, <1>6 DEF TablesOf
<1> QED
  BY <1>1, <1>5, <1>7 DEF Leads

\* Where the ShapeRedeemed events of a loop lead.
LEMMA RedeemEffect ==
    ASSUME NEW sender, NEW m \in Nat, NEW t \in TablesOf(m),
           NEW S \in SUBSET Ids, S \subseteq 0 .. m - 1, NEW to,
           NEW E, E = [k \in 1 .. Cardinality(S) |->
                         ShapeRedeemed(Listed(S)[k], to)]
    PROVE  Leads(sender, t, E, m, Dead(t, m, S), t.collectionOwner,
                 t.lineageEdge, Told(t.activity) \cup S, t.escrowedCard)
<1>1. PICK f, R, v : /\ f = Dead(t, m, S) /\ R = t.activity \cup RedeemedRows(S)
                     /\ v = [t EXCEPT !.token = f, !.activity = R]
  OBVIOUS
<1>2. Yields(sender, t, E, v)
  BY <1>1, RedeemLoop
<1>3. f \in [0 .. m - 1 -> Row]
  <2>1. ASSUME NEW i \in 0 .. m - 1 PROVE f[i] \in Row
    <3>1. t.token[i] \in Row
      BY DEF TablesOf
    <3> QED
      BY <1>1, <3>1, RowKept DEF Dead
  <2>2. f = [i \in 0 .. m - 1 |-> f[i]]
    BY <1>1 DEF Dead
  <2> QED
    BY <2>1, <2>2
<1>4. /\ t.activity \in SUBSET FeedRow
      /\ \A i \in S : /\ ActivityRow("redeem", {i}) \in FeedRow
                      /\ ActivityRow("redeem", {i}).ids = {i}
  BY DEF TablesOf, ActivityRow, FeedRow, FeedKinds
<1>5. R \in SUBSET FeedRow /\ Told(t.activity) \cup S \subseteq Told(R)
  <2>1. R \in SUBSET FeedRow
    BY <1>1, <1>4 DEF RedeemedRows
  <2>2. ASSUME NEW i \in S PROVE i \in Told(R)
    <3>1. ActivityRow("redeem", {i}) \in R
      BY <1>1 DEF RedeemedRows
    <3> QED
      BY <1>4, <3>1 DEF Told
  <2>3. Told(t.activity) \subseteq Told(R)
    BY <1>1 DEF Told
  <2> QED
    BY <2>1, <2>2, <2>3
<1>6. /\ v \in TablesOf(m) /\ v.token = f /\ v.activity = R
      /\ v.collectionOwner = t.collectionOwner
      /\ v.lineageEdge = t.lineageEdge
      /\ v.escrowedCard = t.escrowedCard
  BY <1>1, <1>3, <1>5 DEF TablesOf
<1> QED
  BY <1>1, <1>2, <1>5, <1>6 DEF Leads

\* The owner row after the owner token moved to `to`, as read from the rows.
RowOfOwner(t, m, to) ==
    [tokenId |-> to,
     address |-> IF to - 1 \in 0 .. m - 1 THEN t.token[to - 1].owner ELSE NoOne]

\* Where OwnerTokenMoved leads: the row names the holder the token table has.
LEMMA MovedEffect ==
    ASSUME NEW sender, NEW m \in Nat, NEW t \in TablesOf(m),
           NEW from \in 0 .. MaxMinted, NEW to \in 0 .. MaxMinted
    PROVE  Leads(sender, t, <<OwnerTokenMoved(from, to)>>, m, t.token,
                 RowOfOwner(t, m, to), t.lineageEdge, Told(t.activity),
                 t.escrowedCard)
<1>1. PICK e, v, R, w, I :
          /\ e = OwnerTokenMoved(from, to)
          /\ I = {from - 1, to - 1} \cap Ids
          /\ R = t.activity \cup {ActivityRow("ownerTokenMoved", I)}
          /\ w = RowOfOwner(t, m, to)
          /\ v = [t EXCEPT !.collectionOwner = w, !.activity = R]
  OBVIOUS
<1>2. e.event = "OwnerTokenMoved" /\ e.from = from /\ e.to = to
  <2>1. e = [event |-> "OwnerTokenMoved", from |-> from, to |-> to]
    BY <1>1 DEF OwnerTokenMoved
  <2> QED
    BY <2>1
<1>3. ~Throws(t, e)
  BY <1>2 DEF Throws, RowsNeeded, RowsInserted
<1>4. Handled(t, e, sender) = v
  <2>1. Handled(t, e, sender) = OnOwnerTokenMoved(t, e)
    BY <1>2, HandledKinds
  <2>2. DOMAIN t.token = 0 .. m - 1
    BY DEF TablesOf
  <2>3. OnOwnerTokenMoved(t, e)
            = [t EXCEPT !.collectionOwner = w,
                        !.activity = @ \cup {ActivityRow("ownerTokenMoved", I)}]
    BY <1>1, <1>2, <2>2 DEF OnOwnerTokenMoved, RowOfOwner
  <2> QED
    BY <1>1, <2>1, <2>3
<1>5. Yields(sender, t, <<e>>, v)
  BY <1>3, <1>4, YieldsOne
<1>6. R \in SUBSET FeedRow /\ Told(t.activity) \subseteq Told(R)
  <2>1. PICK A, k : A = t.activity /\ k = "ownerTokenMoved"
    OBVIOUS
  <2>2. A \in SUBSET FeedRow
    BY <2>1 DEF TablesOf
  <2>3. I \in SUBSET Ids /\ k \in FeedKinds
    BY <1>1, <2>1 DEF FeedKinds
  <2>4. R = A \cup {ActivityRow(k, I)}
    BY <1>1, <2>1
  <2>5. R \in SUBSET FeedRow /\ Told(A) \cup I \subseteq Told(R)
    BY <2>2, <2>3, <2>4, ToldMore
  <2> QED
    BY <2>1, <2>5
<1>7. w \in OwnerRow
  <2>1. \A i \in 0 .. m - 1 : t.token[i].owner \in Accounts \cup {NoOne}
    BY DEF TablesOf, Row
  <2> QED
    BY <1>1, <2>1 DEF RowOfOwner, OwnerRow
<1>8. /\ v \in TablesOf(m) /\ v.token = t.token /\ v.activity = R
      /\ v.collectionOwner = w
      /\ v.lineageEdge = t.lineageEdge
      /\ v.escrowedCard = t.escrowedCard
  BY <1>1, <1>6, <1>7 DEF TablesOf
<1> QED
  BY <1>1, <1>5, <1>6, <1>8 DEF Leads

\* Whether or not the owner token is among the ids that leave.
OwnerRowLeft(t, m, S, to) ==
    IF ownerToken - 1 \in S THEN RowOfOwner(t, m, to) ELSE t.collectionOwner

\* Where the move of the owner token out of S leads, if there is one.
LEMMA MovedFromEffect ==
    ASSUME NEW sender, NEW m \in Nat, NEW t \in TablesOf(m), NEW S,
           ownerToken \in 0 .. MaxMinted, NEW to \in 0 .. MaxMinted
    PROVE  Leads(sender, t, MovedFrom(S, to), m, t.token,
                 OwnerRowLeft(t, m, S, to), t.lineageEdge, Told(t.activity),
                 t.escrowedCard)
<1>1. CASE ownerToken - 1 \in S
  <2>1. MovedFrom(S, to) = <<OwnerTokenMoved(ownerToken, to)>>
        /\ OwnerRowLeft(t, m, S, to) = RowOfOwner(t, m, to)
    BY <1>1 DEF MovedFrom, OwnerRowLeft
  <2>2. PICK o \in 0 .. MaxMinted : o = ownerToken
    OBVIOUS
  <2>3. Leads(sender, t, <<OwnerTokenMoved(o, to)>>, m, t.token,
              RowOfOwner(t, m, to), t.lineageEdge, Told(t.activity),
              t.escrowedCard)
    BY MovedEffect
  <2> QED
    BY <2>1, <2>2, <2>3
<1>2. CASE ownerToken - 1 \notin S
  <2>1. MovedFrom(S, to) = <<>> /\ OwnerRowLeft(t, m, S, to) = t.collectionOwner
    BY <1>2 DEF MovedFrom, OwnerRowLeft
  <2>2. Yields(sender, t, MovedFrom(S, to), t)
    BY <2>1, YieldsNone
  <2> QED
    BY <2>1, <2>2 DEF Leads
<1> QED
  BY <1>1, <1>2

\* The events of the burns of S: the inputs of a compose, and a redemption.
BurnLog(S, to, caller) ==
    LET below == {i \in S : i < ownerToken - 1}
        above == {i \in S : i >= ownerToken - 1}
    IN  [k \in 1 .. Cardinality(below) |-> Transfer(caller, NoOne, Listed(below)[k])]
        \o MovedFrom(S, to)
        \o [k \in 1 .. Cardinality(above) |->
               Transfer(caller, NoOne, Listed(above)[k])]

\* The events of a redemption of S.
RedeemLog(S, to) ==
    LET below == {i \in S : i < ownerToken - 1}
        above == {i \in S : i >= ownerToken - 1}
    IN  [k \in 1 .. Cardinality(below) |-> ShapeRedeemed(Listed(below)[k], to)]
        \o MovedFrom(S, 0)
        \o [k \in 1 .. Cardinality(above) |-> ShapeRedeemed(Listed(above)[k], to)]

\* Where the burns of the inputs of a compose lead.
LEMMA BurnedEffect ==
    ASSUME NEW sender, NEW m \in Nat, NEW t \in TablesOf(m), NEW S \in SUBSET Ids,
           NEW caller, ownerToken \in 0 .. MaxMinted, NEW to \in 0 .. MaxMinted
    PROVE  Leads(sender, t, BurnLog(S, to, caller), m,
                 t.token, OwnerRowLeft(t, m, S, to), t.lineageEdge,
                 Told(t.activity), t.escrowedCard)
<1>1. PICK A, B, E, F, M :
         /\ A = {i \in S : i < ownerToken - 1} /\ B = {i \in S : i >= ownerToken - 1}
         /\ E = [k \in 1 .. Cardinality(A) |-> Transfer(caller, NoOne, Listed(A)[k])]
         /\ F = [k \in 1 .. Cardinality(B) |-> Transfer(caller, NoOne, Listed(B)[k])]
         /\ M = MovedFrom(S, to)
  OBVIOUS
<1>2. BurnLog(S, to, caller) = E \o M \o F
  BY <1>1 DEF BurnLog
<1>3. A \in SUBSET Ids /\ B \in SUBSET Ids
  BY <1>1
<1>4. Yields(sender, t, E, t)
  BY <1>1, <1>3, BurnLoop
<1>5. PICK v \in TablesOf(m) :
              /\ Yields(sender, t, M, v)
              /\ v.token = t.token
              /\ v.collectionOwner = OwnerRowLeft(t, m, S, to)
              /\ v.lineageEdge = t.lineageEdge
              /\ Told(t.activity) \subseteq Told(v.activity)
              /\ v.escrowedCard = t.escrowedCard
  <2>1. Leads(sender, t, MovedFrom(S, to), m, t.token,
              OwnerRowLeft(t, m, S, to), t.lineageEdge, Told(t.activity),
              t.escrowedCard)
    BY MovedFromEffect
  <2> QED
    BY <1>1, <2>1 DEF Leads
<1>6. Yields(sender, v, F, v)
  BY <1>1, <1>3, BurnLoop
<1>7. Yields(sender, t, E \o M, v)
  BY <1>4, <1>5, YieldsThen
<1>8. Yields(sender, t, E \o M \o F, v)
  BY <1>6, <1>7, YieldsThen
<1> QED
  BY <1>2, <1>5, <1>8 DEF Leads

\* Where a redemption leads.
LEMMA RedeemedEffect ==
    ASSUME NEW sender, NEW m \in Nat, NEW t \in TablesOf(m), NEW S \in SUBSET Ids,
           S \subseteq 0 .. m - 1, NEW to, ownerToken \in 0 .. MaxMinted
    PROVE  Leads(sender, t, RedeemLog(S, to), m,
                 Dead(t, m, S),
                 IF ownerToken - 1 \in S THEN [tokenId |-> 0, address |-> NoOne]
                 ELSE t.collectionOwner,
                 t.lineageEdge, Told(t.activity) \cup S, t.escrowedCard)
<1>1. PICK A, B, E, F, M :
         /\ A = {i \in S : i < ownerToken - 1} /\ B = {i \in S : i >= ownerToken - 1}
         /\ E = [k \in 1 .. Cardinality(A) |-> ShapeRedeemed(Listed(A)[k], to)]
         /\ F = [k \in 1 .. Cardinality(B) |-> ShapeRedeemed(Listed(B)[k], to)]
         /\ M = MovedFrom(S, 0)
  OBVIOUS
<1>2. RedeemLog(S, to) = E \o M \o F
  BY <1>1 DEF RedeemLog
<1>3. /\ A \in SUBSET Ids /\ B \in SUBSET Ids /\ 0 \in 0 .. MaxMinted
      /\ A \subseteq 0 .. m - 1 /\ B \subseteq 0 .. m - 1
  <2>1. A \subseteq S /\ B \subseteq S
    BY <1>1
  <2>2. 0 \in 0 .. MaxMinted
    BY BoundsAssumption
  <2> QED
    BY <2>1, <2>2, Zenon
<1>4. A \cup B = S /\ A \cap B = {}
  <2>1. \A i \in S : i < ownerToken - 1 <=> ~(i >= ownerToken - 1)
    OBVIOUS
  <2> QED
    BY <1>1, <2>1
<1>5. PICK x \in TablesOf(m) :
              /\ Yields(sender, t, E, x)
              /\ x.token = Dead(t, m, A)
              /\ x.collectionOwner = t.collectionOwner
              /\ x.lineageEdge = t.lineageEdge
              /\ Told(t.activity) \cup A \subseteq Told(x.activity)
              /\ x.escrowedCard = t.escrowedCard
  <2>1. Leads(sender, t, E, m, Dead(t, m, A), t.collectionOwner,
              t.lineageEdge, Told(t.activity) \cup A, t.escrowedCard)
    BY <1>1, <1>3, RedeemEffect
  <2> QED
    BY <2>1 DEF Leads
<1>6. PICK y \in TablesOf(m) :
              /\ Yields(sender, x, M, y)
              /\ y.token = x.token
              /\ y.collectionOwner = OwnerRowLeft(x, m, S, 0)
              /\ y.lineageEdge = x.lineageEdge
              /\ Told(x.activity) \subseteq Told(y.activity)
              /\ y.escrowedCard = x.escrowedCard
  <2>1. PICK z : z = 0 /\ z \in 0 .. MaxMinted
    BY <1>3
  <2>2. Leads(sender, x, MovedFrom(S, z), m, x.token,
              OwnerRowLeft(x, m, S, z), x.lineageEdge, Told(x.activity),
              x.escrowedCard)
    BY <2>1, MovedFromEffect
  <2> QED
    BY <1>1, <2>1, <2>2 DEF Leads
<1>7. PICK v \in TablesOf(m) :
              /\ Yields(sender, y, F, v)
              /\ v.token = Dead(y, m, B)
              /\ v.collectionOwner = y.collectionOwner
              /\ v.lineageEdge = y.lineageEdge
              /\ Told(y.activity) \cup B \subseteq Told(v.activity)
              /\ v.escrowedCard = y.escrowedCard
  <2>1. Leads(sender, y, F, m, Dead(y, m, B), y.collectionOwner,
              y.lineageEdge, Told(y.activity) \cup B, y.escrowedCard)
    BY <1>1, <1>3, RedeemEffect
  <2> QED
    BY <2>1 DEF Leads
<1>8. Yields(sender, t, E \o M \o F, v)
  <2>1. Yields(sender, t, E \o M, y)
    BY <1>5, <1>6, YieldsThen
  <2> QED
    BY <1>7, <2>1, YieldsThen
<1>9. v.token = Dead(t, m, S)
  <2>1. y.token = [i \in 0 .. m - 1 |->
                     IF i \in A THEN [t.token[i] EXCEPT !.live = FALSE]
                     ELSE t.token[i]]
    BY <1>5, <1>6 DEF Dead
  <2>2. v.token = [i \in 0 .. m - 1 |->
                     IF i \in B THEN [y.token[i] EXCEPT !.live = FALSE]
                     ELSE y.token[i]]
    BY <1>7 DEF Dead
  <2>3. ASSUME NEW i \in 0 .. m - 1
        PROVE  v.token[i] = IF i \in S THEN [t.token[i] EXCEPT !.live = FALSE]
                            ELSE t.token[i]
    <3>1. CASE i \in B
      <4>1. i \notin A /\ i \in S
        BY <1>4, <3>1
      <4> QED
        BY <2>1, <2>2, <3>1, <4>1
    <3>2. CASE i \notin B
      <4>1. i \in A <=> i \in S
        BY <1>4, <3>2
      <4> QED
        BY <2>1, <2>2, <3>2, <4>1
    <3> QED
      BY <3>1, <3>2
  <2> QED
    BY <2>2, <2>3 DEF Dead
<1>10. v.collectionOwner = IF ownerToken - 1 \in S
                           THEN [tokenId |-> 0, address |-> NoOne]
                           ELSE t.collectionOwner
  <2>1. 0 - 1 \notin 0 .. m - 1
    OBVIOUS
  <2> QED
    BY <1>5, <1>6, <1>7, <2>1 DEF OwnerRowLeft, RowOfOwner
<1>11. /\ v.lineageEdge = t.lineageEdge /\ v.escrowedCard = t.escrowedCard
       /\ Told(t.activity) \cup S \subseteq Told(v.activity)
  BY <1>4, <1>5, <1>6, <1>7
<1> QED
  BY <1>2, <1>8, <1>9, <1>10, <1>11 DEF Leads

\* A denomination is worth a number of units.
LEMMA UnitsOfDenoms == \A d \in Denoms : Units[d] \in Nat
BY LadderAssumption

\* The row of the survivor of a compose.
ComposedRow(r, d, o, x) ==
    [r EXCEPT !.denom = d, !.backing = Units[d], !.origins = o,
              !.depth = @ + 1, !.art = x]

\* The row of a token that is no longer live.
DeadRow(r) == [r EXCEPT !.live = FALSE]

\* The rows once the inputs B were composed into s.
ComposedRows(t, m, s, B, sh) ==
    [i \in 0 .. m - 1 |->
        IF i = s THEN ComposedRow(t.token[i], sh.denom, sh.origins, sh.art)
        ELSE IF i \in B THEN DeadRow(t.token[i]) ELSE t.token[i]]

\* Where Composed and the ArtSet after it lead.
LEMMA ComposedEffect ==
    ASSUME NEW sender, NEW m \in Nat, 0 .. m - 1 \subseteq Ids,
           NEW t \in TablesOf(m), NEW s \in 0 .. m - 1,
           NEW B \in SUBSET (0 .. m - 1), s \notin B, NEW sh \in ShapeData
    PROVE  Leads(sender, t, <<ComposedInto(s, B, sh), ArtSet(s, sh.art)>>, m,
                 ComposedRows(t, m, s, B, sh), t.collectionOwner,
                 Append(t.lineageEdge, Edges("continuation", s, B, sh.denom)),
                 Told(t.activity) \cup {s} \cup B, t.escrowedCard)
<1>a. PICK d, o, x, e : /\ d = sh.denom /\ o = sh.origins /\ x = sh.art
                        /\ e = ComposedInto(s, B, sh)
  OBVIOUS
<1>b. PICK r : r = [t.token[s] EXCEPT !.denom = d, !.backing = Units[d],
                                   !.origins = o, !.depth = @ + 1]
  OBVIOUS
<1>c. PICK f : f = [i \in 0 .. m - 1 |->
                     IF i = s THEN r
                     ELSE IF i \in B THEN [t.token[i] EXCEPT !.live = FALSE]
                     ELSE t.token[i]]
  OBVIOUS
<1>1. PICK L, R, v :
         /\ L = Append(t.lineageEdge, Edges("continuation", s, B, d))
         /\ R = t.activity \cup {ActivityRow("compose", {s} \cup B)}
         /\ v = [t EXCEPT !.token = f, !.lineageEdge = L, !.activity = R]
  OBVIOUS
<1>2. d \in Denoms /\ o \in Nat /\ x \in Arts /\ Units[d] \in Nat
  BY <1>a, UnitsOfDenoms DEF ShapeData
<1>3. /\ e.event = "Composed" /\ e.id = s /\ e.burned = B /\ e.denom = d
      /\ e.origins = o
  <2>1. e = [event |-> "Composed", id |-> s, burned |-> B, denom |-> d, origins |-> o]
    BY <1>a DEF ComposedInto
  <2> QED
    BY <2>1
<1>4. DOMAIN t.token = 0 .. m - 1 /\ t.token \in [0 .. m - 1 -> Row] /\ t.token[s] \in Row
  BY DEF TablesOf
<1>5. ~Throws(t, e)
  BY <1>3, <1>4 DEF Throws, RowsNeeded, RowsInserted
<1>6. Handled(t, e, sender) = v
  <2>1. Handled(t, e, sender) = OnComposed(t, e)
    BY <1>3, HandledKinds
  <2>2. [i \in DOMAIN t.token |->
                      IF i = s
                      THEN [t.token[i] EXCEPT !.denom = d,
                                        !.backing = Units[d],
                                        !.origins = o,
                                        !.depth = @ + 1]
                      ELSE IF i \in B THEN [t.token[i] EXCEPT !.live = FALSE]
                      ELSE t.token[i]] = f
    BY <1>b, <1>c, <1>4
  <2>3. OnComposed(t, e) =
          [t EXCEPT
            !.token = [i \in DOMAIN t.token |->
                      IF i = s
                      THEN [t.token[i] EXCEPT !.denom = d,
                                        !.backing = Units[d],
                                        !.origins = o,
                                        !.depth = @ + 1]
                      ELSE IF i \in B THEN [t.token[i] EXCEPT !.live = FALSE]
                      ELSE t.token[i]],
            !.lineageEdge = Append(@, Edges("continuation", s, B, d)),
            !.activity = @ \cup {ActivityRow("compose", {s} \cup B)}]
    BY <1>3, Zenon DEF OnComposed
  <2>4. OnComposed(t, e) =
          [t EXCEPT !.token = f,
            !.lineageEdge = Append(@, Edges("continuation", s, B, d)),
            !.activity = @ \cup {ActivityRow("compose", {s} \cup B)}]
    BY <2>2, <2>3
  <2> QED
    BY <1>1, <2>1, <2>4
<1>7. Yields(sender, t, <<e>>, v)
  BY <1>5, <1>6, YieldsOne
<1>8. r \in Row
  <2>1. PICK q, n, b : q = t.token[s] /\ n = q.depth + 1 /\ b = Units[d]
    OBVIOUS
  <2>2. q \in Row /\ n \in Int /\ b \in Nat
    BY <1>2, <1>4, <2>1 DEF Row
  <2>3. r = [q EXCEPT !.denom = d, !.backing = b, !.origins = o, !.depth = n]
    BY <1>b, <2>1
  <2> QED
    BY <1>2, <2>2, <2>3 DEF Row
<1>9. f \in [0 .. m - 1 -> Row]
  <2>1. ASSUME NEW i \in 0 .. m - 1 PROVE f[i] \in Row
    <3>1. t.token[i] \in Row
      BY <1>4
    <3> QED
      BY <1>c, <1>8, <3>1, RowKept
  <2> QED
    BY <1>c, <2>1
<1>10. L \in Seq(Edge)
  <2>1. Edges("continuation", s, B, d) \in Edge
    BY <1>2 DEF Edges, Edge
  <2>2. t.lineageEdge \in Seq(Edge)
    BY DEF TablesOf
  <2> QED
    BY <1>1, <2>1, <2>2
<1>11. R \in SUBSET FeedRow /\ Told(t.activity) \cup {s} \cup B \subseteq Told(R)
  <2>1. PICK A, k, I : A = t.activity /\ k = "compose" /\ I = {s} \cup B
    OBVIOUS
  <2>2. A \in SUBSET FeedRow
    BY <2>1 DEF TablesOf
  <2>3. I \in SUBSET Ids /\ k \in FeedKinds
    BY <2>1 DEF FeedKinds
  <2>4. R = A \cup {ActivityRow(k, I)}
    BY <1>1, <2>1
  <2>5. R \in SUBSET FeedRow /\ Told(A) \cup I \subseteq Told(R)
    BY <2>2, <2>3, <2>4, ToldMore
  <2> QED
    BY <2>1, <2>5
<1>12. /\ v \in TablesOf(m) /\ v.token = f /\ v.activity = R
       /\ v.collectionOwner = t.collectionOwner
       /\ v.lineageEdge = L
       /\ v.escrowedCard = t.escrowedCard
  <2>1. t.collectionOwner \in OwnerRow /\ t.escrowedCard \in SUBSET Card
    BY DEF TablesOf
  <2>2. v = [token |-> f, collectionOwner |-> t.collectionOwner, lineageEdge |-> L,
             activity |-> R, escrowedCard |-> t.escrowedCard]
    BY <1>1 DEF TablesOf
  <2> QED
    BY <1>9, <1>10, <1>11, <2>1, <2>2 DEF TablesOf
<1>13. PICK y \in TablesOf(m) :
          /\ Yields(sender, v, <<ArtSet(s, x)>>, y)
          /\ y.token = [v.token EXCEPT ![s] = [v.token[s] EXCEPT !.art = x]]
          /\ y.collectionOwner = v.collectionOwner
          /\ y.lineageEdge = v.lineageEdge
          /\ Told(v.activity) \subseteq Told(y.activity)
          /\ y.escrowedCard = v.escrowedCard
  <2>1. Leads(sender, v, <<ArtSet(s, x)>>, m,
                 [v.token EXCEPT ![s] = [v.token[s] EXCEPT !.art = x]],
                 v.collectionOwner, v.lineageEdge, Told(v.activity),
                 v.escrowedCard)
    BY <1>2, <1>12, OneArtEffect
  <2> QED
    BY <2>1 DEF Leads
<1>14. Yields(sender, t, <<e, ArtSet(s, x)>>, y)
  <2>1. Yields(sender, t, <<e>> \o <<ArtSet(s, x)>>, y)
    BY <1>7, <1>13, YieldsThen
  <2>2. PICK a : a = ArtSet(s, x)
    OBVIOUS
  <2>3. <<e>> \o <<a>> = <<e, a>>
    BY Pair
  <2> QED
    BY <2>1, <2>2, <2>3
<1>15. y.token = [i \in 0 .. m - 1 |->
                     IF i = s
                     THEN ComposedRow(t.token[i], d, o, x)
                     ELSE IF i \in B THEN DeadRow(t.token[i]) ELSE t.token[i]]
  <2>1. [r EXCEPT !.art = x] = ComposedRow(t.token[s], d, o, x)
    <3>1. PICK q, n, b : q = t.token[s] /\ n = q.depth + 1 /\ b = Units[d]
      OBVIOUS
    <3>2. r = [q EXCEPT !.denom = d, !.backing = b, !.origins = o, !.depth = n]
      BY <1>b, <3>1
    <3>3. ComposedRow(q, d, o, x) = [q EXCEPT !.denom = d, !.backing = b,
                                      !.origins = o, !.depth = n, !.art = x]
      BY <3>1 DEF ComposedRow
    <3>4. q \in Row
      BY <1>4, <3>1
    <3> QED
      BY <3>1, <3>2, <3>3, <3>4 DEF Row
  <2>2. f[s] = r /\ y.token = [f EXCEPT ![s] = [f[s] EXCEPT !.art = x]]
    BY <1>c, <1>12, <1>13
  <2> QED
    BY <1>c, <2>1, <2>2 DEF DeadRow
<1> QED
  BY <1>1, <1>a, <1>11, <1>12, <1>13, <1>14, <1>15 DEF Leads, ComposedRows

\* The Transfer of one burn changes nothing.
LEMMA BurnOne ==
    ASSUME NEW sender, NEW t, NEW caller, NEW i
    PROVE  Yields(sender, t, <<Transfer(caller, NoOne, i)>>, t)
<1>1. PICK e : e = Transfer(caller, NoOne, i)
  OBVIOUS
<1>2. e.event = "Transfer" /\ e.to = NoOne
  <2>1. e = [event |-> "Transfer", from |-> caller, to |-> NoOne, id |-> i]
    BY <1>1 DEF Transfer
  <2> QED
    BY <2>1
<1>3. ~Throws(t, e)
  BY <1>2 DEF Throws, RowsNeeded, RowsInserted
<1>4. Handled(t, e, sender) = t
  <2>1. Handled(t, e, sender) = OnTransfer(t, e)
    BY <1>2, HandledKinds
  <2> QED
    BY <1>2, <2>1 DEF OnTransfer
<1> QED
  BY <1>1, <1>3, <1>4, YieldsOne

\* The rows once the split of i has made q children.
SplitRows(t, m, i, e, q, sender) ==
    [j \in 0 .. m + q - 1 |->
        IF j >= m THEN SplitRow(t.token[i], e, j - m + 1, sender)
        ELSE IF j = i THEN DeadRow(t.token[j]) ELSE t.token[j]]

\* The row of a child of a split.
LEMMA SplitRowType ==
    ASSUME NEW r \in Row, NEW sender \in Accounts, NEW q \in Nat,
           NEW out \in [1 .. q -> Denoms], NEW or \in [1 .. q -> Nat],
           NEW e, e.out = out, e.origins = or, NEW k \in 1 .. q
    PROVE  SplitRow(r, e, k, sender) \in Row
<1>1. PICK sd, d, b, o, od : /\ sd = Append(r.seed, k - 1) /\ d = out[k]
                             /\ b = Units[d] /\ o = or[k]
                             /\ od = RowOriginDenom(r)
  OBVIOUS
<1>2. d \in Denoms /\ o \in Nat /\ r.denom \in Denoms /\ b \in Nat
  <2>1. d \in Denoms /\ o \in Nat /\ r.denom \in Denoms
    BY <1>1 DEF Row
  <2> QED
    BY <1>1, <2>1, UnitsOfDenoms
<1>3. sd \in Seeds
  <2>1. r.seed \in Seq(Nat) /\ k - 1 \in Nat
    BY DEF Row, Seeds
  <2> QED
    BY <1>1, <2>1 DEF Seeds
<1>4. od \in Denoms
  BY <1>1 DEF RowOriginDenom, Row
<1>5. BlankArt \in Arts
  BY ArtAssumption
<1>6. SplitRow(r, e, k, sender) =
        [seed |-> sd, denom |-> d, backing |-> b, origins |-> o, depth |-> 0,
         art |-> BlankArt, black |-> FALSE, live |-> TRUE, owner |-> sender,
         splitFrom |-> r.denom, splitOrigin |-> od, mintDenom |-> d]
  BY <1>1 DEF SplitRow
<1> QED
  BY <1>2, <1>3, <1>4, <1>5, <1>6 DEF Row

\* Where Split leads.
LEMMA SplitEventEffect ==
    ASSUME NEW sender \in Accounts, NEW m \in Nat, NEW q \in Nat,
           0 .. m + q - 1 \subseteq Ids,
           NEW t \in TablesOf(m), NEW i \in 0 .. m - 1,
           NEW out \in [1 .. q -> Denoms], NEW or \in [1 .. q -> Nat],
           Len(out) = q, NEW e,
           e = [event |-> "Split", id |-> i, first |-> m, out |-> out,
                origins |-> or]
    PROVE  Leads(sender, t, <<e>>, m + q, SplitRows(t, m, i, e, q, sender),
                 t.collectionOwner,
                 Append(t.lineageEdge,
                        Edges("split", i, m .. m + q - 1, t.token[i].denom)),
                 Told(t.activity) \cup {i} \cup (m .. m + q - 1),
                 t.escrowedCard)
<1>0. /\ e.event = "Split" /\ e.id = i /\ e.first = m /\ e.out = out
      /\ e.origins = or
  OBVIOUS
<1>1. PICK N, f : N = m .. m + q - 1 /\ f = SplitRows(t, m, i, e, q, sender)
  OBVIOUS
<1>2. PICK L, R, v :
         /\ L = Append(t.lineageEdge, Edges("split", i, N, t.token[i].denom))
         /\ R = t.activity \cup {ActivityRow("split", {i} \cup N)}
         /\ v = [t EXCEPT !.token = f, !.lineageEdge = L, !.activity = R]
  OBVIOUS
<1>3. DOMAIN t.token = 0 .. m - 1 /\ t.token \in [0 .. m - 1 -> Row] /\ t.token[i] \in Row
  BY DEF TablesOf
<1>4. NewIds(e) = N
  BY <1>0, <1>1 DEF NewIds
<1>5. ~Throws(t, e)
  <2>1. N \cap (0 .. m - 1) = {}
    BY <1>1
  <2> QED
    BY <1>0, <1>3, <1>4, <2>1 DEF Throws, RowsNeeded, RowsInserted
<1>6. Handled(t, e, sender) = v
  <2>1. Handled(t, e, sender) = OnSplit(t, e, sender)
    BY <1>0, HandledKinds
  <2>2. [j \in DOMAIN t.token \cup N |->
                      IF j \in N
                      THEN SplitRow(t.token[i], e, j - m + 1, sender)
                      ELSE IF j = i THEN [t.token[j] EXCEPT !.live = FALSE]
                      ELSE t.token[j]] = f
    <3>1. DOMAIN t.token \cup N = 0 .. m + q - 1
      BY <1>1, <1>3
    <3>2. \A j \in 0 .. m + q - 1 : j \in N <=> j >= m
      BY <1>1
    <3>3. f = [j \in 0 .. m + q - 1 |->
                IF j >= m THEN SplitRow(t.token[i], e, j - m + 1, sender)
                ELSE IF j = i THEN [t.token[j] EXCEPT !.live = FALSE]
                ELSE t.token[j]]
      BY <1>1 DEF SplitRows, DeadRow
    <3> QED
      BY <3>1, <3>2, <3>3
  <2>3. OnSplit(t, e, sender) =
          [t EXCEPT
            !.token = [j \in DOMAIN t.token \cup N |->
                      IF j \in N
                      THEN SplitRow(t.token[i], e, j - m + 1, sender)
                      ELSE IF j = i THEN [t.token[j] EXCEPT !.live = FALSE]
                      ELSE t.token[j]],
            !.lineageEdge = Append(@, Edges("split", i, N, t.token[i].denom)),
            !.activity = @ \cup {ActivityRow("split", {i} \cup N)}]
    BY <1>0, <1>4, Zenon DEF OnSplit
  <2>4. OnSplit(t, e, sender) =
          [t EXCEPT !.token = f,
            !.lineageEdge = Append(@, Edges("split", i, N, t.token[i].denom)),
            !.activity = @ \cup {ActivityRow("split", {i} \cup N)}]
    BY <2>2, <2>3
  <2> QED
    BY <1>2, <2>1, <2>4
<1>7. Yields(sender, t, <<e>>, v)
  BY <1>5, <1>6, YieldsOne
<1>9. f \in [0 .. m + q - 1 -> Row]
  <2>1. ASSUME NEW j \in 0 .. m + q - 1 PROVE f[j] \in Row
    <3>1. CASE j >= m
      <4>1. PICK k, r : k = j - m + 1 /\ r = t.token[i]
        OBVIOUS
      <4>2. k \in 1 .. q /\ r \in Row
        BY <1>3, <3>1, <4>1
      <4>3. SplitRow(r, e, k, sender) \in Row
        BY <1>0, <4>2, SplitRowType
      <4>4. f[j] = SplitRow(r, e, k, sender)
        BY <1>1, <3>1, <4>1 DEF SplitRows
      <4> QED
        BY <4>3, <4>4
    <3>2. CASE ~(j >= m)
      <4>1. j \in 0 .. m - 1
        BY <3>2
      <4>2. t.token[j] \in Row
        BY <1>3, <4>1
      <4>3. f[j] = IF j = i THEN DeadRow(t.token[j]) ELSE t.token[j]
        BY <1>1, <3>2 DEF SplitRows
      <4> QED
        BY <4>2, <4>3, RowKept DEF DeadRow
    <3> QED
      BY <3>1, <3>2
  <2>2. f = [j \in 0 .. m + q - 1 |-> f[j]]
    BY <1>1 DEF SplitRows
  <2> QED
    BY <2>1, <2>2
<1>10. L \in Seq(Edge)
  <2>1. i \in Ids /\ N \in SUBSET Ids /\ t.token[i].denom \in Denoms
    <3>1. i \in Ids
      OBVIOUS
    <3>2. N \in SUBSET Ids
      BY <1>1
    <3>3. t.token[i].denom \in Denoms
      BY <1>3 DEF Row
    <3> QED
      BY <3>1, <3>2, <3>3
  <2>2. Edges("split", i, N, t.token[i].denom) \in Edge
    BY <2>1 DEF Edges, Edge
  <2>3. t.lineageEdge \in Seq(Edge)
    BY DEF TablesOf
  <2> QED
    BY <1>2, <2>2, <2>3
<1>11. R \in SUBSET FeedRow /\ Told(t.activity) \cup {i} \cup N \subseteq Told(R)
  <2>1. PICK A, k, I : A = t.activity /\ k = "split" /\ I = {i} \cup N
    OBVIOUS
  <2>2. A \in SUBSET FeedRow
    BY <2>1 DEF TablesOf
  <2>3. I \in SUBSET Ids /\ k \in FeedKinds
    BY <1>1, <2>1 DEF FeedKinds
  <2>4. R = A \cup {ActivityRow(k, I)}
    BY <1>2, <2>1
  <2>5. R \in SUBSET FeedRow /\ Told(A) \cup I \subseteq Told(R)
    BY <2>2, <2>3, <2>4, ToldMore
  <2> QED
    BY <2>1, <2>5
<1>12. /\ v \in TablesOf(m + q) /\ v.token = f /\ v.activity = R
       /\ v.collectionOwner = t.collectionOwner
       /\ v.lineageEdge = L
       /\ v.escrowedCard = t.escrowedCard
  <2>1. t.collectionOwner \in OwnerRow /\ t.escrowedCard \in SUBSET Card
    BY DEF TablesOf
  <2>2. v = [token |-> f, collectionOwner |-> t.collectionOwner, lineageEdge |-> L,
             activity |-> R, escrowedCard |-> t.escrowedCard]
    BY <1>2 DEF TablesOf
  <2> QED
    BY <1>9, <1>10, <1>11, <2>1, <2>2 DEF TablesOf
<1> QED
  BY <1>1, <1>2, <1>7, <1>11, <1>12 DEF Leads

\* A split: the rows of the children carry the art that follows.
SplitBornRows(t, m, i, e, q, sender, a) ==
    [j \in 0 .. m + q - 1 |->
        IF j >= m THEN [SplitRow(t.token[i], e, j - m + 1, sender)
                           EXCEPT !.art = a[j]]
        ELSE IF j = i THEN DeadRow(t.token[j]) ELSE t.token[j]]

\* Where all the events of a split lead, up to the Transfers to its recipient.
LEMMA SplitEffect ==
    ASSUME NEW sender \in Accounts, NEW m \in Nat, NEW q \in Nat,
           0 .. m + q - 1 \subseteq Ids, m + 1 \in 0 .. MaxMinted,
           ownerToken \in 0 .. MaxMinted,
           NEW t \in TablesOf(m), NEW i \in 0 .. m - 1, NEW caller,
           NEW out \in [1 .. q -> Denoms], NEW or \in [1 .. q -> Nat],
           Len(out) = q, NEW e,
           e = [event |-> "Split", id |-> i, first |-> m, out |-> out,
                origins |-> or],
           NEW N, N = m .. m + q - 1, NEW a, \A c \in N : a[c] \in Arts,
           NEW F, F = [k \in 1 .. Cardinality(N) |->
                         ArtSet(Listed(N)[k], a[Listed(N)[k]])]
    PROVE  Leads(sender, t,
                 <<Transfer(caller, NoOne, i)>> \o MovedFrom({i}, m + 1)
                 \o <<e>> \o F, m + q,
                 SplitBornRows(t, m, i, e, q, sender, a),
                 OwnerRowLeft(t, m, {i}, m + 1),
                 Append(t.lineageEdge,
                        Edges("split", i, N, t.token[i].denom)),
                 Told(t.activity) \cup {i} \cup N,
                 t.escrowedCard)
<1>1. PICK T, M : T = <<Transfer(caller, NoOne, i)>> /\ M = MovedFrom({i}, m + 1)
  OBVIOUS
<1>2. Yields(sender, t, T, t)
  BY <1>1, BurnOne
<1>3. PICK x \in TablesOf(m) :
          /\ Yields(sender, t, M, x)
          /\ x.token = t.token
          /\ x.collectionOwner = OwnerRowLeft(t, m, {i}, m + 1)
          /\ x.lineageEdge = t.lineageEdge
          /\ Told(t.activity) \subseteq Told(x.activity)
          /\ x.escrowedCard = t.escrowedCard
  <2>1. PICK z : z = m + 1
    OBVIOUS
  <2>2. Leads(sender, t, MovedFrom({i}, z), m, t.token,
              OwnerRowLeft(t, m, {i}, z), t.lineageEdge, Told(t.activity),
              t.escrowedCard)
    BY <2>1, MovedFromEffect
  <2> QED
    BY <1>1, <2>1, <2>2 DEF Leads
<1>4. PICK n : n = m + q
  OBVIOUS
<1>5. PICK y \in TablesOf(n) :
          /\ Yields(sender, x, <<e>>, y)
          /\ y.token = SplitRows(x, m, i, e, q, sender)
          /\ y.collectionOwner = x.collectionOwner
          /\ y.lineageEdge = Append(x.lineageEdge,
                                    Edges("split", i, N, x.token[i].denom))
          /\ Told(x.activity) \cup {i} \cup N \subseteq Told(y.activity)
          /\ y.escrowedCard = x.escrowedCard
  <2>1. Leads(sender, x, <<e>>, m + q, SplitRows(x, m, i, e, q, sender),
                 x.collectionOwner,
                 Append(x.lineageEdge,
                        Edges("split", i, m .. m + q - 1, x.token[i].denom)),
                 Told(x.activity) \cup {i} \cup (m .. m + q - 1),
                 x.escrowedCard)
    BY SplitEventEffect
  <2> QED
    BY <1>4, <2>1 DEF Leads
<1>6. /\ n \in Nat /\ N \in SUBSET Ids /\ N \subseteq 0 .. n - 1
      /\ \A j \in 0 .. n - 1 : j \in N <=> j >= m
  <2>1. n \in Nat /\ N \subseteq 0 .. n - 1 /\ \A j \in 0 .. n - 1 : j \in N <=> j >= m
    BY <1>4
  <2> QED
    BY <1>4, <2>1
<1>7. PICK v \in TablesOf(n) :
          /\ Yields(sender, y, F, v)
          /\ v.token = [j \in 0 .. n - 1 |->
                           IF j \in N THEN [y.token[j] EXCEPT !.art = a[j]]
                           ELSE y.token[j]]
          /\ v.collectionOwner = y.collectionOwner
          /\ v.lineageEdge = y.lineageEdge
          /\ Told(y.activity) \subseteq Told(v.activity)
          /\ v.escrowedCard = y.escrowedCard
  <2>1. Leads(sender, y, F, n, ArtRows(y, n, N, a), y.collectionOwner,
              y.lineageEdge, Told(y.activity), y.escrowedCard)
    <3>1. n \in Nat /\ y \in TablesOf(n) /\ N \in SUBSET Ids
      BY <1>6
    <3>2. N \subseteq 0 .. n - 1
      BY <1>6
    <3>3. \A c \in N : a[c] \in Arts
      OBVIOUS
    <3>4. F = [k \in 1 .. Cardinality(N) |-> ArtSet(Listed(N)[k], a[Listed(N)[k]])]
      OBVIOUS
    <3> QED
      BY <3>1, <3>2, <3>3, <3>4, ArtEffect
  <2> QED
    BY <2>1 DEF Leads, ArtRows
<1>8. Yields(sender, t, T \o M \o <<e>> \o F, v)
  <2>1. Yields(sender, t, T \o M, x)
    BY <1>2, <1>3, YieldsThen
  <2>2. Yields(sender, t, T \o M \o <<e>>, y)
    BY <1>5, <2>1, YieldsThen
  <2> QED
    BY <1>7, <2>2, YieldsThen
<1>9. v.token = SplitBornRows(t, m, i, e, q, sender, a)
  <2>1. y.token = [j \in 0 .. n - 1 |->
                IF j >= m THEN SplitRow(t.token[i], e, j - m + 1, sender)
                ELSE IF j = i THEN DeadRow(t.token[j]) ELSE t.token[j]]
    BY <1>3, <1>4, <1>5 DEF SplitRows
  <2>2. ASSUME NEW j \in 0 .. n - 1
        PROVE  v.token[j] = IF j >= m
                            THEN [SplitRow(t.token[i], e, j - m + 1, sender)
                                     EXCEPT !.art = a[j]]
                            ELSE IF j = i THEN DeadRow(t.token[j]) ELSE t.token[j]
    <3>1. CASE j >= m
      <4>1. v.token[j] = [y.token[j] EXCEPT !.art = a[j]]
        BY <1>6, <1>7, <3>1
      <4>2. y.token[j] = SplitRow(t.token[i], e, j - m + 1, sender)
        BY <2>1, <3>1
      <4> QED
        BY <3>1, <4>1, <4>2
    <3>2. CASE ~(j >= m)
      <4>1. v.token[j] = y.token[j]
        BY <1>6, <1>7, <3>2
      <4>2. y.token[j] = IF j = i THEN DeadRow(t.token[j]) ELSE t.token[j]
        BY <2>1, <3>2
      <4> QED
        BY <3>2, <4>1, <4>2
    <3> QED
      BY <3>1, <3>2
  <2>3. v.token = [j \in 0 .. n - 1 |-> v.token[j]]
    BY <1>7
  <2> QED
    BY <1>4, <2>2, <2>3 DEF SplitBornRows
<1>10. /\ v.collectionOwner = OwnerRowLeft(t, m, {i}, m + 1)
       /\ v.lineageEdge = Append(t.lineageEdge, Edges("split", i, N, t.token[i].denom))
       /\ Told(t.activity) \cup {i} \cup N \subseteq Told(v.activity)
       /\ v.escrowedCard = t.escrowedCard
  BY <1>3, <1>5, <1>7
<1> QED
  BY <1>1, <1>4, <1>8, <1>9, <1>10 DEF Leads

\* The row of the survivor of a decompose, and of an id it gives back.
UncomposedRow(r, d, o, x) ==
    [r EXCEPT !.denom = d, !.backing = Units[d], !.origins = o,
              !.depth = @ - 1, !.art = x]

\* The row of an id that a decompose gives back: it is live again, the sender's.
RevivedRow(r, sender, x) ==
    [r EXCEPT !.live = TRUE, !.owner = sender, !.art = x]

\* The rows once a decompose of s took back the record rec.
RevivedRows(t, m, s, rec, sender) ==
    [i \in 0 .. m - 1 |->
        IF i = s THEN UncomposedRow(t.token[i], rec.denom, rec.origins, rec.art)
        ELSE IF i \in rec.burned
        THEN RevivedRow(t.token[i], sender, rec.inputs[i].art)
        ELSE t.token[i]]

\* Where the events of a decompose lead, up to the Transfers to its recipient.
LEMMA RevivedEffect ==
    ASSUME NEW sender \in Accounts, NEW m \in Nat, 0 .. m - 1 \subseteq Ids,
           NEW t \in TablesOf(m), NEW s \in 0 .. m - 1, NEW rec,
           rec.denom \in Denoms, rec.origins \in Nat, rec.art \in Arts,
           NEW B, B = rec.burned, B \in SUBSET (0 .. m - 1), s \notin B,
           \A b \in B : rec.inputs[b].art \in Arts,
           NEW F, F = [k \in 1 .. Cardinality(B) |->
                         ArtSet(Listed(B)[k], rec.inputs[Listed(B)[k]].art)]
    PROVE  Leads(sender, t, <<DecomposedTo(s, rec), ArtSet(s, rec.art)>> \o F, m,
                 RevivedRows(t, m, s, rec, sender), t.collectionOwner,
                 Append(t.lineageEdge, Edges("revival", s, B, rec.denom)),
                 Told(t.activity) \cup {s} \cup B, t.escrowedCard)
<1>1. PICK d, o, x, e : /\ d = rec.denom /\ o = rec.origins /\ x = rec.art
                        /\ e = DecomposedTo(s, rec)
  OBVIOUS
<1>2. PICK r : r = [t.token[s] EXCEPT !.denom = d, !.backing = Units[d],
                                      !.origins = o, !.depth = @ - 1]
  OBVIOUS
<1>3. PICK f : f = [i \in 0 .. m - 1 |->
                     IF i = s THEN r
                     ELSE IF i \in B
                     THEN [t.token[i] EXCEPT !.live = TRUE, !.owner = sender]
                     ELSE t.token[i]]
  OBVIOUS
<1>4. PICK L, R, v :
         /\ L = Append(t.lineageEdge, Edges("revival", s, B, d))
         /\ R = t.activity \cup {ActivityRow("decompose", {s} \cup B)}
         /\ v = [t EXCEPT !.token = f, !.lineageEdge = L, !.activity = R]
  OBVIOUS
<1>5. d \in Denoms /\ o \in Nat /\ x \in Arts /\ Units[d] \in Nat
  BY <1>1, UnitsOfDenoms
<1>6. /\ e.event = "Decomposed" /\ e.id = s /\ e.restored = B /\ e.denom = d
      /\ e.origins = o
  <2>1. e = [event |-> "Decomposed", id |-> s, restored |-> B, denom |-> d,
             origins |-> o]
    BY <1>1 DEF DecomposedTo
  <2> QED
    BY <2>1
<1>7. DOMAIN t.token = 0 .. m - 1 /\ t.token \in [0 .. m - 1 -> Row] /\ t.token[s] \in Row
  BY DEF TablesOf
<1>8. ~Throws(t, e)
  BY <1>6, <1>7 DEF Throws, RowsNeeded, RowsInserted
<1>9. Handled(t, e, sender) = v
  <2>1. Handled(t, e, sender) = OnDecomposed(t, e, sender)
    BY <1>6, HandledKinds
  <2>2. [i \in DOMAIN t.token |->
                      IF i = s
                      THEN [t.token[i] EXCEPT !.denom = d,
                                        !.backing = Units[d],
                                        !.origins = o,
                                        !.depth = @ - 1]
                      ELSE IF i \in B
                      THEN [t.token[i] EXCEPT !.live = TRUE, !.owner = sender]
                      ELSE t.token[i]] = f
    BY <1>2, <1>3, <1>7
  <2>3. OnDecomposed(t, e, sender) =
          [t EXCEPT
            !.token = [i \in DOMAIN t.token |->
                      IF i = s
                      THEN [t.token[i] EXCEPT !.denom = d,
                                        !.backing = Units[d],
                                        !.origins = o,
                                        !.depth = @ - 1]
                      ELSE IF i \in B
                      THEN [t.token[i] EXCEPT !.live = TRUE, !.owner = sender]
                      ELSE t.token[i]],
            !.lineageEdge = Append(@, Edges("revival", s, B, d)),
            !.activity = @ \cup {ActivityRow("decompose", {s} \cup B)}]
    BY <1>6, Zenon DEF OnDecomposed
  <2>4. OnDecomposed(t, e, sender) =
          [t EXCEPT !.token = f,
            !.lineageEdge = Append(@, Edges("revival", s, B, d)),
            !.activity = @ \cup {ActivityRow("decompose", {s} \cup B)}]
    BY <2>2, <2>3
  <2> QED
    BY <1>4, <2>1, <2>4
<1>10. Yields(sender, t, <<e>>, v)
  BY <1>8, <1>9, YieldsOne
<1>11. r \in Row
  <2>1. PICK q, n, b : q = t.token[s] /\ n = q.depth - 1 /\ b = Units[d]
    OBVIOUS
  <2>2. q \in Row /\ n \in Int /\ b \in Nat
    BY <1>5, <1>7, <2>1 DEF Row
  <2>3. r = [q EXCEPT !.denom = d, !.backing = b, !.origins = o, !.depth = n]
    BY <1>2, <2>1
  <2> QED
    BY <1>5, <2>2, <2>3 DEF Row
<1>12. f \in [0 .. m - 1 -> Row]
  <2>1. ASSUME NEW i \in 0 .. m - 1 PROVE f[i] \in Row
    <3>1. t.token[i] \in Row
      BY <1>7
    <3> QED
      BY <1>3, <1>11, <3>1, RowKept
  <2> QED
    BY <1>3, <2>1
<1>13. L \in Seq(Edge)
  <2>1. Edges("revival", s, B, d) \in Edge
    BY <1>5 DEF Edges, Edge
  <2>2. t.lineageEdge \in Seq(Edge)
    BY DEF TablesOf
  <2> QED
    BY <1>4, <2>1, <2>2
<1>14. R \in SUBSET FeedRow /\ Told(t.activity) \cup {s} \cup B \subseteq Told(R)
  <2>1. PICK A, k, I : A = t.activity /\ k = "decompose" /\ I = {s} \cup B
    OBVIOUS
  <2>2. A \in SUBSET FeedRow
    BY <2>1 DEF TablesOf
  <2>3. I \in SUBSET Ids /\ k \in FeedKinds
    BY <2>1 DEF FeedKinds
  <2>4. R = A \cup {ActivityRow(k, I)}
    BY <1>4, <2>1
  <2>5. R \in SUBSET FeedRow /\ Told(A) \cup I \subseteq Told(R)
    BY <2>2, <2>3, <2>4, ToldMore
  <2> QED
    BY <2>1, <2>5
<1>15. /\ v \in TablesOf(m) /\ v.token = f /\ v.activity = R
       /\ v.collectionOwner = t.collectionOwner
       /\ v.lineageEdge = L
       /\ v.escrowedCard = t.escrowedCard
  <2>1. t.collectionOwner \in OwnerRow /\ t.escrowedCard \in SUBSET Card
    BY DEF TablesOf
  <2>2. v = [token |-> f, collectionOwner |-> t.collectionOwner, lineageEdge |-> L,
             activity |-> R, escrowedCard |-> t.escrowedCard]
    BY <1>4 DEF TablesOf
  <2> QED
    BY <1>12, <1>13, <1>14, <2>1, <2>2 DEF TablesOf
<1>16. PICK y \in TablesOf(m) :
          /\ Yields(sender, v, <<ArtSet(s, x)>>, y)
          /\ y.token = [v.token EXCEPT ![s] = [v.token[s] EXCEPT !.art = x]]
          /\ y.collectionOwner = v.collectionOwner
          /\ y.lineageEdge = v.lineageEdge
          /\ Told(v.activity) \subseteq Told(y.activity)
          /\ y.escrowedCard = v.escrowedCard
  <2>1. Leads(sender, v, <<ArtSet(s, x)>>, m,
                 [v.token EXCEPT ![s] = [v.token[s] EXCEPT !.art = x]],
                 v.collectionOwner, v.lineageEdge, Told(v.activity),
                 v.escrowedCard)
    BY <1>5, <1>15, OneArtEffect
  <2> QED
    BY <2>1 DEF Leads
<1>17. PICK a : a = [b \in B |-> rec.inputs[b].art]
  OBVIOUS
<1>18. PICK z \in TablesOf(m) :
          /\ Yields(sender, y, F, z)
          /\ z.token = [j \in 0 .. m - 1 |->
                           IF j \in B THEN [y.token[j] EXCEPT !.art = a[j]]
                           ELSE y.token[j]]
          /\ z.collectionOwner = y.collectionOwner
          /\ z.lineageEdge = y.lineageEdge
          /\ Told(y.activity) \subseteq Told(z.activity)
          /\ z.escrowedCard = y.escrowedCard
  <2>1. B \in SUBSET Ids /\ B \subseteq 0 .. m - 1
    OBVIOUS
  <2>2. \A b \in B : a[b] \in Arts
    BY <1>17
  <2>3. F = [k \in 1 .. Cardinality(B) |-> ArtSet(Listed(B)[k], a[Listed(B)[k]])]
    <3>1. PICK n, l : n = Cardinality(B) /\ l = Listed(B)
      OBVIOUS
    <3>2. \A k \in 1 .. n : l[k] \in B
      BY <2>1, <3>1, TakenAll
    <3>3. \A k \in 1 .. n : rec.inputs[l[k]].art = a[l[k]]
      BY <1>17, <3>2
    <3> QED
      BY <3>1, <3>3
  <2>4. Leads(sender, y, F, m, ArtRows(y, m, B, a), y.collectionOwner,
              y.lineageEdge, Told(y.activity), y.escrowedCard)
    BY <2>1, <2>2, <2>3, ArtEffect
  <2> QED
    BY <2>4 DEF Leads, ArtRows
<1>19. Yields(sender, t, <<e, ArtSet(s, x)>> \o F, z)
  <2>1. PICK a1 : a1 = ArtSet(s, x)
    OBVIOUS
  <2>2. Yields(sender, t, <<e>> \o <<a1>>, y)
    BY <1>10, <1>16, <2>1, YieldsThen
  <2>3. <<e>> \o <<a1>> = <<e, a1>>
    BY Pair
  <2>4. Yields(sender, t, (<<e>> \o <<a1>>) \o F, z)
    BY <1>18, <2>2, YieldsThen
  <2> QED
    BY <2>1, <2>3, <2>4
<1>20. z.token = RevivedRows(t, m, s, rec, sender)
  <2>1. [r EXCEPT !.art = x] = UncomposedRow(t.token[s], d, o, x)
    <3>1. PICK q, n, b : q = t.token[s] /\ n = q.depth - 1 /\ b = Units[d]
      OBVIOUS
    <3>2. r = [q EXCEPT !.denom = d, !.backing = b, !.origins = o, !.depth = n]
      BY <1>2, <3>1
    <3>3. UncomposedRow(q, d, o, x) = [q EXCEPT !.denom = d, !.backing = b,
                                      !.origins = o, !.depth = n, !.art = x]
      BY <3>1 DEF UncomposedRow
    <3>4. q \in Row
      BY <1>7, <3>1
    <3> QED
      BY <3>1, <3>2, <3>3, <3>4 DEF Row
  <2>2. f[s] = r /\ y.token = [f EXCEPT ![s] = [r EXCEPT !.art = x]]
    BY <1>3, <1>15, <1>16
  <2>3. ASSUME NEW i \in 0 .. m - 1
        PROVE  z.token[i] =
                 IF i = s THEN UncomposedRow(t.token[i], d, o, x)
                 ELSE IF i \in B
                 THEN RevivedRow(t.token[i], sender, rec.inputs[i].art)
                 ELSE t.token[i]
    <3>1. CASE i = s
      <4>1. z.token[i] = y.token[i]
        BY <1>18, <3>1
      <4>2. y.token[i] = [r EXCEPT !.art = x]
        BY <1>12, <2>2, <3>1
      <4> QED
        BY <2>1, <3>1, <4>1, <4>2
    <3>2. CASE i # s /\ i \in B
      <4>1. z.token[i] = [y.token[i] EXCEPT !.art = a[i]]
        BY <1>18, <3>2
      <4>2. y.token[i] = f[i]
        BY <1>12, <2>2, <3>2
      <4>3. f[i] = [t.token[i] EXCEPT !.live = TRUE, !.owner = sender]
        BY <1>3, <3>2
      <4>4. a[i] = rec.inputs[i].art
        BY <1>17, <3>2
      <4>5. PICK w, b : w = t.token[i] /\ b = rec.inputs[i].art
        OBVIOUS
      <4>6. w \in Row
        BY <1>7, <4>5
      <4>7. [[w EXCEPT !.live = TRUE, !.owner = sender] EXCEPT !.art = b]
              = RevivedRow(w, sender, b)
        BY <4>6 DEF RevivedRow, Row
      <4> QED
        BY <3>2, <4>1, <4>2, <4>3, <4>4, <4>5, <4>7
    <3>3. CASE i # s /\ i \notin B
      <4>1. z.token[i] = y.token[i] /\ y.token[i] = f[i] /\ f[i] = t.token[i]
        BY <1>3, <1>12, <1>18, <2>2, <3>3
      <4> QED
        BY <3>3, <4>1
    <3> QED
      BY <3>1, <3>2, <3>3
  <2>4. z.token = [i \in 0 .. m - 1 |-> z.token[i]]
    BY <1>18
  <2> QED
    BY <1>1, <2>3, <2>4 DEF RevivedRows
<1>21. /\ z.collectionOwner = t.collectionOwner
       /\ z.lineageEdge = Append(t.lineageEdge, Edges("revival", s, B, rec.denom))
       /\ Told(t.activity) \cup {s} \cup B \subseteq Told(z.activity)
       /\ z.escrowedCard = t.escrowedCard
  BY <1>1, <1>4, <1>14, <1>15, <1>16, <1>18
<1> QED
  BY <1>1, <1>19, <1>20, <1>21 DEF Leads

\* The row of a Shape whose backing was burned.
BlackRow(r) == [r EXCEPT !.black = TRUE, !.backing = 0]

\* Where BlackShapeCreated leads.
LEMMA BlackEffect ==
    ASSUME NEW sender, NEW m \in Nat, NEW t \in TablesOf(m),
           NEW i \in 0 .. m - 1, i \in Ids
    PROVE  Leads(sender, t, <<BlackShapeCreated(i)>>, m,
                 [t.token EXCEPT ![i] = BlackRow(@)], t.collectionOwner,
                 t.lineageEdge, Told(t.activity) \cup {i}, t.escrowedCard)
<1>1. PICK e, r : e = BlackShapeCreated(i) /\ r = BlackRow(t.token[i])
  OBVIOUS
<1>2. PICK f : f = [t.token EXCEPT ![i] = r]
  OBVIOUS
<1>3. PICK R, v : /\ R = t.activity \cup {ActivityRow("burnBacking", {i})}
                  /\ v = [t EXCEPT !.token = f, !.activity = R]
  OBVIOUS
<1>4. e.event = "BlackShapeCreated" /\ e.id = i
  <2>1. e = [event |-> "BlackShapeCreated", id |-> i]
    BY <1>1 DEF BlackShapeCreated
  <2> QED
    BY <2>1
<1>5. t.token \in [0 .. m - 1 -> Row] /\ t.token[i] \in Row
  BY DEF TablesOf
<1>6. ~Throws(t, e)
  BY <1>4, <1>5 DEF Throws, RowsNeeded, RowsInserted
<1>7. Handled(t, e, sender) = v
  <2>1. Handled(t, e, sender) = OnBlackShapeCreated(t, e)
    BY <1>4, HandledKinds
  <2>2. OnBlackShapeCreated(t, e)
          = [t EXCEPT !.token[i].black = TRUE,
                      !.token[i].backing = 0,
                      !.activity = @ \cup {ActivityRow("burnBacking", {i})}]
    BY <1>4, Zenon DEF OnBlackShapeCreated
  <2>3. PICK g : g = [t.token EXCEPT ![i] = [t.token[i] EXCEPT !.black = TRUE]]
    OBVIOUS
  <2>4. [g EXCEPT ![i] = [g[i] EXCEPT !.backing = 0]] = f
    <3>1. g[i] = [t.token[i] EXCEPT !.black = TRUE]
      BY <1>5, <2>3
    <3>2. [g[i] EXCEPT !.backing = 0] = r
      BY <1>1, <1>5, <3>1 DEF BlackRow, Row
    <3> QED
      BY <1>2, <1>5, <2>3, <3>2
  <2>5. [t EXCEPT !.token[i].black = TRUE, !.token[i].backing = 0,
                  !.activity = @ \cup {ActivityRow("burnBacking", {i})}]
         = [[t EXCEPT !.token = g] EXCEPT !.token[i].backing = 0,
                  !.activity = @ \cup {ActivityRow("burnBacking", {i})}]
    BY <2>3
  <2>6. PICK w : w = [t EXCEPT !.token = g]
    OBVIOUS
  <2>7. /\ w.token = g /\ w.activity = t.activity
        /\ [w EXCEPT !.token = f, !.activity = R] = v
    BY <1>3, <2>6 DEF TablesOf
  <2>8. [w EXCEPT !.token[i].backing = 0,
                  !.activity = @ \cup {ActivityRow("burnBacking", {i})}]
         = [w EXCEPT !.token = [g EXCEPT ![i] = [g[i] EXCEPT !.backing = 0]],
                     !.activity = R]
    BY <1>3, <2>7
  <2> QED
    BY <2>1, <2>2, <2>4, <2>5, <2>6, <2>7, <2>8
<1>8. Yields(sender, t, <<e>>, v)
  BY <1>6, <1>7, YieldsOne
<1>9. f \in [0 .. m - 1 -> Row]
  <2>1. r \in Row
    BY <1>1, <1>5, RowKept DEF BlackRow
  <2> QED
    BY <1>2, <1>5, <2>1
<1>10. R \in SUBSET FeedRow /\ Told(t.activity) \cup {i} \subseteq Told(R)
  <2>1. PICK A, k, I : A = t.activity /\ k = "burnBacking" /\ I = {i}
    OBVIOUS
  <2>2. A \in SUBSET FeedRow
    BY <2>1 DEF TablesOf
  <2>3. I \in SUBSET Ids /\ k \in FeedKinds
    BY <2>1 DEF FeedKinds
  <2>4. R = A \cup {ActivityRow(k, I)}
    BY <1>3, <2>1
  <2>5. R \in SUBSET FeedRow /\ Told(A) \cup I \subseteq Told(R)
    BY <2>2, <2>3, <2>4, ToldMore
  <2> QED
    BY <2>1, <2>5
<1>11. /\ v \in TablesOf(m) /\ v.token = f /\ v.activity = R
       /\ v.collectionOwner = t.collectionOwner
       /\ v.lineageEdge = t.lineageEdge
       /\ v.escrowedCard = t.escrowedCard
  BY <1>3, <1>9, <1>10 DEF TablesOf
<1>12. f = [t.token EXCEPT ![i] = BlackRow(@)]
  BY <1>1, <1>2
<1> QED
  BY <1>1, <1>8, <1>10, <1>11, <1>12 DEF Leads

\* The cards once token i went to `to`.
CardsAfter(t, i, to) ==
    IF to = House THEN CardsWith(t.escrowedCard, i, t.token[i].denom)
    ELSE t.escrowedCard
\* The owner row once token i went to `to`.
OwnerRowAfter(row, i, to) ==
    IF row.tokenId = i + 1 THEN [row EXCEPT !.address = to] ELSE row

\* Where a Transfer leads: the row, the owner row and the house's card follow.
LEMMA TransferEffect ==
    ASSUME NEW sender, NEW m \in Nat, NEW t \in TablesOf(m),
           NEW i \in 0 .. m - 1, i \in Ids, NEW from, NEW to \in Accounts
    PROVE  Leads(sender, t, <<Transfer(from, to, i)>>, m,
                 [t.token EXCEPT ![i].owner = to],
                 OwnerRowAfter(t.collectionOwner, i, to), t.lineageEdge,
                 Told(t.activity) \cup (IF from = NoOne THEN {} ELSE {i}),
                 CardsAfter(t, i, to))
<1>1. PICK e, w, C : /\ e = Transfer(from, to, i)
                     /\ w = OwnerRowAfter(t.collectionOwner, i, to)
                     /\ C = CardsAfter(t, i, to)
  OBVIOUS
<1>2. PICK f : f = [t.token EXCEPT ![i] = [t.token[i] EXCEPT !.owner = to]]
  OBVIOUS
<1>3. PICK R : R = IF from = NoOne THEN t.activity
                   ELSE t.activity \cup {ActivityRow("transfer", {i})}
  OBVIOUS
<1>4. PICK v : v = [t EXCEPT !.token = f, !.escrowedCard = C,
                             !.collectionOwner = w, !.activity = R]
  OBVIOUS
<1>5. e.event = "Transfer" /\ e.id = i /\ e.from = from /\ e.to = to
  <2>1. e = [event |-> "Transfer", from |-> from, to |-> to, id |-> i]
    BY <1>1 DEF Transfer
  <2> QED
    BY <2>1
<1>6. t.token \in [0 .. m - 1 -> Row] /\ t.token[i] \in Row /\ to # NoOne
  BY AccountsAssumption DEF TablesOf
<1>7. ~Throws(t, e)
  BY <1>5, <1>6 DEF Throws, RowsNeeded, RowsInserted
<1>8. Handled(t, e, sender) = v
  <2>1. Handled(t, e, sender) = OnTransfer(t, e)
    BY <1>5, HandledKinds
  <2>2. OwnerRowAfterTransfer(t.collectionOwner, e) = w
    BY <1>1, <1>5 DEF OwnerRowAfterTransfer, OwnerRowAfter
  <2>3. (IF e.to = House
         THEN CardsWith(t.escrowedCard, e.id, t.token[e.id].denom)
         ELSE t.escrowedCard) = C
    BY <1>1, <1>5 DEF CardsAfter
  <2>4. (IF e.from = NoOne THEN t.activity
         ELSE t.activity \cup {ActivityRow("transfer", {e.id})}) = R
    BY <1>3, <1>5
  <2>5. PICK u : u = [t EXCEPT !.token = f]
    OBVIOUS
  <2>6. /\ u.token = f /\ u.escrowedCard = t.escrowedCard
        /\ u.collectionOwner = t.collectionOwner /\ u.activity = t.activity
        /\ [u EXCEPT !.escrowedCard = C, !.collectionOwner = w, !.activity = R] = v
    BY <1>4, <2>5 DEF TablesOf
  <2>7. OnTransfer(t, e) =
          [t EXCEPT
             !.token[e.id].owner = e.to,
             !.escrowedCard =
                 IF e.to = House
                 THEN CardsWith(t.escrowedCard, e.id, t.token[e.id].denom)
                 ELSE t.escrowedCard,
             !.collectionOwner = OwnerRowAfterTransfer(t.collectionOwner, e),
             !.activity = IF e.from = NoOne THEN t.activity
                          ELSE t.activity \cup {ActivityRow("transfer", {e.id})}]
    BY <1>5, <1>6 DEF OnTransfer, TablesOf
  <2>8. OnTransfer(t, e) = [t EXCEPT !.token[e.id].owner = e.to,
             !.escrowedCard = C, !.collectionOwner = w, !.activity = R]
    BY <2>2, <2>3, <2>4, <2>7
  <2>9. OnTransfer(t, e) = [t EXCEPT !.token[i].owner = to,
             !.escrowedCard = C, !.collectionOwner = w, !.activity = R]
    BY <1>5, <2>8
  <2>10. [t EXCEPT !.token[i].owner = to, !.escrowedCard = C,
                   !.collectionOwner = w, !.activity = R]
           = [u EXCEPT !.escrowedCard = C, !.collectionOwner = w, !.activity = R]
    BY <1>2, <2>5
  <2> QED
    BY <2>1, <2>6, <2>9, <2>10
<1>9. Yields(sender, t, <<e>>, v)
  BY <1>7, <1>8, YieldsOne
<1>10. f \in [0 .. m - 1 -> Row]
  <2>1. PICK r : r = [t.token[i] EXCEPT !.owner = to]
    OBVIOUS
  <2>2. r \in Row
    BY <1>6, <2>1, RowKept
  <2> QED
    BY <1>2, <1>6, <2>1, <2>2
<1>11. /\ R \in SUBSET FeedRow
       /\ Told(t.activity) \cup (IF from = NoOne THEN {} ELSE {i}) \subseteq Told(R)
  <2>1. PICK A, k, I : A = t.activity /\ k = "transfer" /\ I = {i}
    OBVIOUS
  <2>2. A \in SUBSET FeedRow
    BY <2>1 DEF TablesOf
  <2>3. I \in SUBSET Ids /\ k \in FeedKinds
    BY <2>1 DEF FeedKinds
  <2>4. CASE from = NoOne
    BY <1>3, <2>1, <2>2, <2>4
  <2>5. CASE from # NoOne
    <3>1. R = A \cup {ActivityRow(k, I)}
      BY <1>3, <2>1, <2>5
    <3>2. R \in SUBSET FeedRow /\ Told(A) \cup I \subseteq Told(R)
      BY <2>2, <2>3, <3>1, ToldMore
    <3> QED
      BY <2>1, <2>5, <3>2
  <2> QED
    BY <2>4, <2>5
<1>12. w \in OwnerRow
  <2>1. t.collectionOwner \in OwnerRow
    BY DEF TablesOf
  <2> QED
    BY <1>1, <2>1 DEF OwnerRowAfter, OwnerRow
<1>13. C \in SUBSET Card
  <2>1. t.escrowedCard \in SUBSET Card
    BY DEF TablesOf
  <2>2. t.token[i].denom \in Denoms
    BY <1>6 DEF Row
  <2>3. <<i, t.token[i].denom>> \in Card
    BY <2>2 DEF Card
  <2> QED
    BY <1>1, <2>1, <2>3 DEF CardsAfter, CardsWith
<1>14. /\ v \in TablesOf(m) /\ v.token = f /\ v.activity = R
       /\ v.collectionOwner = w
       /\ v.lineageEdge = t.lineageEdge
       /\ v.escrowedCard = C
  <2>1. t.lineageEdge \in Seq(Edge)
    BY DEF TablesOf
  <2>2. v = [token |-> f, collectionOwner |-> w, lineageEdge |-> t.lineageEdge,
             activity |-> R, escrowedCard |-> C]
    BY <1>4 DEF TablesOf
  <2> QED
    BY <1>10, <1>11, <1>12, <1>13, <2>1, <2>2 DEF TablesOf
<1>15. f = [t.token EXCEPT ![i].owner = to]
  BY <1>2
<1> QED
  BY <1>1, <1>9, <1>11, <1>14, <1>15 DEF Leads

\* The rows once q ids more were minted.
MintedRows(t, m, q, to, d) ==
    [i \in 0 .. m + q - 1 |-> IF i < m THEN t.token[i]
                              ELSE MintRow(to, MintedShape(i, d))]

\* Where the ShapeMinted events of a batch lead.
LEMMA MintEffect ==
    ASSUME NEW sender, NEW m \in Nat, NEW t \in TablesOf(m),
           NEW q \in Nat, 0 .. m + q - 1 \subseteq Ids,
           NEW to \in Accounts, NEW d \in Denoms,
           NEW E, E = [k \in 1 .. q |-> ShapeMinted(m + k - 1, to, d)]
    PROVE  Leads(sender, t, E, m + q, MintedRows(t, m, q, to, d),
                 t.collectionOwner, t.lineageEdge,
                 Told(t.activity) \cup (m .. m + q - 1), t.escrowedCard)
<1>1. PICK f, R, N : /\ f = MintedRows(t, m, q, to, d)
                     /\ N = m .. m + q - 1
                     /\ R = WithMinted(t.activity, N)
  OBVIOUS
<1>2. PICK v : v = [t EXCEPT !.token = f, !.activity = R]
  OBVIOUS
<1>3. Yields(sender, t, E, v)
  <2>1. v = MintedTables(t, m, q, to, d)
    BY <1>1, <1>2 DEF MintedTables, MintedRows
  <2> QED
    BY <2>1, MintLoop
<1>4. f \in [0 .. m + q - 1 -> Row]
  <2>1. ASSUME NEW i \in 0 .. m + q - 1 PROVE f[i] \in Row
    <3>1. CASE i < m
      <4>1. i \in 0 .. m - 1 /\ f[i] = t.token[i]
        BY <1>1, <3>1 DEF MintedRows
      <4> QED
        BY <4>1 DEF TablesOf
    <3>2. CASE ~(i < m)
      <4>1. f[i] = MintRow(to, MintedShape(i, d))
        BY <1>1, <3>2 DEF MintedRows
      <4>2. PICK sd, x, b : sd = <<i>> /\ x = MintArt[i] /\ b = Units[d]
        OBVIOUS
      <4>3. i \in Ids /\ i \in Nat
        OBVIOUS
      <4>4. sd \in Seeds
        BY <4>2, <4>3 DEF Seeds
      <4>5. x \in Arts
        BY <4>2, <4>3, ArtAssumption
      <4>6. b \in Nat
        BY <4>2, UnitsOfDenoms
      <4>7. MintRow(to, MintedShape(i, d)) =
              [seed |-> sd, denom |-> d, backing |-> b, origins |-> 1, depth |-> 0,
               art |-> x, black |-> FALSE, live |-> TRUE, owner |-> to,
               splitFrom |-> Null, splitOrigin |-> Null, mintDenom |-> d]
        BY <4>2 DEF MintRow, MintedShape
      <4> QED
        BY <4>1, <4>4, <4>5, <4>6, <4>7 DEF Row
    <3> QED
      BY <3>1, <3>2
  <2>2. f = [i \in 0 .. m + q - 1 |-> f[i]]
    BY <1>1 DEF MintedRows
  <2> QED
    BY <2>1, <2>2
<1>5. R \in SUBSET FeedRow /\ Told(t.activity) \cup N \subseteq Told(R)
  <2>1. PICK A : A = t.activity
    OBVIOUS
  <2>2. A \in SUBSET FeedRow
    BY <2>1 DEF TablesOf
  <2>3. N \in SUBSET Ids
    BY <1>1
  <2> QED
    BY <1>1, <2>1, <2>2, <2>3, ToldMint
<1>6. /\ v \in TablesOf(m + q) /\ v.token = f /\ v.activity = R
      /\ v.collectionOwner = t.collectionOwner
      /\ v.lineageEdge = t.lineageEdge
      /\ v.escrowedCard = t.escrowedCard
  <2>1. /\ t.collectionOwner \in OwnerRow /\ t.escrowedCard \in SUBSET Card
        /\ t.lineageEdge \in Seq(Edge)
    BY DEF TablesOf
  <2>2. v = [token |-> f, collectionOwner |-> t.collectionOwner,
             lineageEdge |-> t.lineageEdge, activity |-> R,
             escrowedCard |-> t.escrowedCard]
    BY <1>2 DEF TablesOf
  <2>3. PICK n : n = m + q
    OBVIOUS
  <2>4. f \in [0 .. n - 1 -> Row]
    BY <1>4, <2>3
  <2>5. v \in TablesOf(n)
    BY <1>5, <2>1, <2>2, <2>4 DEF TablesOf
  <2> QED
    BY <2>2, <2>3, <2>5
<1> QED
  BY <1>1, <1>3, <1>5, <1>6 DEF Leads
=============================================================================
