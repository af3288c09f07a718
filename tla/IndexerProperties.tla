------------------------- MODULE IndexerProperties -------------------------
(***************************************************************************)
(* What a reader of the indexer's tables may rely on.                      *)
(***************************************************************************)
EXTENDS Provenance, ShapesCallsProperties

\* The indexer has read all there is.
Drained == ~tx.open /\ log = <<>>

RowIsShape(row, shape) ==
    /\ row.seed = shape.seed
    /\ row.denom = shape.denom
    /\ row.origins = shape.origins
    /\ row.art = shape.art

\* The split provenance of a row is what its split record says.
RowKeepsSplit(i) ==
    LET ref == splitOriginRef[i]
    IN  IF ref.exists
        THEN /\ token[i].splitFrom = splitRecords[ref.recordIndex + 1].parentDenom
             /\ token[i].splitOrigin = splitRecords[ref.recordIndex + 1].originDenom
        ELSE token[i].splitFrom = Null /\ token[i].splitOrigin = Null

\* Once it has read the log, the indexer has a row for every id ever minted,
\* the row of a live token is the token, the row of a burned input is what the
\* record that holds it would restore, and the owner row names the owner token
\* and its holder, although Split and Decomposed name no recipient and
\* OwnerTokenMoved may come before the row it is about.
IndexerMirrorsChain ==
    Drained =>
        /\ ~stopped
        /\ DOMAIN token = 0 .. totalMinted - 1
        /\ \A i \in DOMAIN token :
              /\ token[i].live = IsLive(i)
              /\ token[i].depth = Len(composeStack[i])
              /\ RowKeepsSplit(i)
              /\ IsLive(i) => /\ RowIsShape(token[i], shapes[i])
                              /\ token[i].owner = owners[i]
                              /\ token[i].black = shapes[i].black
                              /\ token[i].backing = BackingOf(i)
              /\ \A k \in DOMAIN composeStack[i] :
                    LET rec == composeStack[i][k]
                    IN  \A b \in rec.burned : RowIsShape(token[b], rec.inputs[b])
        /\ collectionOwner.tokenId = ownerToken
        /\ collectionOwner.address =
              IF ownerToken = 0 THEN NoOne ELSE owners[ownerToken - 1]

\* The denomination token i reached by its k-th standing compose.
ReachedBy(i, k) == IF k = Len(composeStack[i]) THEN token[i].denom
                   ELSE composeStack[i][k + 1].denom

\* The merges the site draws for a token, replayed from the lineage edges, are
\* the compose records that stand on the chain, through burns, revivals, and
\* splits of the token.
MergesDrawnStand ==
    Drained => \A i \in DOMAIN token :
        StandingMerges(i) = [k \in DOMAIN composeStack[i] |->
                                [burned |-> composeStack[i][k].burned,
                                 denom |-> ReachedBy(i, k)]]

\* The feed names every Shape a transaction changed.
FeedTellsAll ==
    Drained => touched \subseteq UNION {row.ids : row \in activity}

\* Of a list of entries to the house, the first of each Shape.
FirstOf(entries) ==
    {entries[k] : k \in {k \in DOMAIN entries :
                            \A j \in 1 .. k - 1 : entries[j][1] # entries[k][1]}}

\* The cards recorded for a transaction are the Shapes that entered the house in
\* it, each once and with the denomination it first came with, although the
\* house may release one, and the card be reshaped and taken again, before the
\* transaction ends.
CardsAsFirstEntered == Drained => escrowedCard = FirstOf(entered)

\* What index.ts and ponder.schema.ts say of them: a bid lists the cards its own
\* transaction escrowed, "with the denomination they carried then", for "a
\* transaction escrows each card at most once".
BidCardsAsEntered ==
    Drained => \A k \in DOMAIN entered : entered[k] \in escrowedCard

\* What provenance.ts says it returns: "the split input for a split-born
\* token".  A token born of a split is drawn with that split's input whatever
\* edge comes first.
SplitBornShowsItsSource ==
    Drained => \A i \in DOMAIN token :
        splitOriginRef[i].exists =>
            \A first \in EdgesTo(i) :
                SplitParentFrom(first) =
                    splitRecords[splitOriginRef[i].recordIndex + 1].parentId + 1
=============================================================================
