------------------------------ MODULE Indexer ------------------------------
(***************************************************************************)
(* The indexer of src/indexer: one handler per event of Shapes, each       *)
(* reading the event, its transaction's sender and the tables, never the   *)
(* chain.  It follows the calls of ShapesCalls, and is what the site shows.*)
(*                                                                         *)
(* Rows of the feed and of the escrowed cards carry the hash of their      *)
(* transaction, so no handler of a later one touches them: only those of   *)
(* the newest transaction are kept.  A handler that inserts a row that     *)
(* exists or updates one that does not throws, which stops the indexer.    *)
(***************************************************************************)
EXTENDS ShapesCalls

VARIABLES
    tables,     \* the tables, as a record
    stopped,    \* a handler threw
    touched,    \* history: the ids the newest transaction changed
    entered     \* history: what it moved to the house, in order, as <<id, denom>>

indexerVars == <<tables, stopped, touched, entered>>

token == tables.token                      \* a row for each id ever seen
collectionOwner == tables.collectionOwner  \* its one row
lineageEdge == tables.lineageEdge          \* in log order, an entry per event
activity == tables.activity                \* rows of the newest transaction
escrowedCard == tables.escrowedCard        \* rows of the newest transaction

-----------------------------------------------------------------------------
(* Rows.                                                                   *)

Null == -1

MintRow(to, shape) ==
    [seed |-> shape.seed, denom |-> shape.denom, backing |-> Units[shape.denom],
     origins |-> shape.origins, depth |-> 0, art |-> shape.art, black |-> FALSE,
     live |-> TRUE, owner |-> to, splitFrom |-> Null, splitOrigin |-> Null,
     mintDenom |-> shape.denom]

ActivityRow(kind, ids) == [kind |-> kind, ids |-> ids]

Edges(kind, parent, children, parentDenom) ==
    [kind |-> kind, parent |-> parent, children |-> children,
     parentDenom |-> parentDenom]

IndexerInit ==
    /\ tables = [token |-> [i \in 0 .. Len(Dealt) - 1 |->
                               MintRow(Deployer, Fresh(i))],
                 collectionOwner |-> [tokenId |-> 1, address |-> Deployer],
                 lineageEdge |-> <<>>,
                 activity |-> {},
                 escrowedCard |-> {}]
    /\ stopped = FALSE
    /\ touched = {}
    /\ entered = <<>>

-----------------------------------------------------------------------------
(* The handlers: what the tables t are once event e is handled, which is   *)
(* of a transaction of `sender`.                                           *)

\* Fault: a transaction's second mint does not join its row.
FoldMintOnce(rows, i) ==
    IF \E row \in rows : row.kind = "mint" THEN rows
    ELSE rows \cup {ActivityRow("mint", {i})}

\* One row per transaction, however many Shapes it minted.
FoldMint(rows, i) ==
    LET mints == {row \in rows : row.kind = "mint"}
    IN  (rows \ mints)
        \cup {ActivityRow("mint", {i} \cup UNION {row.ids : row \in mints})}

OnShapeMinted(t, e) ==
    [t EXCEPT !.token = [i \in DOMAIN t.token \cup {e.id} |->
                            IF i = e.id THEN MintRow(e.to, e.shape) ELSE t.token[i]],
              !.activity = FoldMint(@, e.id)]

\* InkGene and ModulesSampled
OnArtSet(t, e) == [t EXCEPT !.token[e.id].art = e.art]

OnComposed(t, e) ==
    [t EXCEPT
        !.token = [i \in DOMAIN t.token |->
                      IF i = e.id
                      THEN [t.token[i] EXCEPT !.denom = e.denom,
                                        !.backing = Units[e.denom],
                                        !.origins = e.origins,
                                        !.depth = @ + 1]
                      ELSE IF i \in e.burned THEN [t.token[i] EXCEPT !.live = FALSE]
                      ELSE t.token[i]],
        !.lineageEdge = Append(@, Edges("continuation", e.id, e.burned, e.denom)),
        !.activity = @ \cup {ActivityRow("compose", {e.id} \cup e.burned)}]

\* splitOriginDenom ?? denomIndex
RowOriginDenom(parent) ==
    IF parent.splitOrigin = Null THEN parent.denom ELSE parent.splitOrigin

SplitRow(parent, e, k, sender) ==
    [seed |-> Append(parent.seed, k - 1), denom |-> e.out[k],
     backing |-> Units[e.out[k]], origins |-> e.origins[k], depth |-> 0,
     art |-> BlankArt, black |-> FALSE, live |-> TRUE, owner |-> sender,
     splitFrom |-> parent.denom, splitOrigin |-> RowOriginDenom(parent),
     mintDenom |-> e.out[k]]

NewIds(e) == e.first .. e.first + Len(e.out) - 1

\* The children are credited to the sender until their Transfer is read.
OnSplit(t, e, sender) ==
    [t EXCEPT
        !.token = [i \in DOMAIN t.token \cup NewIds(e) |->
                      IF i \in NewIds(e)
                      THEN SplitRow(t.token[e.id], e, i - e.first + 1, sender)
                      ELSE IF i = e.id THEN [t.token[i] EXCEPT !.live = FALSE]
                      ELSE t.token[i]],
        !.lineageEdge = Append(@, Edges("split", e.id, NewIds(e),
                                        t.token[e.id].denom)),
        !.activity = @ \cup {ActivityRow("split", {e.id} \cup NewIds(e))}]

\* The rows of the restored ids still carry what they were burned with.
OnDecomposed(t, e, sender) ==
    [t EXCEPT
        !.token = [i \in DOMAIN t.token |->
                      IF i = e.id
                      THEN [t.token[i] EXCEPT !.denom = e.denom,
                                        !.backing = Units[e.denom],
                                        !.origins = e.origins,
                                        !.depth = @ - 1]
                      ELSE IF i \in e.restored
                      THEN [t.token[i] EXCEPT !.live = TRUE, !.owner = sender]
                      ELSE t.token[i]],
        !.lineageEdge = Append(@, Edges("revival", e.id, e.restored, e.denom)),
        !.activity = @ \cup {ActivityRow("decompose", {e.id} \cup e.restored)}]

OnBlackShapeCreated(t, e) ==
    [t EXCEPT !.token[e.id].black = TRUE,
              !.token[e.id].backing = 0,
              !.activity = @ \cup {ActivityRow("burnBacking", {e.id})}]

OnShapeRedeemed(t, e) ==
    [t EXCEPT !.token[e.id].live = FALSE,
              !.activity = @ \cup {ActivityRow("redeem", {e.id})}]

\* The address is read from the token's row, which may not exist yet.
OnOwnerTokenMoved(t, e) ==
    [t EXCEPT
        !.collectionOwner =
            [tokenId |-> e.to,
             address |-> IF e.to - 1 \in DOMAIN t.token
                         THEN t.token[e.to - 1].owner ELSE NoOne],
        !.activity = @ \cup {ActivityRow("ownerTokenMoved",
                                         {e.from - 1, e.to - 1} \cap Ids)}]

\* Fault: the owner row keeps the address it had.
OwnerRowUntouched(row, e) == row

\* The address of the owner row follows a transfer of the owner token.
OwnerRowAfterTransfer(row, e) ==
    IF row.tokenId = e.id + 1 THEN [row EXCEPT !.address = e.to] ELSE row

\* Fault: the card's row is overwritten when the card enters again.
CardsOverwritten(cards, i, d) ==
    {card \in cards : card[1] # i} \cup {<<i, d>>}

\* A row's key is the transaction and the token: the first insert stays.
CardsWith(cards, i, d) ==
    IF \A card \in cards : card[1] # i THEN cards \cup {<<i, d>>} ELSE cards

\* Nothing to do for a burn, which comes with an event of its own.
OnTransfer(t, e) ==
    IF e.to = NoOne THEN t
    ELSE [t EXCEPT
             !.token[e.id].owner = e.to,
             !.escrowedCard = IF e.to = House
                              THEN CardsWith(@, e.id, t.token[e.id].denom)
                              ELSE @,
             !.collectionOwner = OwnerRowAfterTransfer(@, e),
             !.activity = IF e.from = NoOne THEN @
                          ELSE @ \cup {ActivityRow("transfer", {e.id})}]

\* The rows a handler updates or reads and must find, and those it inserts.
RowsNeeded(e) ==
    CASE e.event = "Composed" -> {e.id} \cup e.burned
      [] e.event = "Decomposed" -> {e.id} \cup e.restored
      [] e.event = "Transfer" -> IF e.to = NoOne THEN {} ELSE {e.id}
      [] e.event \in {"ShapeMinted", "OwnerTokenMoved"} -> {}
      [] OTHER -> {e.id}
RowsInserted(e) ==
    CASE e.event = "ShapeMinted" -> {e.id}
      [] e.event = "Split" -> NewIds(e)
      [] OTHER -> {}
Throws(t, e) == \/ ~(RowsNeeded(e) \subseteq DOMAIN t.token)
                \/ RowsInserted(e) \cap DOMAIN t.token # {}

Handled(t, e, sender) ==
    CASE e.event = "ShapeMinted" -> OnShapeMinted(t, e)
      [] e.event = "ArtSet" -> OnArtSet(t, e)
      [] e.event = "Composed" -> OnComposed(t, e)
      [] e.event = "Split" -> OnSplit(t, e, sender)
      [] e.event = "Decomposed" -> OnDecomposed(t, e, sender)
      [] e.event = "BlackShapeCreated" -> OnBlackShapeCreated(t, e)
      [] e.event = "ShapeRedeemed" -> OnShapeRedeemed(t, e)
      [] e.event = "OwnerTokenMoved" -> OnOwnerTokenMoved(t, e)
      [] e.event = "Transfer" -> OnTransfer(t, e)

-----------------------------------------------------------------------------
(* The composition.  The next transaction waits for the indexer: a handler *)
(* reads nothing the chain changes meanwhile.                              *)

\* The indexer takes the next event of a committed transaction.
HandleEvent ==
    /\ ~tx.open
    /\ log # <<>>
    /\ ~stopped
    /\ IF Throws(tables, Head(log))
       THEN stopped' = TRUE /\ UNCHANGED <<tables, log>>
       ELSE /\ tables' = Handled(tables, Head(log), tx.from)
            /\ log' = Tail(log)
            /\ UNCHANGED stopped
    /\ UNCHANGED <<vars, call, tx, calls, touched, entered>>

\* The tokens a step of the chain moves to the house.
Arrived == {i \in Ids : owners[i] # House /\ owners'[i] = House}

\* What a step of the chain adds to the history of its transaction.
Witnessed ==
    /\ touched' = touched \cup {i \in Ids : \/ owners'[i] # owners[i]
                                            \/ shapes'[i] # shapes[i]}
    /\ entered' = entered \o Each(Arrived, LAMBDA i : <<i, shapes'[i].denom>>)

\* A transaction opens: the rows and the history of the last one are let go.
ChainStep ==
    /\ CallStep
    /\ IF tx'.open /\ ~tx.open
       THEN /\ touched' = {}
            /\ entered' = <<>>
            /\ tables' = [tables EXCEPT !.activity = {}, !.escrowedCard = {}]
       ELSE Witnessed /\ UNCHANGED tables
    /\ UNCHANGED stopped

IndexedInit == CallsInit /\ IndexerInit
IndexedNext == ChainStep \/ HandleEvent
IndexedSpec == IndexedInit /\ [][IndexedNext]_<<vars, callVars, indexerVars>>

=============================================================================
