----------------------------- MODULE Provenance -----------------------------
(***************************************************************************)
(* The ancestry the site draws for a token, read from the lineage edges of *)
(* the indexer (src/preview/src/site/provenance.ts).                       *)
(***************************************************************************)
EXTENDS Indexer

\* Fault: a revival is read as one more merge.
ReplayPushingAll(merges, op) ==
    Append(merges, [burned |-> op.children, denom |-> op.parentDenom])

\* standingMerges of provenance.ts: a compose pushes, a decompose pops, and
\* pop of an empty array leaves it empty.
Replay(merges, op) ==
    IF op.kind = "continuation"
    THEN Append(merges, [burned |-> op.children, denom |-> op.parentDenom])
    ELSE IF merges = <<>> THEN merges
    ELSE Front(merges)

\* The merges replayed from the compose and decompose edges of i, in log order.
\* All of them: loadProvenance asks for at most EDGE_LIMIT = 1000 edges of a
\* level, in no order, and an id with more may be replayed from a part of them.
MergesFrom(edges, i) ==
    LET upTo[n \in 0 .. Len(edges)] ==
            IF n = 0 THEN <<>>
            ELSE IF edges[n].parent = i /\ edges[n].kind # "split"
                 THEN Replay(upTo[n - 1], edges[n])
                 ELSE upTo[n - 1]
    IN  upTo[Len(edges)]

StandingMerges(i) == MergesFrom(lineageEdge, i)

\* births of loadProvenance: the first edge the query returns with the token
\* as its child, in no order of its own; none for a token minted and unburned.
EdgesTo(i) == {k \in DOMAIN lineageEdge : i \in lineageEdge[k].children}
SplitParentFrom(k) ==
    IF lineageEdge[k].kind = "split" THEN lineageEdge[k].parent + 1 ELSE 0
=============================================================================
