------------------------ MODULE SiteDataProperties ------------------------
(***************************************************************************)
(* What the gallery of SiteData shows when a load ends.  A snapshot is     *)
(* loaded over several blocks and through an indexer that may be a few     *)
(* blocks behind, so it is compared with the blocks it may come from.      *)
(***************************************************************************)
EXTENDS SiteData

\* The step that puts the snapshot of load l on display.
Shows(l) == loads[l] # Idle /\ loads'[l] = Idle /\ ~refreshFailed'

\* The blocks of a load, and those its snapshot may come from.
During(l) == loads[l].from .. Now
Window(l) == {b \in 1 .. Now : b + MaxLag >= loads[l].from}

LiveIn(i, S) == \A b \in S : i \in LiveAt(b)
NeverBurned(i) == \A b \in 1 .. Now : i < blocks[b].minted => i \in LiveAt(b)

\* The gallery shows no ghost: each token a load puts on display was live and
\* its owner's, at one block the load may have read it from (loadSite,
\* whatever the paths and failures of this load and of those it builds on).
GalleryTrue ==
    [][\A l \in Loads : Shows(l) =>
          \A i \in DOMAIN data'.tokens :
             \E b \in Window(l) :
                /\ i \in LiveAt(b)
                /\ data'.tokens[i].owner = blocks[b].token[i].owner]_siteVars

\* The gallery misses nothing that was there all along: a token live in the
\* whole of the load and never burned is shown, unless a read of it failed,
\* in this load or in one it builds on (the incremental scan of
\* loadSiteFromChain, the row count of fetchIndexedTokens).
GalleryComplete ==
    [][\A l \in Loads : Shows(l) =>
          \A i \in 0 .. Latest.minted - 1 :
             LiveIn(i, Window(l)) /\ NeverBurned(i) /\ i \notin data'.lost
                => i \in DOMAIN data'.tokens]_siteVars

\* The user's own transaction shows: what a load puts on display of an id it
\* was told of is no older than the load, though the owner did not change and
\* whatever the indexer still says (dirtyIds of refresh).
OwnActionShows ==
    [][\A l \in Loads : Shows(l) =>
          \A i \in DOMAIN data'.tokens \cap loads[l].dirty :
             \E b \in During(l) :
                /\ i \in LiveAt(b)
                /\ data'.tokens[i].state = blocks[b].token[i].state]_siteVars

\* No id needs a check but those minted since the last scan and those shown:
\* a token the load was told of, live in the whole of it and read without a
\* failure, is put on display (the comment above checkIds of data.ts).
ToldIdsShow ==
    [][\A l \in Loads : Shows(l) =>
          \A i \in loads[l].dirty :
             LiveIn(i, During(l)) /\ i \notin data'.lost
                => i \in DOMAIN data'.tokens]_siteVars
=============================================================================
