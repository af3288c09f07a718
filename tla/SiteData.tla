------------------------------ MODULE SiteData ------------------------------
(***************************************************************************)
(* How the site of src/preview loads its gallery: loadSite of              *)
(* site/data.ts, called by refresh of site/SiteApp.tsx.  A load asks the   *)
(* indexer for the live tokens and rereads from the chain the ids its user *)
(* just acted on; when the indexer does not serve, it scans the chain,     *)
(* incrementally from the snapshot on display.                             *)
(*                                                                         *)
(* Every read is a request of its own, the chain moves on between them, a  *)
(* request may fail and a refresh may start while another one runs.  Reads *)
(* change nothing and the chain keeps its past, so a load is two steps,    *)
(* its start and its end: the end names the block each read was answered   *)
(* at, in the order the code awaits them.                                  *)
(***************************************************************************)
EXTENDS Naturals, Sequences, FiniteSets, Functions

CONSTANTS
    Owners,
    Loads,         \* refreshes that may run at once
    FirstOwner,    \* of the tokens the chain starts with
    FirstMinted,   \* their number
    MaxMinted,     \* bound: ids the chain mints
    MaxBlocks,     \* bound: blocks of the chain
    MaxLoads,      \* bound: refreshes
    MaxLost,       \* bound: reads of a load that fail on the way
    MaxLag         \* MAX_INDEXER_LAG_BLOCKS

ASSUME SiteAssumption ==
    /\ FirstOwner \in Owners
    /\ FirstMinted \in 1 .. MaxMinted
    /\ {MaxMinted, MaxBlocks, MaxLoads, MaxLost, MaxLag} \subseteq Nat

VARIABLES
    blocks,     \* the chain: what it holds after each block
    data,       \* the snapshot on display
    lastDirty,  \* lastDirtyIds: what the next load is told of
    loads,      \* the refreshes that run
    refreshFailed,
    started     \* the number of refreshes so far

siteVars == <<data, lastDirty, loads, refreshFailed, started>>

-----------------------------------------------------------------------------
(* The chain, one operation in a block.  A token's state is the block that *)
(* last changed anything but its owner.                                    *)

Now == Len(blocks)
Latest == blocks[Now]
LiveAt(b) == DOMAIN blocks[b].token

Block(minted, token, under, touched) ==
    [minted |-> minted, token |-> token, under |-> under, touched |-> touched]

Token(w) == [owner |-> w, state |-> Now + 1]
Without(f, S) == [i \in DOMAIN f \ S |-> f[i]]
Over(f, g) == [i \in DOMAIN f \cup DOMAIN g |->
                  IF i \in DOMAIN f THEN f[i] ELSE g[i]]

Extend(minted, token, under, touched) ==
    /\ Now < MaxBlocks
    /\ blocks' = Append(blocks, Block(minted, token, under, touched))
    /\ UNCHANGED siteVars

NewTokens(n, w) ==
    [i \in Latest.minted .. Latest.minted + n - 1 |-> Token(w)]

MintBlock(w) ==
    /\ Latest.minted < MaxMinted
    /\ Extend(Latest.minted + 1, Over(NewTokens(1, w), Latest.token),
              Latest.under, {Latest.minted})

TransferBlock(i, w) ==
    /\ w # Latest.token[i].owner
    /\ Extend(Latest.minted, [Latest.token EXCEPT ![i].owner = w],
              Latest.under, {i})

BurnBackingBlock(i) ==
    Extend(Latest.minted,
           [Latest.token EXCEPT ![i] = Token(Latest.token[i].owner)],
           Latest.under, {i})

RedeemBlock(i) ==
    Extend(Latest.minted, Without(Latest.token, {i}), Latest.under, {i})

\* The absorbed ids remember their survivor, and when.
ComposeBlock(i, K) ==
    LET w == Latest.token[i].owner
    IN  /\ K # {}
        /\ \A k \in K : Latest.token[k].owner = w
        /\ Extend(Latest.minted, [Without(Latest.token, K) EXCEPT ![i] = Token(w)],
                  Over([k \in K |-> <<i, Now + 1>>], Latest.under), K \cup {i})

LastAbsorbed(i) ==
    LET under == Latest.under
        in == {k \in DOMAIN under : under[k][1] = i}
    IN  {k \in in : \A j \in in : under[j][2] <= under[k][2]}

DecomposeBlock(i) ==
    LET restored == LastAbsorbed(i)
    IN  /\ restored # {}
        /\ Extend(Latest.minted,
                  Over([k \in restored \cup {i} |-> Token(Latest.token[i].owner)],
                       Latest.token),
                  Without(Latest.under, restored), restored \cup {i})

SplitBlock(i) ==
    /\ Latest.minted + 2 <= MaxMinted
    /\ Extend(Latest.minted + 2,
              Over(NewTokens(2, Latest.token[i].owner), Without(Latest.token, {i})),
              Latest.under, {i, Latest.minted, Latest.minted + 1})

ChainStep ==
    \/ \E w \in Owners : MintBlock(w)
    \/ \E i \in LiveAt(Now) :
          \/ \E w \in Owners : TransferBlock(i, w)
          \/ BurnBackingBlock(i)
          \/ RedeemBlock(i)
          \/ \E K \in SUBSET (LiveAt(Now) \ {i}) : ComposeBlock(i, K)
          \/ DecomposeBlock(i)
          \/ SplitBlock(i)

-----------------------------------------------------------------------------
(* refresh.                                                                *)

Snapshot(tokens, scannedMinted, genesisRead, lost) ==
    [tokens |-> tokens, scannedMinted |-> scannedMinted,
     genesisRead |-> genesisRead, lost |-> lost]

\* A load with no previous snapshot is one from an unread genesis.
NoData == Snapshot(<<>>, 0, FALSE, {})

Idle == [from |-> 0]

SiteInit ==
    /\ blocks = << Block(FirstMinted,
                         [i \in 0 .. FirstMinted - 1 |->
                             [owner |-> FirstOwner, state |-> 1]],
                         <<>>, {}) >>
    /\ data = NoData
    /\ lastDirty = {}
    /\ loads = [l \in Loads |-> Idle]
    /\ started = 0
    /\ refreshFailed = FALSE

StartLoad(l, dirty) ==
    /\ loads[l] = Idle
    /\ started < MaxLoads
    /\ started' = started + 1
    /\ lastDirty' = dirty
    /\ loads' = [loads EXCEPT ![l] =
                    [from |-> Now, dirty |-> dirty, prev |-> data]]
    /\ UNCHANGED <<blocks, data, refreshFailed>>

\* The mount effect and the retry.
Refresh(l) == StartLoad(l, lastDirty)

\* After a transaction of the user's: the ids it touched.
RefreshAfter(l, b) == StartLoad(l, blocks[b].touched)

Finish(l, snapshot) ==
    /\ data' = snapshot
    /\ lastDirty' = {}
    /\ loads' = [loads EXCEPT ![l] = Idle]
    /\ refreshFailed' = FALSE
    /\ UNCHANGED <<blocks, started>>

\* A read that the chain's path does not catch fails; data stays as it is.
LoadFails(l) ==
    /\ loads[l] # Idle
    /\ loads' = [loads EXCEPT ![l] = Idle]
    /\ refreshFailed' = TRUE
    /\ UNCHANGED <<blocks, data, lastDirty, started>>

\* The reads of ids sent at block b, each answered then or later.  Only the
\* blocks that touched an id answer differently from the one before.
Reads(ids, b) ==
    {at \in [ids -> b .. Now] :
        \A i \in ids : at[i] = b \/ i \in blocks[at[i]].touched}

\* The ids reads find live: an id burned by then is left out, and so is one
\* whose read failed on the way, which is not in the domain of at.
Found(at) == {i \in DOMAIN at : i \in LiveAt(at[i])}
ReadAt(ids, at) == [i \in ids |-> blocks[at[i]].token[i]]

\* The reads that may fail.
Failing(ids) == {lost \in SUBSET ids : Cardinality(lost) <= MaxLost}

-----------------------------------------------------------------------------
(* The indexer's path.                                                     *)

\* Fault: a checkpoint is good as long as it is not ahead of the head.
FreshCheckpointNotAhead(b, head) == b <= head

\* requireFreshCheckpoint
FreshCheckpoint(b, head) == b <= head /\ head - b <= MaxLag

CountMatches(b, supplyAt) ==
    Cardinality(LiveAt(b)) = Cardinality(LiveAt(supplyAt))

\* The indexer answers for block b; the head is that of block head, the
\* totalSupply that of block supplyAt; the dirty ids are read last, those of
\* lost in vain.  The owner of a dirty id and its fields are separate reads,
\* which may be answered at different blocks; here an id is read at one.
LoadFromIndexer(l, b, head, supplyAt) ==
    LET dirty == loads[l].dirty
        answered == CHOOSE x \in {head, supplyAt} : x >= head /\ x >= supplyAt
    IN  /\ CountMatches(b, supplyAt)
        /\ FreshCheckpoint(b, head)
        /\ \E lost \in Failing(dirty) :
           \E at \in Reads(dirty \ lost, answered) :
              Finish(l, Snapshot(Over(ReadAt(Found(at), at),
                                      Without(blocks[b].token, dirty)),
                                 0, FALSE, lost))

-----------------------------------------------------------------------------
(* The chain's path, of a load that read totalMinted at block m.           *)

ResetDetected(prev, minted) ==
    minted < prev.scannedMinted \/ ~prev.genesisRead

EffectivePrevious(l, m) ==
    IF ResetDetected(loads[l].prev, blocks[m].minted) THEN NoData
    ELSE loads[l].prev

CheckIds(l, m) ==
    LET prev == EffectivePrevious(l, m)
    IN  (prev.scannedMinted .. blocks[m].minted - 1) \cup DOMAIN prev.tokens

\* Fault: a live id is reread only when its owner changed.
NeedsFieldsMoved(prev, live, dirty) ==
    {i \in DOMAIN live :
        i \notin DOMAIN prev.tokens \/ prev.tokens[i].owner # live[i].owner}

NeedsFields(prev, live, dirty) ==
    {i \in DOMAIN live : \/ i \notin DOMAIN prev.tokens
                         \/ i \in dirty
                         \/ prev.tokens[i].owner # live[i].owner}

\* Fault: the boundary of the scan is what the chain has minted by its end.
ScannedMintedLate(m) == Latest.minted

ScannedMinted(m) == blocks[m].minted

Refreshed(prev, live, reread, fieldsAt) ==
    [i \in DOMAIN live |->
        [owner |-> live[i].owner,
         state |-> IF i \in reread THEN blocks[fieldsAt[i]].token[i].state
                   ELSE prev.tokens[i].state]]

\* Every owner is read after m and before any of the fields.  A token burned
\* in between fails the load: every read of fields here finds its token, and
\* LoadFails covers the rest.
LoadFromChain(l, m) ==
    LET prev == EffectivePrevious(l, m)
        checkIds == CheckIds(l, m)
    IN  \E lost \in Failing(checkIds) :
           \E ownerAt \in Reads(checkIds \ lost, m) :
              LET live == ReadAt(Found(ownerAt), ownerAt)
                  reread == NeedsFields(prev, live, loads[l].dirty)
                  answered == CHOOSE x \in m .. Now :
                                 /\ \A i \in DOMAIN ownerAt : x >= ownerAt[i]
                                 /\ x \in {m} \cup Range(ownerAt)
              IN  \E fieldsAt \in Reads(reread, answered) :
                     /\ Found(fieldsAt) = reread
                     /\ Finish(l, Snapshot(
                                     Refreshed(prev, live, reread, fieldsAt),
                                     ScannedMinted(m), TRUE,
                                     (prev.lost \ checkIds) \cup lost))

-----------------------------------------------------------------------------

LoadStep(l) ==
    \/ Refresh(l)
    \/ \E b \in 1 .. Now : RefreshAfter(l, b)
    \/ /\ loads[l] # Idle
       /\ LET during == loads[l].from .. Now
          IN  \/ \E b \in 1 .. Now : \E head, supplyAt \in during :
                    LoadFromIndexer(l, b, head, supplyAt)
              \/ \E m \in during : LoadFromChain(l, m)
    \/ LoadFails(l)

SiteNext == ChainStep \/ \E l \in Loads : LoadStep(l)

SiteSpec == SiteInit /\ [][SiteNext]_<<blocks, siteVars>>
=============================================================================
