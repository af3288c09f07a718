# Shapes: a TLA+ verification of the contracts, the indexer and the gallery

Shapes is an ERC-721 on Ethereum whose tokens are backed by ETH. A token carries one of a
ladder of denominations, can always be burned for its backing, and can be reshaped: several
tokens *compose* into one, a composed token *decomposes* into what it was made of, and a token
*splits* into smaller ones. An auction house sells other tokens against bids made of Shapes, an
indexer follows the events, and a site shows the result. This directory holds TLA+ modules that
model the contracts, the indexer and the site's loading of its gallery, TLC configurations that
check them on small instances, and proofs, checked by TLAPS, of what must hold for every ladder,
every set of accounts and every number of tokens, cards, bidders and auctions.

All paths below are relative to the root of the repository (`src/Shapes.sol`, `SPEC.md`, ...);
`PROJECT.json` gives, for each definition, the lines of code it stands for.

- [1. The system](#1-the-system)
- [2. The modules](#2-the-modules)
- [3. How the model corresponds to the code](#3-how-the-model-corresponds-to-the-code)
- [4. What is checked](#4-what-is-checked)
- [5. What is proved](#5-what-is-proved)
- [6. Disagreements between code and documentation](#6-disagreements-between-code-and-documentation)
- [7. What is not modelled](#7-what-is-not-modelled)
- [8. Plan](#8-plan)

## 1. The system

### Components

**Shapes** (`src/Shapes.sol`) is the token and the treasury. State: the ERC-721 owners and
approvals; per token its seed, denomination index, origin count, Black flag, ink gene and
modules; `totalSupply` (live tokens), `totalMinted` (the id counter); the reserve
`redeemableBacking`, the historical `burnedBacking`, `blackShapeCount`; the fee, its recipient
and what each past or present recipient is owed; the admin; `_ownerToken`, the token whose
holder is the collection's `owner()`. Operations: `mint*`, `redeem*`, `burn`, `burnBacking`,
`compose*`, `decompose*`, `split*`, `withdrawFees`, the ERC-721 transfers and approvals, and the
admin setters. It is right when the reserve is exactly what the live tokens redeem for, every
holder can leave at any time, origins are neither created nor lost, and ownership follows the
owner token.

**RecompositionOps** (`src/lib/RecompositionOps.sol`, with `src/lib/ShapeMath.sol`) holds the
bodies of compose, decompose and split, run by delegatecall on the storage of Shapes. State: a
stack of compose records per survivor, one split record per split, a reference into them per
split child. A record keeps the state of the survivor and of every burned input, so that
decompose re-mints the inputs *under their old ids* and writes the survivor back. It is right
when a record, however old and however deeply nested in other records, still undoes exactly what
was composed and the ids it holds are free.

**AdminOps** (`src/lib/AdminOps.sol`) validates and writes the admin's settings by delegatecall:
fee, fee recipient, renderer and collection until `lockPresentation`, two pointers each with a
one-way lock, one artist attestation. It is right when locks never open and locked values never
change.

**ShapeAuctionHouse** on **ShapeCardEscrow** (`src/ShapeAuctionHouse.sol`,
`src/ShapeCardEscrow.sol`) runs English auctions of arbitrary ERC-721 lots bid in Shapes. State:
per auction seller, lot, clock, highest bid and bidder, `settled`, `lotClaimed`; per auction and
bidder the escrowed cards and their units; the reverse index from lot to auction; the `_minting`
window in which the escrow accepts a token. Operations: `createAuction`, `setStartTime`,
`cancelAuction`, `bid` (cards, or ETH turned into freshly minted cards), `settle`, `claimLot`,
`claimProceeds`, `withdraw`. It calls Shapes to value, transfer and mint cards. It is right when
each card in custody belongs to exactly one bidder's entry, a bid always exceeds the standing one
by the increment, and every party can pull its own in any order once it is due.

**Indexer** (`indexer/src/index.ts`, a Ponder application) has one handler per event of Shapes
and of the auction house. State: the tables of `ponder.schema.ts`, among them one row per token,
the collection's owner, the lineage edges, the activity feed and the cards each transaction moved
into the house. A handler sees one event, its transaction and the tables, never the chain, so it
must reconstruct what the events leave out (the recipient of a split or a decompose, the shape of
a revived input, whose token the owner token is). It is right when, once the log is read, every
row is what the chain says.

**Site** (`preview/src/site`): `loadSite` (`data.ts`), called by `refresh` of `SiteApp.tsx`, loads
the gallery from the indexer, or from the chain when the indexer is behind, wrong in number or
down; a scan of the chain builds on the snapshot on display. `loadProvenance` (`provenance.ts`)
draws a token's ancestry from the lineage edges. State: the snapshot, the ids the last
transaction of the user touched, the refreshes in flight. It is right when the gallery shows no
ghost and misses nothing, and the merges drawn are those that stand.

**ShapeCollection** keeps the metadata text behind the presentation lock; **ShapeRenderer** and
the geometry libraries (`GeometrySampling`, `ModuleCodec`, `GrammarV1Modules`, `ComposeCompute`,
`InkGenes`, ...) are pure functions from a token's state to art; **CopyValidation** and
**EIP712Signature** are pure checks. The other views of the previews and the web site draw what
they are given; the deployment scripts and the fuzzing harnesses keep no state of the system.

### Interaction

Every state-changing entrypoint of Shapes except the ERC-721 transfers and approvals and the
admin setters is `nonReentrant`. External code runs inside a transaction in three places: the
receiver hook of `_safeMint` (mint, decompose, split), the ETH payment of redemption,
`burnBacking` and `withdrawFees`, and the auction house's calls into a lot's collection. A
reverted call undoes all its writes. Between transactions anyone may act in any order, so the
behaviours that matter are long sequences of individually legal transactions by different
holders.

The indexer consumes the logs of committed transactions in order. The site reads the indexer and
the chain by separate requests, each answered at a block of its own; the chain moves on between
two of them, any of them may fail, and a refresh may start while another one is in flight.

### What is hard here

- Ids die and come back. compose burns a token; decompose, perhaps after many other operations
  and several transfers, mints the same id again. Everything keyed by an id (approvals, stacks,
  split references, the owner token) must make sense on its return.
- Records nest. A survivor may itself be burned into another survivor and keeps its stack while
  it is dead; the record of the outer compose must fit the inner stack when it is revived.
- Records outlive their subject. split and redemption leave the compose stack of the burned
  token in storage.
- One ETH balance serves three purposes: reserve, fees owed, and whatever was forced in.
- Checked arithmetic turns any drift of a counter into a revert: the failure mode is a holder who
  can never leave, not a wrong payment.
- Ownership of the collection rides on a token through compose, split and decompose and must end
  for good when that token is redeemed.
- A receiver is called once per minted token, when some of a call's tokens exist and others do
  not and, in a decompose, the owner token has still to move.
- A bid is cards the bidder can reshape until they are pulled, or ETH that becomes cards inside
  the bid; the lot's collection is arbitrary code; a deadline moves under a bid in flight.
- Events do not say everything: handlers credit provisional owners and rely on what a burned
  row still holds.
- A snapshot of the gallery is assembled from requests answered at different blocks and from the
  snapshot before it.

`PROJECT.json` lists these at their lines under `hazards`, with the properties that would catch
each going wrong.

## 2. The modules

| module | contents |
| --- | --- |
| `Sums` | finite sums over sets, defined without recursion |
| `SumLemmas` | the laws of those sums, induction over sets of naturals, and greedy filling, proved |
| `Shapes` | the state machine of Shapes and RecompositionOps: one action per entrypoint |
| `ShapesProperties` | type invariant, safety invariants, action properties, the inductive invariant |
| `DistinctInputs` | the merge sort by which compose finds a repeated input, and what it must find |
| `MCShapes` | ladders and arts for TLC; five configurations `MCShapes_*.cfg` |
| `ShapesProofs` | types; the structural invariant and what follows from it; authority, approvals and fees; reserve, origins and records are exact; exits, undo and splits never blocked |
| `ShapesProvenance` | seeds, split references and art stay true through every reshaping |
| `ShapesCalls` | the same entrypoints cut at their callbacks, inside transactions that log events |
| `ShapesCallsProperties` | a call is one step of `Shapes`; what a callback sees of the owner token |
| `ShapesCallsProofs` | a call, callbacks included, is one step of `Shapes`, proved |
| `Indexer` | the handlers of the indexer, composed with `ShapesCalls` |
| `Provenance` | the ancestry the site replays from the lineage edges |
| `IndexerProperties` | the tables, the ancestry and the feed against the chain |
| `IndexerEffects` | where the events of each operation lead the tables, in loops of any length, proved |
| `IndexerProofs` | the tables, the ancestry and the feed say what the chain does, proved |
| `MCIndexer` | the instance of calls and indexer for TLC |
| `EnglishAuction` | the abstract specification: stakes, a leader, what is owed; and its promises |
| `AuctionHouse` | ShapeAuctionHouse and ShapeCardEscrow: one action per entrypoint |
| `AuctionHouseProperties` | custody, valuation, price and deadline; the refinement of `EnglishAuction` |
| `MCAuctionHouse` | instances of the auction house for TLC |
| `AuctionHouseProofs` | its invariants, action properties, valuation and refinement, proved |
| `SiteData` | the chain by blocks and the gallery's loads, served by the indexer or by a scan |
| `SiteDataProperties` | what the gallery shows when a load ends |
| `SiteDataProofs` | what the gallery shows, proved for any chain and any loads |
| `MCSiteData` | instances of the gallery for TLC |

The modules build on each other as follows: `ShapesCalls` EXTENDS `Shapes` and implements it;
`Indexer` EXTENDS `ShapesCalls` and reads its log; `AuctionHouse` implements `EnglishAuction` and
models Shapes, its environment, by what it relies on (who owns a card, what it backs, which ids
come next); `SiteData` models the chain by blocks of token owners and states, and the indexer by
the block it answers for.

The component modules contain, besides the specification, operators whose comment begins with
`Fault:`. Each is a deliberately wrong variant of the definition that follows it (a dropped guard,
a missing reset, an off-by-one). The specification never uses them. Substituting one for its
definition must make TLC find a violation of the property `PROJECT.json` pairs it with; this is how
the properties are known to be able to fail.

## 3. How the model corresponds to the code

### Shapes and RecompositionOps: `Shapes`

**A transaction is a step.** The reentrancy guard keeps guarded entrypoints from interleaving,
and a revert restores everything, so a call that succeeds is one step and a call that reverts is
no step. A guard of an action is therefore every `require`, custom error, checked subtraction and
failed payment on its path. What a *receiver callback* may do in the middle is the
subject of `ShapesCalls`, which justifies this: there the property `CallsAreAtomic` says that each
call, callbacks included, amounts to one step of this module.

**Amounts** are in units of the smallest denomination. The ladder is the constant `Units`, any
strictly increasing function on `0 .. Apex` with `Units[0] = 1`; `ladders/mainnet/Ladder.sol` and
`ladders/testnet/Ladder.sol` are two values of it. The mint fee is a number of the same units.

**Lists of burned ids are sets**, since `requireDistinctComposeInputs` and ERC-721's `_burn`
reject repetition. The order of a compose's inputs matters to nothing modelled here but the
art, which is abstract.

**Seeds** are sequences: the id of the mint that drew the seed, then the child index of each
split since. This treats keccak256 of distinct preimages as distinct, which is what the code
relies on. **Art** (ink gene and module bytes) is a member of `Arts`, and `MintArt`,
`ComposeArt` and `SplitArt` are arbitrary functions of the donors' arts, the new denomination
and, for a split, the child's index (an art may tell the seed it goes with): the theorems
hold whatever the samplers return.

**`splitOriginRef`, `composeStack` and `splitRecords` persist** when their token dies, as in the
code; `shapes` is reset to `Blank` where the code deletes it, and only there.

| action | code |
| --- | --- |
| `MintBatch` | `mint`, `mintTo`, `mintBatch`, `mintBatchTo` |
| `WithdrawFees` | `withdrawFees` |
| `Redeem`, `Burn`, `RedeemBatch` | `redeem*`, `burn`, through `_burnForRedemption` and `_sendEth` |
| `BurnBacking` | `burnBacking` |
| `Compose` | `compose`, `_compose` and `RecompositionOps.compose` |
| `Decompose` | `decompose`, `decomposeTo` and `RecompositionOps.decompose` |
| `Split` | `split`, `splitTo`, `RecompositionOps.split`, `ShapeMath.allocateSplitOrigins` |
| `TransferFrom`, `Approve`, `SetApprovalForAll` | the ERC-721 entrypoints |
| `TransferAdmin`, `RenounceAdmin`, `SetFeeRecipient`, `SetMintFee` | the admin entrypoints |
| `OpenMint` | block time passes the immutable `mintStart` |
| `ForceEth` | ETH that arrives without a call (`selfdestruct`, a block reward) |

Three history variables record what no storage slot does: ETH forced in, the number of
`ShapeMinted` events, and the origins of redeemed tokens.

**Bounds.** `MaxMinted` caps the ids ever issued and `MaxForced` the ETH forced in; when
`Candidates` is empty the admin does nothing. All three are constants, and the theorems hold for
every value of them, so the cap limits how long a checked or proved behaviour is but not its
shape.

`DistinctInputs` is `requireDistinctComposeInputs` by itself: the passes of doubling width, the
merge of two neighbouring runs, the clipped run at the end of the list and the scan for equal
neighbours. `Shapes` takes its result (burned ids are a set); `RepeatedInputsCaught` in `MCShapes`
compares it with the definition on every list of up to six ids, lengths 0 to 6 being those with
one to three passes, a full last run, a clipped one and one that is missing.

### Calls and callbacks: `ShapesCalls`

A transaction is opened by a wallet (`OpenTx`) and driven by the wallet, by the auction house or by
a contract it calls. A wallet makes one call, or several of the same kind for `composeMany` and
`decomposeMany`, a contract any, to Shapes and to the house. The house, called by a wallet, makes
what one call of it makes (`HouseMakes`): it takes any number of cards, then mints any number of
batches, or it releases any number of tokens, to who called it (`ReleasedTo`); called by a contract,
at any time, it may do any of this, since each such step is part of some call of the house. Which
tokens are anyone's stake or lot is the business of `AuctionHouse`, so the house here takes and
releases more freely than in the code. `MaxCalls` counts all calls but the releases (a token is
released at most once for each time it came in), so that a Shape can come in, leave and come in
again within few of them. `MintBatchTo`, `SplitTo` and `DecomposeTo` do what the code does before its
`_safeMint` loop and leave a *frame* in `call`: the ids yet to mint, their recipient and, for
decompose, where the owner token goes afterwards. `SafeMint` is one turn of the loop,
`CallbackReturns` ends the receiver's hook (or its `receive` function when ETH is paid), and
`CallReturns` does what follows the loop and releases the guard. While a hook runs, a contract may
transfer tokens (`TransferCall`), which no guard covers; every guarded entrypoint requires
`call = Idle`. `compose`, `redeem` and `burnBacking` make no call in the middle and are the actions
of `Shapes` themselves, with the hook of the ETH payment after them.

A call that reverts, or whose receiver reverts, rolls the transaction back and is no step; a
`CommitTx` needs a log. Approvals, admin calls and fees are left to `Shapes` and its runs
(`authority`, `fees`): a callback can make them too, but they read and write nothing that a frame
holds. The ids of a decompose are minted in the order of the record, which the caller of compose
chose, hence in any order here; those of a mint or split in increasing order. Events of one loop are
logged in increasing order of their ids (`Each`), whatever the order of the caller's list: a handler
reads and writes the row of its own id. The one event a loop of burns may have in between,
`OwnerTokenMoved`, is logged where the code emits it, just before the burn of the owner token
(`Burned`). The `Transfer` of a redeemed token is not logged apart from its `ShapeRedeemed`: the
handler of a burn's `Transfer` writes nothing.

`CallsAreAtomic` is the refinement. `SettledOwners` counts the ids a frame has yet to mint as their
recipient's and `SettledOwnerToken` takes the owner token where the frame will move it; under this
mapping a minting call is one step of `Shapes`, taken when it starts, the turns of its loop are
stutters, and a transfer made in a callback is a transfer of its own.

### The indexer: `Indexer`, `Provenance`

Each step of `ShapesCalls` appends the events it emits, in the order of the code, to the log of its
transaction; `HandleEvent` takes the next one after the commit. One operator per handler
(`OnShapeMinted`, `OnComposed`, `OnSplit`, `OnDecomposed`, `OnTransfer`, ...) takes the tables,
which are one record in the variable `tables`, and an event, and returns the tables with the rows
the handler writes; `OnSplit` and `OnDecomposed` read the sender of the transaction too. `Handled`
dispatches an event to its handler. `InkGene` and `ModulesSampled` are one event, `ArtSet`, as they
are emitted together. A handler that inserts a row that exists, or updates one that does not,
throws and stops the indexer (`stopped`).

The next transaction waits until the log is read. This loses nothing: a handler reads the event, its
transaction's sender and the tables, so it does not see the chain move on. For the same reason rows
of the feed and of the escrowed cards, which are keyed by the hash of their transaction, are kept
for the newest transaction only. Two history variables belong to it: the Shapes it touched, and the
list of entries of Shapes into the house (`entered`), with the denomination each had. There is no
reorganisation of the chain in the model: Ponder undoes the writes of removed blocks itself.

The auction house appears as the account `House`, which takes tokens, mints cards to itself and
gives tokens back, as above; the handlers of its own events are not modelled. Mint fees are zero.

`Provenance` replays the edges as `standingMerges` does (`MergesFrom`), and reads a token's birth
off the first edge a query returns, in no order of its own, as `loadProvenance` does.

### The auction house: `EnglishAuction`, `AuctionHouse`

| action of `AuctionHouse` | code |
| --- | --- |
| `CreateAuction`, `CancelAuction`, `SetStartTime` | `createAuction` (both overloads), `cancelAuction`, `setStartTime` |
| `Bid` with `TakeBid` | `bid`, `_takeBid`, `_takeCards`, `_cardsFor`, `_mintCards`, `_minimumFrom`, the deadline |
| `Settle`, `ClaimLot`, `ClaimProceeds`, `Withdraw` | the entrypoints, through `_release` |
| `WalletChange`, `WalletMint`, `PlainPush` | what owners of Shapes do outside: send, reshape, redeem, turn Black; mint; push a token at the house |
| `Tick` | block time |

A transaction is a step, as for Shapes. The calls it makes to other contracts are to Shapes, whose
only callback is the house's own `onERC721Received` (a view), and to the lot's collection, which
may re-enter nothing that is `nonReentrant`; `setStartTime` is not, and called from inside it is as
good as a call of its own. A lot may be any token, a Shape included; the collection of an
*untruthful* lot moves nothing, or moves it at will, and reports what passes. ETH in a bid becomes
the cards `_cardsFor` computes; since each step of a ladder divides the next, what remains for a
denomination is a remainder modulo the next one up, which is how `CardsFor` says it.

Two history variables: who bid a card in which auction, and which tokens were pushed at the house
outside any bid.

### The gallery: `SiteData`

`blocks` is the chain, one operation per block, with what the site reads of it: for each live token
its owner and the block of its last change, which stands for all other fields. A load is two steps.
`Refresh` and `RefreshAfter` start it, with the ids the user's transaction touched; its end,
`LoadFromIndexer` or `LoadFromChain`, names the block each of its reads was answered at, in the
order the code awaits them. This is the same as a step per read, since reads change nothing and the
chain keeps its past, and it keeps overlapping loads within reach. A read that fails is caught
where the code catches it (an id of the scan, a dirty id) or fails the load (`LoadFails`); which
ones failed is kept in `lost`, so that the properties can except them.

The indexer answers for one block, at most the head. `requireFreshCheckpoint` admits it if the head
read afterwards is at most `MaxLag` ahead, and the number of its rows is compared with a
`totalSupply` that may be of another block. `LoadFromChain` is the incremental scan: it checks the
ids minted since the last scan and those on display, reads owners, then fields of what is new, moved
or dirty. The rows of the indexer arrive in one page, and the chain is never reset (a development
chain that starts over, which the genesis check of the code is for).

## 4. What is checked

No fairness is assumed and no liveness is claimed of `Shapes`: on a chain nobody has to act. What
takes the place of liveness is that an exit is *possible* in every reachable state
(`ExitAlwaysOpen`, `UndoAlwaysOpen`, stated with `ENABLED`). For the same reason the runs do not
check for deadlock: when all ids are issued and all tokens redeemed the system rightly stops, and
so it does when all calls, blocks or loads of an instance are used up.

The auction house does promise something to those who act, and `Spec` of `AuctionHouse` states the
fairness this takes: time passes, and each call is made once it stays possible by somebody it
benefits. `settle` is open to anyone; `claimLot`, `claimProceeds` and `withdraw` pay the person
whose fairness it is. Nothing is assumed of bidding, listing or cancelling, nor of a lot whose
collection lies.

| run | instance | question |
| --- | --- | --- |
| `core` | two holders, ladder 1-2-3, five ids | do reserve, origins, records, exits and the owner token survive every sequence of mint, compose, decompose, split, redeem, burn, burnBacking and transfer? |
| `lineage` | one holder, ladder 1-2-3, six ids | is split provenance right through splits of splits, composes and decomposes? |
| `authority` | two holders, one also an operator, ladder 1-2, four ids | who can disturb a live token, and do approvals survive death? |
| `fees` | ladder 1-2-3, three ids, two possible recipients and admins, forced ETH | does the balance split exactly into reserve, fees and surplus? |
| `auctions` | two bidders, one also the seller's agent, one auction of any token (a Shape too), five cards, ladder 1-2 | are custody, valuation, price and deadline right, and is each call a step of the abstract auction? |
| `promises` | two auctions, one lot of a collection that lies, three cards | under the fairness above, does every auction with a bid end and everyone come to what is theirs? |
| `mirror` | a wallet, a contract that moves tokens in its callbacks, the house; three calls besides releases, five ids, ladder 1-2-3 | is a call one step of `Shapes`, and is what the indexer says true once it has read the log? |
| `site` | two tokens, three blocks, three refreshes, two at once; a lost read per load, an indexer one block behind | does the gallery show no ghost, miss nothing and show the user's own transaction? |
| `splitorigin` | as `core` | a statement of `IShapes.sol` that fails (section 6) |
| `cards` | as `mirror`, five calls, three ids | a statement of `ponder.schema.ts` that fails (section 6) |
| `births` | as `mirror` | a statement of `provenance.ts` that fails (section 6) |
| `restored` | as `site`, one refresh after another, no read lost | a statement of `data.ts` that fails (section 6) |

Why these bounds are enough for the interesting cases. In the ladder 1-2-3 two different pairs
(1+1, 1+2) compose, three ones compose at once, the apex splits in two ways, and a compose of a
compose is possible. Five ids allow: genesis, two more mints, a nested compose of all three, and a
split of the result, so every nest of records and every way of leaving one behind occurs;
`burnBacking` needs an apex token with three origins, which the same ids give. Six ids are needed
for a split of a split whose parent's denomination differs from its line's origin, hence the run
of its own. The approval properties need operators, which multiply the states, hence the shorter
ladder and four ids. Symmetry is not used: the deployer is distinguished.

In `auctions` two cards per entry and five cards allow a bid of cards, of ETH and of both, a top-up,
the limit reached by either, a card minted by someone else between two mints of the house, and that
card reshaped, redeemed or pushed while it is in a wallet (`Restless`). The three terms include an
increment that rounds, a reserve, a start in the future, an extension window as long as the
duration, and terms that are refused. Time 4 is a first bid, a late one and the moments after. In
`promises` the second auction may list the same lot again; fewer cards and a single kind of terms
pay for the liveness check.

In `mirror` three calls make a compose of a compose and a decompose, a split and a compose of its
children, or a compose, a decompose and a redemption; each minting call may be interrupted at each
token. They also make a bid of cards and ETH, two denominations of ETH, and a Shape that enters the
house, leaves it, is reshaped and enters again, which is three calls because a release is not
counted. `cards` uses five on three ids, where the contract must first come by its Shapes. In `site`
two loads overlap while a third uses what the first left; three blocks allow a compose and its
decompose, or a redemption between two reads. `MaxLag` 1, not the 2 of the code, lets the indexer be
both acceptably and unacceptably late within three blocks. The constraint `LoadsLeft` stops when no
load is left to end, after which no property looks; the refreshes are interchangeable and the
symmetry is over them alone, which is sound as no property tells them apart.

**Properties of `core`.**

- `SupplyCountsLiveShapes`, `ReserveBacksLiveShapes`, `BlackShapesAccounted`: the counters are
  exactly what they claim to count. decompose writes the survivor's old denomination without
  looking at the reserve, so this rests on every record being exact.
- `OriginsConserved`: live origins and redeemed origins add up to the direct mints.
- `SplitNeverPanics`: the `assert` that ends `allocateSplitOrigins` cannot fail.
- `ExitAlwaysOpen`: every holder can burn (and redeem what is not Black) in every state.
- `HeldShapesAreDeadAndUnique`: an id that some record would re-mint has no owner and is in no
  other record.
- `RecordsConserve`: every record, at any depth of any stack, undoes exactly the state above it:
  the next record, the live token, or the snapshot in the record that holds the token.
- `ArtReconstructs`: what a token looks like can be sampled again from its top compose record or,
  for a split child, from the split record and the compose stack its burned parent left behind,
  as `SAMPLING_SPEC.md` promises. Each compose changes the art class in this instance, so a record
  restored wrongly at any depth shows.
- `UndoAlwaysOpen`: the holder of a composed token can always decompose it.
- `SeedsDistinct`: no two tokens, live or held, share a seed.
- `OwnerTokenLive`, `OwnerReturnPath`: ownership is on a live token, and each record that took it
  from an input can hand it back.
- `DeadEndsStayDead`, `OwnerTokenEndIsFinal` (action properties): a redeemed or split id never
  returns; ended ownership never returns.

**`lineage`:** `SplitProvenance`, the split reference of a token stays true of its seed, its parent
and the origin of its line. **`authority`:** `NoApprovalOnDeadId` and `OnlyTheAuthorisedDisturb`: a
live token changes hands, state or stack only by the act of its holder, an operator or the approved
account. **`fees`:** `BalanceCoversObligations` and `FeesOwedAddUp`. That fees fall only by being
paid in full to whom they are owed, whoever is recipient now, is `FeesPaidWhole`, which is proved
(section 5) and not run. **`lineage`** also checks `RepeatedInputsCaught`: the merge sort of compose
reverts on exactly the lists with a repeat and names the smallest.

**`mirror`:**

- `CallsAreAtomic`: see section 3. It fails when the reentrancy guard is left out.
- `OwnerSeenInCallbacks`: whenever foreign code runs the owner token exists. decompose moves it
  after its last mint, split before its first; both are right, for opposite reasons.
- `IndexerMirrorsChain`: with the log read, every row is what the chain says: owners credited
  provisionally by a split or a decompose, shapes of burned inputs that a decompose will revive,
  the owner row although `OwnerTokenMoved` may precede the row it is about.
- `MergesDrawnStand`: the merges replayed from the edges are the compose records on the chain.
- `FeedTellsAll`: the feed names each Shape a transaction changed, callbacks included.
- `CardsAsFirstEntered`: the table of escrowed cards has a row for each Shape that entered the house
  in the transaction, with the denomination of its first entry. The stronger statement the schema
  makes, that it has every entry, is `BidCardsAsEntered`, and fails (section 6).

**`auctions`, `promises`:**

- `Custody`: each token and each wei that enters the house by a call of its own is recorded for
  exactly one claimant, who can be paid; no record outlives what it is about.
- `UnitsBacked`: what a bid counts for is what the cards in custody back.
- `LeaderLeads`: the leader's entry is the standing bid until the seller takes it, and every other
  entry is below it.
- `CardsGoHome`, `TimeToAnswer` (action properties): a card leaves the house only to who bid it, to
  the seller it was won for or as a lot; whoever is outbid has the extension window to answer, and
  a closed auction keeps its outcome.
- `ImplementsEnglishAuction`: the refinement, with an entry's units as a stake.
- `KeepsPromises` (liveness): an auction with a bid ends; a sold one leaves no stake behind, a
  closed one no lot, and who is outbid gets the stake back. Nothing makes bidding stop by fairness:
  in TLC it stops because `Bid` pushes no deadline beyond `MaxTime`, a bound. In the code it stops
  because each bid raises the price by a unit at least and units are finitely many, which TLC does
  not check.

**`site`:** `GalleryTrue`, a token shown was live and its owner's at one block the load may have
read; `GalleryComplete`, a token live all along is shown; `OwnActionShows`, what the user's own
transaction touched is shown no older than the load, whatever the indexer still says.

## 5. What is proved

The theorems of Shapes hold for every value of the constants that satisfies the four assumptions
of `Shapes.tla`, for behaviours of `Spec` of any length:

- `AccountsAssumption`: the deployer, the operators and the candidates for admin and recipient are
  accounts, and the zero address is not.
- `LadderAssumption`: denominations are strictly increasing and the smallest is one unit.
- `BoundsAssumption`: the caps on ids, forced ETH and the mint fee are natural numbers, and one id
  (the genesis token) may be issued.
- `ArtAssumption`: the art functions return art. Nothing else about them is used.

| theorem | module | what it says |
| --- | --- | --- |
| `TypeCorrect` | `ShapesProofs` | every variable keeps the type of its storage slot |
| `SupplyAlwaysCounts` | `ShapesProofs` | `totalSupply` is the number of live tokens |
| `HeldAlwaysDeadAndUnique` | `ShapesProofs` | an id held by a record has no owner and lies in no other record |
| `OwnerTokenAlwaysPlaced` | `ShapesProofs` | collection ownership is on a live token, with a way back through each record |
| `DeadEndsNeverReturn` | `ShapesProofs` | a redeemed or split id never has an owner again |
| `OwnerEndsForGood` | `ShapesProofs` | ended ownership never returns |
| `OwnerReturnAlwaysOpen` | `ShapesProofs` | a record that took ownership from an input holds the input and can give it back |
| `BalanceAlwaysCovers` | `ShapesProofs` | the balance is reserve, plus fees owed, plus forced ETH |
| `FeesAlwaysAddUp` | `ShapesProofs` | `totalFeesOwed` is the sum of what each recipient is owed |
| `FeesAlwaysPaidWhole` | `ShapesProofs` | fees fall only by being paid whole to whom they are owed |
| `ApprovalsAlwaysOnLive` | `ShapesProofs` | no approval survives the death of its token |
| `AlwaysOnlyTheAuthorised` | `ShapesProofs` | a live token changes only by the act of someone entitled to it |
| `InductiveAlways` | `ShapesProofs` | the inductive invariant below holds in every reachable state |
| `ReserveAlwaysBacks` | `ShapesProofs` | the reserve is exactly what the live tokens redeem for |
| `OriginsAlwaysConserved` | `ShapesProofs` | live plus redeemed origins are the direct mints |
| `RecordsAlwaysConserve` | `ShapesProofs` | every record, however deep, undoes exactly what lies above it |
| `BlacksAlwaysAccounted` | `ShapesProofs` | `blackShapeCount` is the number of live Black Shapes, each a Complete apex, all of them paid for |
| `ExitsAlwaysCovered` | `ShapesProofs` | every set of live tokens passes the subtractions and the balance check of its redemption |
| `UndoAlwaysClear` | `ShapesProofs` | the holder of a composed Shape that is not Black passes every guard of decompose |
| `SplitAlwaysExhausts` | `ShapesProofs` | the `assert` that ends `allocateSplitOrigins` holds for every accepted split |
| `SeedsAlwaysDistinct` | `ShapesProvenance` | no two tokens, live or held by a record, share a seed |
| `SplitAlwaysProven` | `ShapesProvenance` | every split reference is true of its seed, its parent and the origin of its line |
| `ArtAlwaysReconstructs` | `ShapesProvenance` | sampling again from the records gives the art, whatever the samplers compute |

The theorems of the auction house hold for every value of the constants that satisfies
`PeopleAssumption`, `TokensAssumption`, `LadderAssumption` and `BoundsAssumption` of
`AuctionHouse.tla`: any people and agents, any lots of truthful and untruthful collections, any
cards and their changes in wallets, any ladder that divides, any fee, limit, terms and time.

| theorem | module | what it says |
| --- | --- | --- |
| `AuctionTypes` | `AuctionHouseProofs` | types, and no entry ever exceeds the maximum of cards |
| `CustodyHolds` | `AuctionHouseProofs` | what entered the house is owed to exactly one claimant and is there |
| `UnitsAlwaysBacked` | `AuctionHouseProofs` | what an entry counts for is what its cards in custody back |
| `LeaderAlwaysLeads` | `AuctionHouseProofs` | the standing bid is the leader's entry, and the others are below |
| `EscrowGoesHome` | `AuctionHouseProofs` | a card leaves the house only for where it belongs |
| `AlwaysTimeToAnswer` | `AuctionHouseProofs` | an outbid bidder has the window; a closed auction keeps its outcome |
| `HouseIsEnglishAuction` | `AuctionHouseProofs` | every call is a step of the abstract English auction, or none |

The theorems of the calls hold for every value of the constants that satisfies the assumptions of
`Shapes` and `ContractsAssumption`: any accounts and contracts, any tokens dealt at the start, any
number of calls.

| theorem | module | what it says |
| --- | --- | --- |
| `CallsAlwaysAtomic` | `ShapesCallsProofs` | each call, with what contracts do in its callbacks, is one step of `Shapes` |
| `OwnerAlwaysSeen` | `ShapesCallsProofs` | no callback sees an owner token that does not exist |
| `ReserveBacksSettled` | `ShapesCallsProofs` | inside a callback the reserve backs the live tokens and those still to be minted |

The theorems of the indexer hold for every value of the constants that satisfies the same
assumptions: any contracts and whatever they do in callbacks, transactions and lists of any length.

| theorem | module | what it says |
| --- | --- | --- |
| `IndexAlwaysLeadsToChain` | `IndexerProofs` | the inductive invariant below; no handler ever throws |
| `IndexerAlwaysMirrors` | `IndexerProofs` | with the log read, the rows of tokens, of burned inputs and of the owner are what the chain stores |
| `MergesAlwaysStand` | `IndexerProofs` | with the log read, replaying the edges of a token gives the records of its stack, in order |
| `FeedAlwaysTells` | `IndexerProofs` | with the log read, the feed names every Shape the transaction changed |
| `CardsAlwaysFirst` | `IndexerProofs` | with the log read, the escrowed cards are the Shapes that entered the house, each with the denomination of its first entry, however often it left and came back |

The theorems of the gallery hold for every value of the constants that satisfies the assumption of
`SiteData.tla`: any number of tokens, blocks, loads and refreshes, any lag of the indexer and any
number of failing reads.

| theorem | module | what it says |
| --- | --- | --- |
| `SiteInvariant` | `SiteDataProofs` | the inductive invariant below |
| `GalleryAlwaysTrue` | `SiteDataProofs` | no ghosts: each token shown was live and its owner's at one block the load may have read |
| `GalleryAlwaysComplete` | `SiteDataProofs` | what was live all along is shown, unless a read of it failed |
| `OwnActionAlwaysShows` | `SiteDataProofs` | what the user's transaction touched is shown no older than the load |

**The argument for Shapes.** None of the interesting properties is inductive by itself.
`ReserveBacksLiveShapes` fails after a decompose whose record is wrong, since decompose writes the
survivor's old denomination without consulting the reserve. So the reserve needs `RecordsConserve`.
A record is right relative to what lies above it: the next record in the stack, the live token, or
the snapshot in the record that holds the token. It stays right only if that thing cannot change
under it, so `RecordsConserve` needs held ids to be dead and to lie in one record each
(`HeldShapesAreDeadAndUnique`). That in turn needs the ids a mint or a split issues to be new, to
ownership and to the records: `SupplyCountsLiveShapes` with `Live` bounded by the counter, and
`FreshIdsHaveNoRecords`. The inductive invariant is the conjunction,

    Inductive == Structure /\ Conservation
    Structure    == supply, held ids, fresh ids, owner token and its way back
    Conservation == records, reserve, origins

proved in three layers in `ShapesProofs`. The first proves `TypeOK` action by action and how the set
of *places* (a survivor and a depth of its stack) changes when a record is pushed or popped.
The second proves `Structure`: mint, split, redemption and `burnBacking` only retire live ids
and issue new ones (`StructureByIssue`); compose moves live ids into one new place
(`StructureByCompose`); decompose moves them back (`StructureByDecompose`); all other actions
leave tokens and records alone (`StructureByStillness`). The third proves `Conservation` on
top of it: each action exchanges a set of tokens for another beside an untouched rest (`Exchange`),
and keeps the reserve and the origins exact if what is added and what is removed are worth the
difference of the counters (`WorthKept`); one lemma per action computes both sums. For a split
they are sums over a list of outputs re-indexed by child ids (`SumReindex`), for compose and
decompose they come from the record.

The two action properties `DeadEndsStayDead` and `OwnerTokenEndIsFinal` follow from `Structure` and
a step lemma each, and so does `OwnerReturnPath`, which is part of it. `BalanceCoversObligations`,
`FeesOwedAddUp` and `NoApprovalOnDeadId` are inductive given the types; `OnlyTheAuthorisedDisturb`
goes through the actions, each of which checks the caller for every token it touches.

What the code's checked arithmetic must never refuse follows from `Inductive`. A live token's
backing is a summand of the reserve and its origins of the live ones, so a redemption of any set
subtracts what is there (`ExitsAlwaysCovered`); together with the balance this is what
`ExitAlwaysOpen` says without the word `ENABLED`, as `UndoAlwaysClear` is for `UndoAlwaysOpen`. A
split hands the origins out greedily. `GreedyFill` of `SumLemmas` shows that filling cells of given
capacities in turn leaves nothing over when the capacities add up to as much at least, which the
sum of the outputs does because a token's origins never exceed its units: `OriginsFit`, which is
said of the records too, as a decompose writes back what they hold. `BlackShapesAccounted` is
inductive given the structure: what compose, split and decompose retire and issue is not Black.

**The argument for provenance.** `SeedsDistinct` is not inductive: a split appends a child index to
its parent's seed, and could meet a seed in use. The invariant is `SeedsApart`: no known seed, of a
live token or in a record, is a prefix of another one, and each begins with a mint's id that was
issued. A split replaces a seed by extensions of it, and what was apart from the parent is apart
from its children. `Lineage` is about split references: each names a split record, the child
carries the seed of that record with its index appended *wherever the token is*, live or in a
record, and the parent has neither an owner nor a place in a record, so that nothing can give it
back. `ArtLineage` says the same of art: a record's art and its inputs' give the art above the
record, and the stack a split parent left in storage stays what it was when its children were
sampled, because no operation touches the stack of a token that is dead for good.

**The argument for the auction house.** The inductive invariant is `TypeOK`, `Custody`,
`LeaderLeads`, `AuctionsShaped` and `FreshUnowned`, each needed by the others. `AuctionsShaped` says
that auctions come in order, that one without a bid holds no stake, that an entry with a card counts
for something and that a lot leaves only a closed auction: without it a new auction could inherit
stakes, and a withdrawal could leave a card behind. `FreshUnowned` says that Shapes has issued no id
from `totalMinted` on, so that the cards a bid of ETH mints are in no entry yet. `Custody` is kept
because an entry gains a card only as the house becomes its owner, and `_release` empties the entry
as it moves the cards, all of which `Custody` says the house owns. `LeaderLeads` could be broken by
a top-up of someone who is not leading; the minimum, which is taken of the whole entry, makes that
person the leader. `HouseIsEnglishAuction` then maps each call to a step of `EnglishAuction`, an
entry's units being its stake: an accepted bid is an improving one, and a withdrawal repays the
whole stake. `UnitsBacked` is inductive given `Custody`: a wallet changes only cards it holds, so a
card in custody keeps its denomination, and a bid adds to an entry what its cards back. For cards
this is what the code sums; for ETH it is what the minted cards add up to, which `MintedWorth`
computes along the ladder: down to each denomination they are worth the amount less its remainder by
the next one, and the smallest unit leaves none.

**The argument for the calls.** `CallsInv` has two halves. `Framed` is about the frame: the ids a
call has yet to mint have no owner, and only a call that mints owes any. The other half is the
invariant of `Shapes`, types included, over what the calls amount to (`SettledOwners`,
`SettledOwnerToken`). Each half needs the other: that the inputs a decompose revives have no owner
is that a record holds dead tokens, which is the invariant of `Shapes`, and that this invariant
survives a step of a call is that the step is one of `Shapes` under the mapping, which is what
`Framed` gives (a transfer made in a callback cannot move a token that is still owed). So the lemmas
of `ShapesProofs` are used as they were proved, through INSTANCE, and not proved again.
`OwnerAlwaysSeen` adds where the owner token is while it exists in no wallet: on the first child of
a split, which is minted before any callback.

**The argument for the indexer.** What the properties say holds only once a log of any length has
been read, by handlers that see no more than an event and the tables. The invariant therefore
speaks of the tables that the log has yet to produce. `Yields(sender, t, E, u)` says that there is
a sequence of tables, one for each event of `E`, that starts with `t`, in which each step is that
of the handler of its event and none throws, and that ends with `u`. `IndexInv` says that the log
yields, from the tables as they are, some tables `u` with `Mirrors(u)`: every row is its token, as
it will be once the running call has handed out what it owes (`SettledOwners` of the calls); a
row's owner is the token's as far as it has one, so that the provisional owner of a child still to
be minted is right to be anybody; the rows of the inputs a record holds are what the record
restores; the edges replayed are the stacks (`Standing`); the feed names what was touched and what
a call has yet to mint; the escrowed cards are the first entries of `entered`, which `FirstAfter`
carries through one more of them.

A step of the chain that logs nothing must keep `Mirrors(u)`; one that logs events `E` must come
with tables `v` such that `E` yields `v` from `u` and `Mirrors(v)` holds after it (`Carried`). A
handler takes the first event, and the rest leads where it did (`YieldsHead`). So order and
interleaving are settled once, and each operation is two independent questions. `IndexerEffects`
answers the first, where its events lead any tables at all (`Leads`): a loop by an explicit
sequence of tables, one per turn (`ArtLoop`, `MintLoop`, `RedeemLoop`), an operation by putting the
parts one after the other (`YieldsThen`). `IndexerProofs` answers the second, that this is what the
operation does to the chain: one lemma per operation (`ComposeMirrored`, `SplitMirrored`, ...),
which takes from the invariant of the calls that held ids are dead and held once (`HeldDead`,
`HeldOnce`), so that a revived row still is what it was when its token was burned. A replay of
edges is a recursive function over the list; that a list and its extension by one edge replay alike
(`ReplaySame`, `MergesAppend`) is an induction over naturals as below, as are the sorted lists of
the loops (`InOrder`).

**The argument for the gallery.** A load is compared with the chain, whose past does not change:
`ChainGrows` says that ids are never taken back. A scan of the chain reuses what the snapshot on
display has, so `ScanComplete` is kept of that snapshot and of the one each running load started
from: every id below the boundary it was scanned to that was never burned is in it or among the
lost. The end of a load is then one lemma per source and per property: the rows of the indexer are
those of one block within the allowed lag, since a later head would have been refused; a token of a
scan was checked, or carried over with an owner read anew; an id the user's transaction touched is
read again after either.

**Sums without recursion.** A sum over a set is the cardinality of a set of coins: `SumOver(f, S)`
counts the pairs `<<x, n>>` with `x \in S` and `n \in 1 .. f[x]` (module `Sums`). This is the same
number as the recursive sum and it turns the laws the proofs need (disjoint union, removal,
re-indexing, exchange of summation order) into facts about finite cardinality, which
`SumLemmas` proves from the library's theorems on finite sets. A recursive definition would have
put them out of the prover's reach, since that needs induction over data.

**Induction without an operator parameter.** The library's induction theorems take a predicate,
which the provers cannot instantiate, but an induction can be said of a set: a set of naturals that
contains 0 and with each number the next one is `Nat` (`NatSetInduction`, from the least element of
the complement, which a set of naturals has because what lies below one of its members is finite).
`GreedyFill`, `MintedWorth`, `InOrder` and `ReplaySame` are proved this way. It does not unfold a
recursive definition that chooses among its arguments.

**Checked by TLC only.** `ExitAlwaysOpen` and `UndoAlwaysOpen` are about `ENABLED`, which the
prover does not handle; the guards they speak of are proved to hold, in `ExitsAlwaysCovered` and
`UndoAlwaysClear`. `KeepsPromises` is liveness under fairness. `RepeatedInputsCaught` is what a
recursion computes on lists of any length.

## 6. Disagreements between code and documentation

Four runs are expected to find a violation.

- `splitorigin`: `src/interfaces/IShapes.sol:518` says `splitOriginOf` reverts for an input
  re-minted by decompose, and `SAMPLING_SPEC.md:337` that decompose never re-mints an id only a
  split issued. A split child can be composed and decomposed; it returns with its
  `splitOriginRef`, which decompose never touches (`src/lib/RecompositionOps.sol:245`). The data
  it then reports is still right: that is `SplitProvenance`.
- `cards`: `indexer/ponder.schema.ts:167` says a transaction escrows each card at most once, and
  lines 161-162 that a row has the card's denomination when it entered. A contract may call
  `createAuction` with a Shape as the lot, `cancelAuction`, `claimLot`, `compose` and `bid` with the
  same Shape in one transaction: two entries at two denominations. `onConflictDoNothing`
  (`indexer/src/index.ts:334`) keeps the first, so the bid lists its card at the denomination it had
  before. What does hold is `CardsAsFirstEntered`.
- `births`: `preview/src/site/provenance.ts:137` says the ancestry of a split-born token is the
  split's input. `loadProvenance` (`provenance.ts:179`) takes a token's birth from the first edge
  that has it as a child, in no order; a split child that was later composed away also has a
  continuation edge, and when that comes first it is drawn as born of a mint.
- `restored`: `preview/src/site/data.ts:637` says an id between the last scan and the snapshot
  needs no check, as nothing could have made it live. decompose makes burned ids live again;
  `loadSiteFromChain` (`data.ts:643`) then leaves them out although `refresh` was told of them, and
  so does every later incremental scan. The indexer's path does show them.

One more needs no run. `README.md:198` says `burnedBacking` and `blackShapeCount` are cumulative and
that burning a Black Shape reduces neither. `_burnForRedemption` (`src/Shapes.sol:571`) lowers
`blackShapeCount`: it counts the live Black Shapes, which is what `BlackShapesAccounted` states.

## 7. What is not modelled

- The renderer, collection and pointer settings of AdminOps and ShapeCollection, their one-way
  locks and the artist's attestation: they touch no state of the modelled parts, and each lock is
  one guard.
- Art, seeds as bytes, the renderer, the collection's text, signatures: pure functions of bytes,
  abstracted to classes or out of a model checker's reach. That two ports of the sampler (Solidity
  and TypeScript) agree is a matter of fixtures, which the repository has.
- Gas, and integer widths: every amount is bounded by the ETH in existence, far below 2^256, and
  the narrow types (`uint8` denomination index, `uint64` units) are cast from values the ladder
  bounds.
- The indexer's handlers of the auction house's events, its API and rate limits; reorganisations,
  which Ponder undoes.
- Of the site, everything but the loading of the gallery and the ancestry: the auction page, token
  history, portfolio, transaction forms and the play sandbox. They display one read or send one
  transaction. In the gallery: pages of indexer rows, the limit of 1000 edges of one level of the
  ancestry (`MergesFrom` replays all), that the owner and the fields of a dirty id are separate
  reads (one block for each id here; no older than the load either way), a batch of reads that fails
  as a whole (each read fails by itself here), and snapshots of two overlapping refreshes that
  replace each other out of order, which `GalleryTrue` allows because each is true of its own load.
- The rollback of a `composeMany` or `decomposeMany` of which one reshape fails: it is the revert of
  a transaction, which the model takes from the EVM. `ShapesCalls` makes their reshapes one after
  the other, each a step that `CallsAreAtomic` checks.

A large part of the repository's code is not of a kind a state model speaks of: the contract
documentation the site embeds (`preview/src/chain/contractDocs.generated.ts`), React views, the
canonical renderer and its fixtures, and simulation scripts make up most of its TypeScript. The
contracts, whose control is modelled nearly whole, are Solidity.

## 8. Plan

Done, with proofs: `Shapes`, `ShapesCalls`, `EnglishAuction` and `AuctionHouse`, `Indexer` and
`Provenance`, `SiteData`; checked only: `DistinctInputs`. Left, in this order:

1. `ComposeTree` (abstract): ownership, value and origins as a tree whose leaves are mints;
   compose makes a node, decompose returns its children, split replaces a leaf by leaves.
   `Shapes` refines it. This says in one line what the records are for.
2. The indexer's handlers of auction events, on the composition of `ShapesCalls` with
   `AuctionHouse`.
3. `AdminConfig`: one-way locks of presentation and pointers, attestation once, a renounced
   admin.
