CONSTANTS
    sam = sam
    ann = ann
    bea = bea
    art = art
    fake = fake
    Nobody = Nobody
    House = House
    People = {sam, ann, bea}
    Agents <- MCAgents
    Cards <- MCFewCards
    Lots = {art, fake}
    UntruthfulLots = {fake}
    LotOwner <- MCLotOwner
    Apex = 1
    Units <- MCUnits
    MintFee = 0
    Dealt <- MCFewDealt
    MaxCardsPerBid = 2
    MaxDuration = 2
    MaxStartLead = 1
    AuctionTerms <- MCShortTerms
    Amounts = {0, 1}
    Restless = {}
    MaxAuctions = 2
    MaxTime = 3
SPECIFICATION Spec
CHECK_DEADLOCK FALSE
INVARIANTS
    Custody
PROPERTIES
    KeepsPromises
