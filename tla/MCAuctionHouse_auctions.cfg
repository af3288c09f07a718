CONSTANTS
    sam = sam
    ann = ann
    bea = bea
    art = art
    fake = fake
    Nobody = Nobody
    House = House
    People = {sam, ann, bea}
    Agents <- MCAgentsOfSam
    Cards <- MCCards
    Lots = {art}
    UntruthfulLots = {}
    LotOwner <- MCLotOwner
    Apex = 1
    Units <- MCUnits
    MintFee = 1
    Dealt <- MCDealt
    MaxCardsPerBid = 2
    MaxDuration = 2
    MaxStartLead = 1
    AuctionTerms <- MCTerms
    Amounts = {0, 1, 2, 3}
    Restless = {3}
    MaxAuctions = 1
    MaxTime = 4
SPECIFICATION SafeSpec
CHECK_DEADLOCK FALSE
INVARIANTS
    TypeOK
    Custody
    UnitsBacked
    LeaderLeads
PROPERTIES
    CardsGoHome
    TimeToAnswer
    ImplementsEnglishAuction
