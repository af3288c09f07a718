CONSTANTS
    wallet = wallet
    vault = vault
    house = house
    NoOne = NoOne
    Accounts = {wallet, vault, house}
    Contracts = {vault}
    House = house
    Deployer = wallet
    Operators = {}
    Candidates = {}
    Apex = 2
    Units <- MCUnits
    MaxMintFee = 0
    Arts = {0, 1}
    BlankArt = 0
    MintArt <- MCMintArt
    ComposeArt <- MCComposeArt
    SplitArt <- MCSplitArt
    MaxMinted = 3
    MaxForced = 0
    Dealt <- MCDealt
    MaxCalls = 5
SPECIFICATION IndexedSpec
CHECK_DEADLOCK FALSE
INVARIANTS
    BidCardsAsEntered
