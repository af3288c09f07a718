CONSTANTS
    alice = alice
    bob = bob
    NoOne = NoOne
    Accounts = {alice, bob}
    Deployer = alice
    Operators = {}
    Candidates = {bob}
    Apex = 2
    Units <- MCUnits
    MaxMintFee = 1
    Arts <- MCArts
    BlankArt = 0
    MintArt <- MCMintArt
    ComposeArt <- MCComposeArt
    SplitArt <- MCSplitArt
    MaxMinted = 3
    MaxForced = 1
SPECIFICATION Spec
CHECK_DEADLOCK FALSE
INVARIANTS
    BalanceCoversObligations
    FeesOwedAddUp
