CONSTANTS
    alice = alice
    bob = bob
    NoOne = NoOne
    Accounts = {alice, bob}
    Deployer = alice
    Operators = {}
    Candidates = {}
    Apex = 2
    Units <- MCUnits
    MaxMintFee = 0
    Arts <- MCArts
    BlankArt = 0
    MintArt <- MCMintArt
    ComposeArt <- MCComposeArt
    SplitArt <- MCSplitArt
    MaxMinted = 5
    MaxForced = 0
SPECIFICATION Spec
CHECK_DEADLOCK FALSE
PROPERTIES
    RevivedInputsHaveNoSplitOrigin
