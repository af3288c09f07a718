CONSTANTS
    alice = alice
    bob = bob
    NoOne = NoOne
    Accounts = {alice, bob}
    Deployer = alice
    Operators = {bob}
    Candidates = {}
    Apex = 1
    Units <- MCShortUnits
    MaxMintFee = 0
    Arts <- MCArts
    BlankArt = 0
    MintArt <- MCMintArt
    ComposeArt <- MCComposeArt
    SplitArt <- MCSplitArt
    MaxMinted = 4
    MaxForced = 0
SPECIFICATION Spec
CHECK_DEADLOCK FALSE
INVARIANTS
    NoApprovalOnDeadId
PROPERTIES
    OnlyTheAuthorisedDisturb
