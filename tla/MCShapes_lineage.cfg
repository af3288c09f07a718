CONSTANTS
    alice = alice
    bob = bob
    NoOne = NoOne
    Accounts = {alice}
    Deployer = alice
    Operators = {}
    Candidates = {}
    Apex = 2
    Units <- MCUnits
    MaxMintFee = 0
    Arts = {0}
    BlankArt = 0
    MintArt <- MCMintArt
    ComposeArt <- MCComposeArt
    SplitArt <- MCSplitArt
    MaxMinted = 6
    MaxForced = 0
SPECIFICATION Spec
CHECK_DEADLOCK FALSE
INVARIANTS
    SplitProvenance
    RepeatedInputsCaught
