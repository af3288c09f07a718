CONSTANTS
    Owners = {wallet, other}
    FirstOwner = wallet
    Loads = {l1}
    FirstMinted = 2
    MaxMinted = 3
    MaxBlocks = 3
    MaxLoads = 2
    MaxLost = 0
    MaxLag = 1
SPECIFICATION SiteSpec
CHECK_DEADLOCK FALSE
PROPERTIES
    ToldIdsShow
