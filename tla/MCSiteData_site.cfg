CONSTANTS
    Owners = {wallet, other}
    FirstOwner = wallet
    Loads = {l1, l2}
    FirstMinted = 2
    MaxMinted = 4
    MaxBlocks = 3
    MaxLoads = 3
    MaxLost = 1
    MaxLag = 1
SPECIFICATION SiteSpec
CONSTRAINT LoadsLeft
SYMMETRY LoadSymmetry
CHECK_DEADLOCK FALSE
PROPERTIES
    GalleryTrue
    GalleryComplete
    OwnActionShows
