\* The pages of one call at a time, their wallets and their watchers.
SPECIFICATION PagesSpec
CONSTANTS
    x = x
    y = y
    z = z
    c1 = c1
    c2 = c2
    None = None
    Pages <- SomePages
    Offers <- SomeOffers
    task1 = task1
    Chains = {x, y, z}
    Watches = {"w1", "w2", "w3"}
    Syncing = {"w1", "w2"}
CHECK_DEADLOCK FALSE
INVARIANTS
    HeardRight
    NoGhosts
    FollowsConnections
    OfferedOnce
    OneWatcher
    FollowsChain
PROPERTIES
    ChainSurvivesReload
