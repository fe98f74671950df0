SPECIFICATION MCSpec
CONSTANTS
    Threads = {"host", "worker"}
    Conns = {"c1", "c2", "c3", "c4"}
    POOL_MIN = 1
    POOL_MAX = 2
    MAX_BREAKS = 1
    Usernames = {"ann"}
    Ips = {"ip1"}
    Costs = {1, 2}
    maxLoginFailures = 2
    lockoutSeconds = 2
    sessionTtlSeconds = 2
    IP_WINDOW_SECONDS = 2
    IP_WINDOW_MAX_ATTEMPTS = 2
    MAX_UNIX = 5
    MAX_TOKENS = 2
    Versions = {1, 2}
    MAX_SIM_TICK = 3
    MAX_ROWS = 2
    MAX_BOOTS = 2
    OutboxAccounts = {"a", "b"}
    Events <- MCEvents
    MAX_LOG = 3
    MAX_ODBC_ROWS = 3
    MAX_CONNECTS = 3
    CHUNK = 2
    MAX_CELL = 5
    Entities = {"base1", "ship1"}
    CAPACITY = 3
    MAX_TIME = 6
    NetIds = {4, 5, 6}
    Ticks <- MCTicks
    Values = {10}
    MAX_EVENTS = 3
    Numbers <- MCNumbers
    NodeWords <- MCNodeWords
    U16 = 16
    Layouts <- MCLayouts
    DefaultCatalog <- MCDefaultCatalog
    Blobs <- MCBlobs
    FALLBACK = "basic"
    MAX_UNITS = 2
    MAX_RELOADS = 2
INVARIANTS
    PoolInv
    AccountsInv
    
    OutboxInv
    
    
    
    LayoutInv
    CatalogInv
CHECK_DEADLOCK FALSE
