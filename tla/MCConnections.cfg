SPECIFICATION ConnectionsSpec
CONSTANTS
    Endpoints = {"e1", "e2"}
    Accounts = {1, 2}
    Tokens = {1, 2, 3}
    MAX_TOKEN = 3
    MAX_NET_ID = 6
    MAX_GENERATION = 10
    Faults = {"loss", "dup", "reorder"}
    MAX_FAULTS = 2
    CAPACITY = 2
    MAX_ATTEMPTS = 2
    MAX_FORGETS = 1
    AuthModes = {TRUE, FALSE}
    AccountStates = {"none", "other"}
    Compatibility = {TRUE, FALSE}
    STORE_REFUSES = TRUE
INVARIANTS
    HandlesNeverStale
    HostInv
    SessionAgrees
PROPERTIES
    EventuallyConnected
CHECK_DEADLOCK FALSE
