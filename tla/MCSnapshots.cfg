SPECIFICATION PartsSpec
CONSTANTS
    NetIds = {1, 2}
    Base = 1
    Forms <- MCForms
    SENSOR_CELLS = 0
    TravelDests = {0}
    BUDGETS = {48, 81}
    VISIBLE_CAP = 256
    MAX_PENDING = 2
    MAX_TICK = 4
    MAX_LOST = 1
    Relevance <- MCRelevance
    STALE = 2
    ROOM = 1
    MAX_AGE = 18
INVARIANTS
    ReplicationInv
    NothingForgottenWithRoom
    ConvergenceInLockstep
    KnownNotStarved
CHECK_DEADLOCK FALSE
