SPECIFICATION PartsSpec
CONSTANTS
    NetIds = {1, 2}
    Base = 1
    Forms <- MCForms
    SENSOR_CELLS = 0
    TravelDests = {}
    BUDGETS = {81}
    VISIBLE_CAP = 256
    MAX_PENDING = 64
    MAX_TICK = 5
    MAX_LOST = 0
    Relevance <- MCRelevance
    STALE = 2
    ROOM = 1
    MAX_AGE = 18
INVARIANT Convergence
CHECK_DEADLOCK FALSE
