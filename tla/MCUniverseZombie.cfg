SPECIFICATION PartsSpec
CONSTANTS
    FITS <- MCFits
    SHIP_FIT = "fighter"
    BASE_FIT = "base"
    NPC_FIT = "guardian"
    BEACONS <- MCBeacons
    ECON <- MCEcon
    NAV <- MCNav
    AGGRO_RANGE = 6
    FLEE_PCT = 15
    RETREAT_PCT = 15
    RETREAT_STEPS = 2
    LOOT_PCT = 50
    SUB_STEPS = 2
    MIN_HIT_RADIUS = 1
    GARBAGE_POS = 99
    Scenes <- MCScenes
    MAX_NET_ID = 13
    Components = {"position", "health"}
    MAX_INDEX = 3
    GENERATIONS = 2
    MAX_CREATES = 4
INVARIANT NobodyFliesDead
CHECK_DEADLOCK FALSE
