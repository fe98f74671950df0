SPECIFICATION Spec
CONSTANTS
    Threads = {"host", "worker"}
    Conns = {"c1", "c2", "c3", "c4"}
    POOL_MIN = 1
    POOL_MAX = 2
    MAX_BREAKS = 1
INVARIANT DroppedIsReplaced
CHECK_DEADLOCK FALSE
