SPECIFICATION TransportSpec
CONSTANTS
    WINDOW_BITS = 6
    WORD_BITS = 2
    WORDS = 3
    MAX_PACKET = 7
    SEQ_SPACE = 16
    ACK_BITS = 2
    KEEP = 4
    SPAN = 3
    LIFETIME = 2
    MAX_MESSAGES = 18
    MAX_WIRE = 2
    Ports = {1, 2}
    REORDER_DEPTHS = {0, 1}
    MAX_POSTS = 2
    MAX_OPENS = 2
    Workers = {"w1", "w2"}
    Ops = {"o1", "o2"}
    MAX_DATAGRAMS = 2
    MAX_SOCKET_ERRORS = 1
    MAX_LOOPS = 2
    MAX_SIM_EVENTS = 2
    BYTE = 16
    W16 = 6
    W32 = 8
    QBITS = 4
    SECTOR_SIZE = 4
    FRACTION = 3
    STEP = 3
    MAX_CATCH_UP = 2
    ONE = 20
    FLOOR = 2
    EASE_DOWN = 2
    EASE_UP = 2
    SNAP = 1
    FREQUENCY = 4
    MAX_DELTA = 2
    Elapsed = {1, 2, 4, 9}
    TickCosts = {1, 4, 40}
    MAX_REAL = 14
INVARIANTS
    DeliveredAtMostOnce
    WindowExact
    
    
    
    WireFaithful
PROPERTIES
    FreshIsAccepted
    ClockKeepsTime
CHECK_DEADLOCK FALSE
