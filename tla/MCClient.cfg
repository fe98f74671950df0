SPECIFICATION ClientSpec
CONSTANTS
    PanelWins = {"Screen"}
    OPTIONS = 3
    DEFAULT = 1
    StoredValues <- MCStored
    Entities <- MCEntities
    PLAYER = 1
    MAX_FRAMES = 5
    Places <- MCPlaces
    Views <- MCViews
    MAX_ROUNDS = 6
    FRAME_COUNT = 3
    Sizes = {0, 1, 2}
    MAX_FENCE = 8
    MAX_RESIZES = 2
    MAX_VERTS = 6
    MAX_TEXTURES = 2
    Textures = {"font", "grey", "red"}
    MAX_DRAWS = 4
    MAX_EMIT_PARTICLES = 3
    Lives = {1, 2}
    MAX_EMITTERS = 3
    MAX_UPDATES = 4
    MAX_ENTITIES = 4
    MAX_SHAPES = 2
    ShapeIds = {1, 2, 3}
    MAX_GATHERED = 5
    SANE = 50
    MATERIAL = 1
    SUBMESH = 1
    VERTEX = 2
    SKIN = 1
    EXTENTS = 2
    BONE = 1
    KEYFRAME = 1
    TEXTURES = 1
    W32 = 64
    MAX_DIM = 8
    HEADER = 8
    DXT10 = 2
    AssetInputs <- MCAssets
    WaveFormats = {"mono", "stereo"}
    VOICE_GENERATIONS = 4
    MAX_PLAYS = 4
    MAX_SLOTS = 2
    MAX_CLIPS = 2
    MAX_STARTS = 1
    BASE_DELAY = 1
    MAX_DELAY = 8
    MULTIPLIER = 2
    CONN_LOST = 3
    HANDSHAKE_TIMEOUT = 2
    IDLE_TIMEOUT = 3
    MAX_ATTEMPT = 4
    MAX_OUTAGES = 3
INVARIANTS
    
    RingInv
    DrawListsExact
    
    AudioInv
PROPERTIES
    AppEndsWell
    ReconnectWorks
CHECK_DEADLOCK FALSE
