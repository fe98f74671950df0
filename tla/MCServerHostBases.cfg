SPECIFICATION Spec
CONSTANTS
    Endpoints = {"e1", "e2"}
    Accounts = {1, 2}
    Tokens = {1, 2, 3}
    MAX_TOKEN = 3
    MAX_NET_ID = 6
    MAX_GENERATION = 10
INVARIANT OneBasePerAccount
CHECK_DEADLOCK FALSE
