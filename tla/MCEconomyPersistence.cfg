SPECIFICATION FairSpec
CONSTANTS
    Accounts = {1, 2}
    Mutations <- SafetyMutations
    MAX_ENQUEUE = 3
    MAX_CRASHES = 1
INVARIANTS
    EconomyInv
PROPERTIES
    ImplementsLedger
    EventuallyCommitted
