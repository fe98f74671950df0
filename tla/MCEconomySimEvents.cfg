SPECIFICATION FairSpec
CONSTANTS
    Accounts = {1, 2}
    Mutations <- SimMutations
    MAX_ENQUEUE = 1
    MAX_CRASHES = 0
PROPERTY EventuallyCommitted
