SPECIFICATION Spec
CONSTANTS
    MAX_ORDER = 2
    START = 3
    FIRST = 5
    END = 14
    Size <- MCSize
INVARIANTS TypeOK BlocksDisjoint NoPageLost MergesListedBlock
PROPERTY ImplementsPool
