CONSTANTS
    Idle = idle
    Tasks = {t1, t2, t3}
    Mms = {m1, m2}
    Descs = {d1, d2}
    Files = {f1, f2}
    MAX_OPEN_FILES = 1
    MaxUsers = 4
SPECIFICATION ResourcesSpec
INVARIANTS ResourcesTyped SpaceOutlivesUsers  
SYMMETRY Symmetry
