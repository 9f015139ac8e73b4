CONSTANTS
    Idle = idle
    Tasks = {t1, t2}
    Mms = {m1}
    Descs = {d1, d2}
    Files = {f1, f2}
    MAX_OPEN_FILES = 2
    MaxUsers = 2
SPECIFICATION ResourcesSpec
INVARIANT DescriptorsLive
