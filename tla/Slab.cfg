SPECIFICATION Spec
CONSTANTS
    PAGE_SIZE = 4096
    HEADER = 40
    KmallocSizes = {1024, 2048, 4096}
    Requests = {1024, 1025, 4000}
    Frames = {1, 2, 3}
INVARIANTS TypeOK ObjectsApart  
