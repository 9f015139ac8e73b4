CONSTANTS
    FANOUT = 3
    PhysPages = {1, 2, 3, 4, 5}
    Prots = {"RW", "RO"}
    VMALLOC_START = 9
    VMALLOC_END = 18
    MAX_VMALLOC_AREAS = 3
    BootGigapages = {0}
    AllocSizes = {2}
    MapArrays <- MCMapArrays
    IoRanges <- MCIoRanges
    Regions <- MCRegions
SPECIFICATION Spec
INVARIANTS TypeOK TablesApart FindsEveryGap
PROPERTY ImplementsAddressSpace
