\* As shipped: VMALLOC_START lies in a gigapage that pgtable_init maps.
CONSTANTS
    FANOUT = 3
    PhysPages = {1, 2, 3, 4, 5}
    Prots = {"RW", "RO"}
    VMALLOC_START = 9
    VMALLOC_END = 18
    MAX_VMALLOC_AREAS = 3
    BootGigapages = {0, 1}
    AllocSizes = {2}
    MapArrays <- MCMapArrays
    IoRanges <- MCIoRanges
    Regions <- MCRegions
SPECIFICATION Spec
PROPERTY AreasTouchOnlyTheirPages
