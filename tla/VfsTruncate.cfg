CONSTANTS
    RAMFS_MAX_FILES = 3
    RAMFS_MAX_FILE_SIZE = 3
    Names = {"a", "b", "..", "dev", "tty", "vda"}
    Bytes = {0, 1, 2}
    MAX_DEV_NODES = 2
    DevNames = {"tty", "vda"}
    Inodes = {1, 2, 3}
    MAX_MOUNT_POINTS = 2
    Handles = {h1, h2}
    Clients <- MCClients
    Buffers <- MCBuffers
    Counts = {1}
    DEV_MODE = 1
SPECIFICATION Spec
PROPERTY TruncateEmpties
