-------------------------------- MODULE Vfs --------------------------------
(***************************************************************************)
(* fs/vfs.c over ramfs and devfs: mount table, path lookup, open files.    *)
(*                                                                         *)
(* A path is the sequence of its parts, the leading slash being the part   *)
(* "/": <<"/", "a">> is /a, <<"/">> the root and << >> the empty string.   *)
(* No name is an initial part of another one, so that comparing parts and  *)
(* comparing characters agree.  An inode pointer is a record of the file   *)
(* system and, for ramfs, the entry or, for devfs, the address.            *)
(***************************************************************************)
EXTENDS Ramfs, Devfs

CONSTANTS MAX_MOUNT_POINTS,
          Handles,        \* addresses of file_t
          Clients,        \* what the callers of one boot use: the paths they
                          \* mkdir and open, the sets of flags they open with,
                          \* the <<path, fstype>> pairs they mount and the
                          \* devices they register
          Buffers,        \* what callers write
          Counts,         \* how much callers read
          DEV_MODE        \* the mode bits devices are registered with

VARIABLES mount_table, ramfs, devfs,
          file,           \* file[h]: the file_t at h, or Free
          got,            \* the bytes the last vfs_read returned
          client          \* the callers of this boot

vars == <<mount_table, ramfs, devfs, file, got, client>>

NullInode == [fs |-> "none", id |-> 0]
InRam(i) == IF i = None THEN NullInode ELSE [fs |-> "ramfs", id |-> i]
InDev(n) == IF n = NoInode THEN NullInode ELSE [fs |-> "devfs", id |-> n]
InodePtrs == {NullInode} \cup {InRam(i) : i \in Entries} \cup {InDev(n) : n \in Inodes}
Free    == [inode |-> NullInode, pos |-> 0]

FileSystems == {"ramfs", "devfs"}
Paths == {p \in Seq(Names \cup {"/"}) : \A k \in DOMAIN p : p[k] = "/" <=> k = 1}

(* File systems are mounted on directories of the root, as /dev is: were   *)
(* ramfs mounted below devfs, creating the mount point once more would     *)
(* hand ramfs_mkdir an inode of devfs.                                     *)
ASSUME VfsAssumption ==
    /\ MAX_MOUNT_POINTS \in Nat \ {0} /\ DEV_MODE \in Nat /\ Counts \subseteq Nat
    /\ Buffers \subseteq Seq(Bytes)
    /\ DevNames \subseteq Names /\ NoName \notin Names \cup {"/"} /\ "/" \notin Names
    /\ \A c \in Clients :
          /\ c.mkdirs \subseteq Paths /\ c.opens \subseteq Paths
          /\ c.devices \subseteq DevNames
          /\ c.mounts \subseteq {p \in Paths : Len(p) <= 2} \X FileSystems

TypeOK ==
    /\ mount_table \in Seq([path : Paths, fs : FileSystems, root : InodePtrs])
    /\ Len(mount_table) <= MAX_MOUNT_POINTS
    /\ ramfs \in RamfsType /\ devfs \in DevfsType
    /\ file \in [Handles -> [inode : InodePtrs, pos : Nat]]
    /\ got \in Seq(Bytes)

-----------------------------------------------------------------------------
(* Mount table and paths.                                                  *)

starts(prefix, path) ==
    Len(prefix) <= Len(path) /\ \A k \in 1 .. Len(prefix) : prefix[k] = path[k]

(* The index of the mount whose path is the longest initial part of path,  *)
(* the first one of those; 0 when there is none.                           *)
vfs_find_mount(path) ==
    LET match == {i \in DOMAIN mount_table :
                     mount_table[i].path # << >> /\ starts(mount_table[i].path, path)}
        longest == {i \in match : \A j \in match :
                       Len(mount_table[j].path) <= Len(mount_table[i].path)}
    IN  IF match = {} THEN 0 ELSE CHOOSE i \in longest : \A j \in longest : i <= j

inode_parent(ino) ==
    IF ino.fs = "ramfs" THEN InRam(ramfs.parent[ino.id])
    ELSE InDev(devfs.parent[ino.id])

(* One turn of the loop over the components.                               *)
lookup_component(fs, ino, c) ==
    IF ino = NullInode \/ c = "." THEN ino
    ELSE IF c = ".." THEN IF inode_parent(ino) = NullInode THEN ino ELSE inode_parent(ino)
    ELSE IF fs = "ramfs" THEN InRam(ramfs_lookup(ramfs, ino.id, c))
    ELSE InDev(devfs_lookup(devfs, c))

(* The loop over the components of path behind the first n.                *)
walk(fs, root, path, n) ==
    LET inode[k \in n .. Len(path)] ==
            IF k = n THEN root ELSE lookup_component(fs, inode[k - 1], path[k])
    IN  inode[Len(path)]

vfs_lookup_path(path) ==
    LET m == vfs_find_mount(path) IN
    IF m = 0 THEN NullInode
    ELSE walk(mount_table[m].fs, mount_table[m].root, path, Len(mount_table[m].path))

(* Where vfs_open and vfs_mkdir create path: the directory's inode.  With  *)
(* no slash but the first the parent is the root of the mount.             *)
parent_inode(path) ==
    IF Len(path) <= 2 THEN mount_table[vfs_find_mount(path)].root
    ELSE vfs_lookup_path(SubSeq(path, 1, Len(path) - 1))

(* The name it gets there, empty for the root.                             *)
file_name(path) == IF path = <<"/">> THEN NoName ELSE path[Len(path)]

(* The names vfs_readdir returns, at most count of them; none on failure.  *)
vfs_readdir(path, count) ==
    LET ino == vfs_lookup_path(path) IN
    IF ino = NullInode THEN {}
    ELSE IF ino.fs = "ramfs" THEN {ramfs.name[i] : i \in ramfs_readdir(ramfs, ino.id, count)}
    ELSE devfs_readdir(devfs, count)
-----------------------------------------------------------------------------
(* drivers_init mounts the root; mounting is what the shell offers after   *)
(* that, any number of times and on any path.                              *)
Init ==
    /\ ramfs = ramfs_mount(ramfs_state_at_boot)
    /\ devfs = devfs_state_at_boot
    /\ mount_table = <<[path |-> <<"/">>, fs |-> "ramfs", root |-> InRam(0)]>>
    /\ file = [h \in Handles |-> Free]
    /\ got = << >>
    /\ client \in Clients

(* kmalloc: a free address (one is as good as another), or a failure.      *)
kmalloc_inode ==
    {n \in Inodes \ devfs.live : \A m \in Inodes \ devfs.live : n <= m} \cup {NoInode}

vfs_mount(path, fs) ==
    /\ Len(mount_table) < MAX_MOUNT_POINTS
    /\ \/ /\ fs = "ramfs"
          /\ ramfs' = ramfs_mount(ramfs) /\ UNCHANGED devfs
       \/ /\ fs = "devfs"
          /\ \E n \in kmalloc_inode : devfs' = devfs_mount(devfs, n)
          /\ UNCHANGED ramfs
    /\ LET root == IF fs = "ramfs" THEN InRam(ramfs_read_root(ramfs'))
                   ELSE InDev(devfs_read_root(devfs'))
       IN  mount_table' = IF root = NullInode THEN mount_table
                          ELSE Append(mount_table, [path |-> path, fs |-> fs, root |-> root])
    /\ got' = << >> /\ UNCHANGED <<file, client>>

(* Only devfs is unmounted here: ramfs_unmount hands static memory to      *)
(* kfree.                                                                  *)
vfs_unmount(path) ==
    \E i \in DOMAIN mount_table :
        /\ mount_table[i].path = path /\ \A j \in 1 .. i - 1 : mount_table[j].path # path
        /\ mount_table[i].fs = "devfs"
        /\ devfs' = devfs_unmount(devfs)
        /\ mount_table' = shift_down(mount_table, i)
        /\ got' = << >> /\ UNCHANGED <<ramfs, file, client>>

RegisterDevice(name) ==
    /\ ~devfs_register_fails(devfs, name)
    /\ \E n \in kmalloc_inode \ {NoInode} : devfs' = devfs_register_device(devfs, name, n)
    /\ got' = << >> /\ UNCHANGED <<mount_table, ramfs, file, client>>

UnregisterDevice(name) ==
    /\ devfs_find_node(devfs, name) # 0
    /\ devfs' = devfs_unregister_device(devfs, name)
    /\ got' = << >> /\ UNCHANGED <<mount_table, ramfs, file, client>>
-----------------------------------------------------------------------------
(* Whether the path can be created: only ramfs has a mkdir operation.      *)
can_create(path) ==
    LET m == vfs_find_mount(path) IN
    /\ m # 0 /\ mount_table[m].fs = "ramfs"
    /\ parent_inode(path) # NullInode
    /\ ~ramfs_mkdir_fails(ramfs, parent_inode(path).id, file_name(path))

vfs_mkdir(path) ==
    /\ ramfs' = IF can_create(path)
                THEN ramfs_mkdir(ramfs, parent_inode(path).id, file_name(path)) ELSE ramfs
    /\ got' = << >> /\ UNCHANGED <<mount_table, devfs, file, client>>

(* Truncating sets the size in the inode; vfs_find_mount("") finds no      *)
(* mount, so write_inode is not called and rf->size stays.                 *)
truncate(r, ino) == IF ino.fs = "ramfs" THEN [r EXCEPT !.isize[ino.id] = 0] ELSE r

open_position(r, ino, flags) ==
    IF "O_APPEND" \in flags /\ ino.fs = "ramfs" THEN r.isize[ino.id] ELSE 0

(* A file that is not there is created first; it stays when there is no    *)
(* memory for the file_t.  The path is looked up again after mkdir.        *)
vfs_open(path, flags) ==
    LET old     == vfs_lookup_path(path)
        creates == old = NullInode /\ "O_CREAT" \in flags /\ can_create(path)
        r       == IF creates
                   THEN ramfs_mkdir(ramfs, parent_inode(path).id, file_name(path)) ELSE ramfs
        ino     == IF creates THEN InRam(ramfs.file_count) ELSE old
    IN  /\ \/ /\ ramfs' = r /\ UNCHANGED file
           \/ /\ ino # NullInode
              /\ \E h \in Handles :
                    /\ file[h] = Free
                    /\ file' = [file EXCEPT ![h] =
                                  [inode |-> ino, pos |-> open_position(r, ino, flags)]]
              /\ ramfs' = IF "O_TRUNC" \in flags THEN truncate(r, ino) ELSE r
        /\ got' = << >> /\ UNCHANGED <<mount_table, devfs, client>>

vfs_close(h) ==
    /\ file[h] # Free
    /\ file' = [file EXCEPT ![h] = Free]
    /\ got' = << >> /\ UNCHANGED <<mount_table, ramfs, devfs, client>>

(* vfs_read and vfs_write always use the operations of the mount on "/".   *)
root_ops_is_ramfs ==
    LET m == vfs_find_mount(<<"/">>) IN m # 0 /\ mount_table[m].fs = "ramfs"

(* ramfs_read on a device: the fields of dev_node_t where ramfs_file_t has *)
(* data and size are the inode pointer and the mode bits, so up to         *)
(* DEV_MODE bytes that are no file's are returned.  A freed inode can hold *)
(* anything.                                                               *)
device_read(h, n) ==
    LET ino == file[h].inode.id
        end == IF file[h].pos >= DEV_MODE THEN file[h].pos
               ELSE IF file[h].pos + n > DEV_MODE THEN DEV_MODE ELSE file[h].pos + n
    IN  file' \in {[file EXCEPT ![h].pos = p] :
                     p \in IF ino \notin devfs.live THEN {file[h].pos, end}
                           ELSE IF devfs.fs_private[ino] = 0 THEN {file[h].pos} ELSE {end}}

vfs_read(h, n) ==
    /\ file[h] # Free
    /\ \/ /\ file[h].inode.fs = "ramfs" /\ root_ops_is_ramfs
          /\ got' = ramfs_read(ramfs, file[h].inode.id, file[h].pos, n)
          /\ file' = [file EXCEPT ![h].pos = @ + Len(got')]
       \/ /\ file[h].inode.fs = "devfs" /\ root_ops_is_ramfs
          /\ device_read(h, n) /\ got' = << >>
       \/ /\ ~root_ops_is_ramfs
          /\ got' = << >> /\ UNCHANGED file
    /\ UNCHANGED <<mount_table, ramfs, devfs, client>>

(* ramfs_write on a device fails: its node is no entry of the ramfs table. *)
vfs_write(h, buf) ==
    /\ file[h] # Free
    /\ IF /\ root_ops_is_ramfs /\ file[h].inode.fs = "ramfs"
          /\ ~ramfs_write_fails(ramfs, file[h].inode.id, file[h].pos, buf)
       THEN /\ ramfs' = ramfs_write(ramfs, file[h].inode.id, file[h].pos, buf)
            /\ file' = [file EXCEPT ![h].pos = @ + Len(buf)]
       ELSE UNCHANGED <<ramfs, file>>
    /\ got' = << >> /\ UNCHANGED <<mount_table, devfs, client>>

Next ==
    \/ \E f \in client.mounts : vfs_mount(f[1], f[2])
    \/ \E f \in client.mounts : vfs_unmount(f[1])
    \/ \E name \in client.devices : RegisterDevice(name)
    \/ \E name \in client.devices : UnregisterDevice(name)
    \/ \E path \in client.mkdirs : vfs_mkdir(path)
    \/ \E path \in client.opens, flags \in client.flags : vfs_open(path, flags)
    \/ \E h \in Handles : vfs_close(h)
    \/ \E h \in Handles, n \in Counts : vfs_read(h, n)
    \/ \E h \in Handles, buf \in Buffers : vfs_write(h, buf)

Spec == Init /\ [][Next]_vars
-----------------------------------------------------------------------------
(* The path of an entry of ramfs, from the names of its ancestors.         *)
path_of[i \in Entries] ==
    IF ramfs.parent[i] = None THEN <<"/">>
    ELSE Append(path_of[ramfs.parent[i]], ramfs.name[i])

(* Every file can be opened by its name: ramfs_mkdir never makes two files *)
(* of one name in a directory or a loop of directories, and looking up the *)
(* path of a file finds that file, except below a path where another file  *)
(* system is mounted, and except for the nameless file that mkdir / and    *)
(* the ones of name ".." that mkdir /.. make.                              *)
EveryFileReachable ==
    \A i \in 0 .. ramfs.file_count - 1 :
        /\ ramfs.parent[i] < i
        /\ LET p == path_of[i] IN
           vfs_find_mount(p) = 1 /\ ramfs.name[i] \notin {NoName, "..", "."}
           => vfs_lookup_path(p) = InRam(i)

(* A path never leads to a freed inode, whatever devices come and go, for  *)
(* the mount devfs_mount made last (a second mount of devfs takes the root *)
(* inode away from the first one, and devfs_unmount frees it).             *)
LooksUpLiveInodes ==
    \A path \in client.opens :
        LET m == vfs_find_mount(path) IN
        m # 0 /\ mount_table[m].root = InDev(devfs.root_inode) /\ devfs.root_inode # NoInode
        => vfs_lookup_path(path) = NullInode \/ vfs_lookup_path(path).id \in devfs.live

(* A listing of a directory names the files that can be opened in it and   *)
(* no others: vfs_readdir and vfs_lookup_path go through different tables  *)
(* and loops.  Names that mkdir / and mkdir /.. make, and names where a    *)
(* file system is mounted, are left aside; the caller has room for all of  *)
(* a table.                                                                *)
ListedIsFound ==
    \A dir \in client.opens \cup {<<"/">>} :
        LET here == {n \in Names \ {".", ".."} :
                        vfs_find_mount(Append(dir, n)) = vfs_find_mount(dir)}
        IN  vfs_readdir(dir, RAMFS_MAX_FILES + MAX_DEV_NODES) \cap here =
            {n \in here : vfs_lookup_path(Append(dir, n)) # NullInode}

(* Opening a file with O_TRUNC leaves an empty file behind.                *)
TruncateEmpties ==
    [][\A path \in client.opens, flags \in client.flags :
          "O_TRUNC" \in flags /\ vfs_open(path, flags)
          => \A h \in Handles :
                file'[h] # file[h] /\ file'[h].inode.fs = "ramfs"
                => ramfs'.size[file'[h].inode.id] = 0]_vars

(* A file as a sequence of bytes, and an open file as a place in one.      *)
FileContents(r) ==
    [i \in Entries |->
        IF r.data[i] THEN [k \in 1 .. r.size[i] |-> r.buffers[i][k - 1]] ELSE << >>]
OpenFile(x) ==
    [file |-> IF x = Free THEN -1 ELSE IF x.inode.fs = "ramfs" THEN x.inode.id ELSE -2,
     pos  |-> x.pos]
OpenFiles(f) == [h \in Handles |-> OpenFile(f[h])]

Store == INSTANCE FileStore WITH
    Files <- Entries, Root <- 0, MaxPos <- DEV_MODE, Reads <- Counts, Writes <- Buffers,
    exists <- 0 .. ramfs.file_count - 1, contents <- FileContents(ramfs),
    open <- OpenFiles(file), got <- got

(* Files behave as sequences of bytes: what one open file writes, another  *)
(* one reads, and no operation changes a file it does not name.            *)
ImplementsFileStore == Store!Spec
=============================================================================
