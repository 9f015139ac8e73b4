------------------------------- MODULE Ramfs -------------------------------
(***************************************************************************)
(* fs/ramfs.c: the static tables of the RAM file system, as one record r.  *)
(* Entry 0 is the root directory; entries are handed out in order and are  *)
(* never given back.  The i-th inode belongs to the i-th file, so an entry *)
(* number stands for the file, for its inode and for inode->fs_private;    *)
(* its inode number is i + 1.  The mode bits are left out: nothing reads   *)
(* them, so a file and a directory are the same thing here as in the code. *)
(***************************************************************************)
EXTENDS Integers, Sequences, FiniteSets

CONSTANTS RAMFS_MAX_FILES,      \* entries of the table
          RAMFS_MAX_FILE_SIZE,  \* bytes of a file's static buffer
          Names,                \* file names
          Bytes                 \* what a byte of a file can hold

ASSUME RamfsAssumption ==
    /\ RAMFS_MAX_FILES \in Nat \ {0} /\ RAMFS_MAX_FILE_SIZE \in Nat \ {0}
    /\ 0 \in Bytes

Entries == 0 .. RAMFS_MAX_FILES - 1
None    == -1                   \* a NULL pointer to an entry
NoName  == ""                   \* the empty string
Buffer  == [0 .. RAMFS_MAX_FILE_SIZE - 1 -> Bytes]

(* ramfs_state.  data says whether rf->data points to the file's buffer,   *)
(* in which case capacity is RAMFS_MAX_FILE_SIZE, and else 0; size is      *)
(* rf->size and isize the size field of the inode.                         *)
RamfsType ==
    [file_count : 0 .. RAMFS_MAX_FILES,
     root_inode : {None, 0},
     name       : [Entries -> Names \cup {"/", NoName}],
     parent     : [Entries -> Entries \cup {None}],
     size       : [Entries -> 0 .. RAMFS_MAX_FILE_SIZE],
     isize      : [Entries -> 0 .. RAMFS_MAX_FILE_SIZE],
     data       : [Entries -> BOOLEAN],
     buffers    : [Entries -> Buffer]]

ramfs_state_at_boot ==
    [file_count |-> 0, root_inode |-> None,
     name    |-> [i \in Entries |-> "/"],
     parent  |-> [i \in Entries |-> None],
     size    |-> [i \in Entries |-> 0],
     isize   |-> [i \in Entries |-> 0],
     data    |-> [i \in Entries |-> FALSE],
     buffers |-> [i \in Entries |-> [k \in 0 .. RAMFS_MAX_FILE_SIZE - 1 |-> 0]]]

(* An entry filled in afresh by ramfs_mount or ramfs_mkdir; its buffer     *)
(* keeps the bytes of the file that used the entry before.                 *)
fresh_entry(r, i, name, parent) ==
    [r EXCEPT !.file_count = i + 1, !.name[i] = name, !.parent[i] = parent,
              !.size[i] = 0, !.isize[i] = 0, !.data[i] = FALSE]

ramfs_mount(r) ==
    [fresh_entry(r, 0, "/", None) EXCEPT !.root_inode = 0]

ramfs_read_root(r) == r.root_inode

ramfs_find_file(r, dir, name) ==
    LET found == {i \in 0 .. r.file_count - 1 : r.parent[i] = dir /\ r.name[i] = name}
    IN  IF found = {} THEN None ELSE CHOOSE i \in found : \A j \in found : i <= j

ramfs_lookup(r, dir, name) == ramfs_find_file(r, dir, name)

(* What ramfs_read copies out, from position pos.                          *)
ramfs_read(r, i, pos, count) ==
    LET to_read == IF pos + count > r.size[i] THEN r.size[i] - pos ELSE count IN
    IF ~r.data[i] \/ pos >= r.size[i] THEN << >>
    ELSE [k \in 1 .. to_read |-> r.buffers[i][pos + k - 1]]

ramfs_write_fails(r, i, pos, buf) == pos + Len(buf) > RAMFS_MAX_FILE_SIZE

ramfs_write_sets_size(r, i, pos, buf) ==
    LET end == pos + Len(buf) IN
    [r EXCEPT !.data[i] = @ \/ end > 0,
              !.buffers[i] = [k \in DOMAIN @ |->
                                 IF k \in pos .. end - 1 THEN buf[k - pos + 1] ELSE @[k]],
              !.size[i] = end, !.isize[i] = end]

ramfs_write(r, i, pos, buf) ==
    LET end == pos + Len(buf) IN
    [r EXCEPT !.data[i] = @ \/ end > 0,
              !.buffers[i] = [k \in DOMAIN @ |->
                                 IF k \in pos .. end - 1 THEN buf[k - pos + 1] ELSE @[k]],
              !.size[i]  = IF end > @ THEN end ELSE @,
              !.isize[i] = IF end > r.size[i] THEN end ELSE @]

ramfs_mkdir_when_full(r, dir, name) == ramfs_find_file(r, dir, name) # None

ramfs_mkdir_twice(r, dir, name) == r.file_count >= RAMFS_MAX_FILES

ramfs_mkdir_fails(r, dir, name) ==
    r.file_count >= RAMFS_MAX_FILES \/ ramfs_find_file(r, dir, name) # None

ramfs_mkdir(r, dir, name) == fresh_entry(r, r.file_count, name, dir)

(* The entries ramfs_readdir lists: those whose parent is dir, in the      *)
(* order of the table, at most count of them.                              *)
ramfs_readdir_any_parent(r, dir, count) == {i \in 1 .. r.file_count - 1 : i < count}

ramfs_readdir(r, dir, count) ==
    {i \in 0 .. r.file_count - 1 :
        /\ r.parent[i] = dir
        /\ Cardinality({j \in 0 .. i - 1 : r.parent[j] = dir}) < count}
=============================================================================
