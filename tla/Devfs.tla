------------------------------- MODULE Devfs -------------------------------
(***************************************************************************)
(* fs/devfs.c: the device nodes and their inodes, as one record d.  Inodes *)
(* come from kmalloc; an identifier of Inodes stands for an address, which *)
(* a later kmalloc may hand out again.                                     *)
(***************************************************************************)
EXTENDS Integers, Sequences

CONSTANTS MAX_DEV_NODES, DevNames, Inodes

ASSUME DevfsAssumption == MAX_DEV_NODES \in Nat /\ 0 \notin Inodes

NoInode == 0

(* devfs_state: nodes in table order, the root inode, the inodes kmalloc   *)
(* has handed out, and of an inode the node fs_private points to (0: NULL) *)
(* and its parent.                                                         *)
DevfsType ==
    [nodes      : Seq([name : DevNames, inode : Inodes]),
     root_inode : Inodes \cup {NoInode},
     live       : SUBSET Inodes,
     fs_private : [Inodes -> 0 .. MAX_DEV_NODES],
     parent     : [Inodes -> Inodes \cup {NoInode}]]

devfs_state_at_boot ==
    [nodes |-> << >>, root_inode |-> NoInode, live |-> {},
     fs_private |-> [n \in Inodes |-> 0], parent |-> [n \in Inodes |-> NoInode]]

(* Nothing the freed inode held is relied on any more.                     *)
kfree_inode(d, n) ==
    IF n = NoInode THEN d
    ELSE [d EXCEPT !.live = @ \ {n}, !.fs_private[n] = 0, !.parent[n] = NoInode]

(* The first node of that name, 0 when there is none.                      *)
devfs_find_node(d, name) ==
    LET found == {i \in DOMAIN d.nodes : d.nodes[i].name = name}
    IN  IF found = {} THEN 0 ELSE CHOOSE i \in found : \A j \in found : i <= j

(* A table without its i-th entry: the ones behind it move down.           *)
shift_down(table, i) ==
    [k \in 1 .. Len(table) - 1 |-> IF k < i THEN table[k] ELSE table[k + 1]]

(* devfs_mount forgets the nodes first; n is the new root inode, NoInode   *)
(* when kmalloc fails.                                                     *)
devfs_mount(d, n) ==
    LET e == [d EXCEPT !.nodes = << >>, !.root_inode = n] IN
    IF n = NoInode THEN e
    ELSE [e EXCEPT !.live = @ \cup {n}, !.fs_private[n] = 0, !.parent[n] = NoInode]

devfs_unmount(d) == [kfree_inode(d, d.root_inode) EXCEPT !.root_inode = NoInode]

devfs_read_root(d) == d.root_inode

devfs_lookup(d, name) ==
    LET i == devfs_find_node(d, name) IN
    IF i = 0 THEN NoInode ELSE d.nodes[i].inode

devfs_register_fails(d, name) ==
    Len(d.nodes) >= MAX_DEV_NODES \/ devfs_find_node(d, name) # 0

devfs_register_device(d, name, n) ==
    [d EXCEPT !.nodes = Append(@, [name |-> name, inode |-> n]),
              !.live = @ \cup {n},
              !.fs_private[n] = Len(d.nodes) + 1, !.parent[n] = d.root_inode]

(* Frees the inode of the entry at the node's index after the shift.       *)
devfs_unregister_after_shift(d, name) ==
    LET i  == devfs_find_node(d, name)
        ns == shift_down(d.nodes, i)
    IN  [kfree_inode(d, IF i \in DOMAIN ns THEN ns[i].inode ELSE NoInode) EXCEPT !.nodes = ns]

(* The nodes behind the removed one move down; the fs_private of their     *)
(* inodes is left as it was.                                               *)
devfs_unregister_device(d, name) ==
    LET i == devfs_find_node(d, name) IN
    [kfree_inode(d, d.nodes[i].inode) EXCEPT !.nodes = shift_down(@, i)]

devfs_readdir(d, count) ==
    {d.nodes[i].name : i \in {k \in DOMAIN d.nodes : k <= count}}
=============================================================================
