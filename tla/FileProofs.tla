----------------------------- MODULE FileProofs -----------------------------
(***************************************************************************)
(* Proofs about Vfs, for any number of files, names, mounts, devices and   *)
(* open files.                                                             *)
(*                                                                         *)
(* The invariant of Vfs is VfsInv.  That a path leads to the file that has *)
(* it needs that no two files of a directory have one name and that the    *)
(* parent of a file is a directory that can be named; that a lookup meets  *)
(* no freed inode needs that a node of devfs has a live inode whose parent *)
(* is the root or none; and that what one open file writes another one     *)
(* reads needs that a file without data has size 0, and that the size in   *)
(* an inode, where O_APPEND begins to write, is the size of the file or 0. *)
(***************************************************************************)
EXTENDS Vfs, Numbers, TLAPS

LEMMA Least ==
    ASSUME WellOrdered, NEW T \in SUBSET Nat, T # {}
    PROVE  \E x \in T : \A y \in T : x <= y
BY Zenon DEF WellOrdered
-----------------------------------------------------------------------------
(* The loop of vfs_lookup_path.                                            *)

(* at[k] is the inode after the k-th part of path.                         *)
Walks(at, fs, root, path, n) ==
    /\ at[n] = root
    /\ \A k \in n + 1 .. Len(path) : at[k] = lookup_component(fs, at[k - 1], path[k])

LEMMA WalkIs ==
    ASSUME WellOrdered, NEW S, NEW path \in Seq(S), NEW n \in 0 .. Len(path),
           NEW fs, NEW root
    PROVE  \E at : Walks(at, fs, root, path, n) /\ walk(fs, root, path, n) = at[Len(path)]
<1> DEFINE N == Len(path)
           step(k, x) == lookup_component(fs, x, path[k])
           Loop(f, m) == f = [k \in n .. m |-> IF k = n THEN root ELSE step(k, f[k - 1])]
           body(f) == [k \in n .. N |->
                          IF k = n THEN root ELSE lookup_component(fs, f[k - 1], path[k])]
<1>0. N \in Nat /\ n \in Nat /\ n <= N
  OBVIOUS
<1>1. \A m \in n .. N : \E f : Loop(f, m)
  <2> SUFFICES ASSUME \E m \in n .. N : ~\E f : Loop(f, m) PROVE FALSE
    OBVIOUS
  <2>0. PICK T : T = {m \in n .. N : ~\E f : Loop(f, m)}
    BY Zenon
  <2>1. T \in SUBSET Nat /\ T # {}
    <3>1. T \subseteq n .. N /\ T # {}
      BY <2>0, Zenon
    <3> QED  BY <1>0, <3>1
  <2>2. PICK m \in T : \A j \in T : m <= j
    BY <2>1, Least, Zenon
  <2>3. m \in n .. N /\ ~\E f : Loop(f, m)
    BY <2>0, Zenon
  <2>4. CASE m = n
    <3>1. Loop([k \in n .. n |-> root], n)
      BY <1>0
    <3> QED  BY <2>3, <2>4, <3>1, Zenon
  <2>5. CASE m # n
    <3>1. m - 1 \in n .. N /\ m - 1 \notin T
      BY <1>0, <2>2, <2>3, <2>5
    <3>2. PICK f : Loop(f, m - 1)
      BY <2>0, <3>1, Zenon
    <3> DEFINE g == [k \in n .. m |-> IF k = m THEN step(m, f[m - 1]) ELSE f[k]]
    <3>3. \A k \in n .. m - 1 : f[k] = IF k = n THEN root ELSE step(k, f[k - 1])
      BY <3>2, Zenon
    <3> HIDE DEF step
    <3>4. ASSUME NEW k \in n .. m PROVE g[k] = IF k = n THEN root ELSE step(k, g[k - 1])
      <4>1. CASE k = m
        BY <1>0, <2>3, <2>5, <4>1
      <4>2. CASE k # m
        BY <1>0, <2>3, <2>5, <3>3, <4>2
      <4> QED  BY <4>1, <4>2
    <3>5. Loop(g, m)
      BY <3>4
    <3> QED  BY <2>3, <3>5, Zenon
  <2> QED  BY <2>4, <2>5
<1>2. N \in n .. N
  BY <1>0
<1>3. PICK f : Loop(f, N)
  BY <1>1, <1>2, Zenon
<1> DEFINE h == CHOOSE x : x = body(x)
<1>4. h = body(h)
  <2>1. f = body(f)
    BY <1>3, Zenon
  <2> QED  BY <2>1, Zenon
<1>5. walk(fs, root, path, n) = h[N]
  BY DEF walk
<1> HIDE DEF h
<1>6. Walks(h, fs, root, path, n)
  <2>1. n \in n .. N /\ \A k \in n + 1 .. N : k \in n .. N /\ k # n
    BY <1>0
  <2>2. h[n] = body(h)[n] /\ \A k \in n + 1 .. N : h[k] = body(h)[k]
    BY <1>4, Zenon
  <2> QED  BY <2>1, <2>2, Zenon DEF Walks
<1> QED  BY <1>5, <1>6, Zenon

(* What holds at the root and is kept by every component holds of the      *)
(* inode the walk ends at.                                                 *)
LEMMA WalkStays ==
    ASSUME WellOrdered, NEW S, NEW path \in Seq(S), NEW n \in 0 .. Len(path),
           NEW fs, NEW root, NEW T, root \in T,
           \A k \in n + 1 .. Len(path) : \A x \in T : lookup_component(fs, x, path[k]) \in T
    PROVE  walk(fs, root, path, n) \in T
<1>0. Len(path) \in Nat /\ n \in Nat /\ n <= Len(path)
  OBVIOUS
<1>1. PICK at : Walks(at, fs, root, path, n) /\ walk(fs, root, path, n) = at[Len(path)]
  BY WalkIs, Zenon
<1> SUFFICES ASSUME \E k \in n .. Len(path) : at[k] \notin T PROVE FALSE
  BY <1>0, <1>1
<1>2. PICK B : B = {k \in n .. Len(path) : at[k] \notin T}
  BY Zenon
<1>3. B \in SUBSET Nat /\ B # {}
  BY <1>0, <1>2
<1>4. PICK k \in B : \A j \in B : k <= j
  BY <1>3, Least, Zenon
<1>5. k \in n .. Len(path) /\ at[k] \notin T
  BY <1>2, Zenon
<1>6. k # n
  BY <1>1, <1>5, Zenon DEF Walks
<1>7. k - 1 \in n .. Len(path) /\ k - 1 \notin B /\ k \in n + 1 .. Len(path)
  BY <1>0, <1>4, <1>5, <1>6
<1>8. at[k - 1] \in T
  BY <1>2, <1>7, Zenon
<1> QED  BY <1>1, <1>5, <1>7, <1>8, Zenon DEF Walks

(* One component more is one turn of the loop more.                        *)
LEMMA WalkOneMore ==
    ASSUME WellOrdered, NEW S, NEW path \in Seq(S), NEW n \in 0 .. Len(path), NEW c \in S,
           NEW fs, NEW root
    PROVE  walk(fs, root, Append(path, c), n) =
               lookup_component(fs, walk(fs, root, path, n), c)
<1>0. Len(path) \in Nat /\ n \in Nat /\ n <= Len(path)
  OBVIOUS
<1>1. PICK longer : longer = Append(path, c)
  BY Zenon
<1>2. /\ longer \in Seq(S) /\ Len(longer) = Len(path) + 1 /\ longer[Len(path) + 1] = c
      /\ \A k \in 1 .. Len(path) : longer[k] = path[k]
      /\ n \in 0 .. Len(longer)
  BY <1>0, <1>1
<1>3. PICK at : Walks(at, fs, root, path, n) /\ walk(fs, root, path, n) = at[Len(path)]
  BY WalkIs, Zenon
<1>4. PICK al : Walks(al, fs, root, longer, n) /\ walk(fs, root, longer, n) = al[Len(longer)]
  BY <1>2, WalkIs, Zenon
<1>5. \A k \in n .. Len(path) : at[k] = al[k]
  <2> SUFFICES ASSUME \E k \in n .. Len(path) : at[k] # al[k] PROVE FALSE
    OBVIOUS
  <2>1. PICK B : B = {k \in n .. Len(path) : at[k] # al[k]}
    BY Zenon
  <2>2. B \in SUBSET Nat /\ B # {}
    BY <1>0, <2>1
  <2>3. PICK k \in B : \A j \in B : k <= j
    BY <2>2, Least, Zenon
  <2>4. k \in n .. Len(path) /\ at[k] # al[k]
    BY <2>1, Zenon
  <2>5. k # n
    BY <1>3, <1>4, <2>4, Zenon DEF Walks
  <2>6. /\ k - 1 \in n .. Len(path) /\ k - 1 \notin B /\ k \in n + 1 .. Len(path)
        /\ k \in n + 1 .. Len(longer) /\ k \in 1 .. Len(path)
    BY <1>0, <1>2, <2>3, <2>4, <2>5
  <2>7. at[k - 1] = al[k - 1]
    BY <2>1, <2>6, Zenon
  <2>8. at[k] = lookup_component(fs, at[k - 1], path[k])
    BY <1>3, <2>6, Zenon DEF Walks
  <2>9. al[k] = lookup_component(fs, al[k - 1], longer[k])
    BY <1>4, <2>6, Zenon DEF Walks
  <2> QED  BY <1>2, <2>4, <2>6, <2>7, <2>8, <2>9, Zenon
<1>6. PICK k : k = Len(path) + 1
  BY Zenon
<1>7. /\ k \in n + 1 .. Len(longer) /\ k - 1 = Len(path) /\ k = Len(longer)
      /\ longer[k] = c /\ Len(path) \in n .. Len(path)
  BY <1>0, <1>2, <1>6
<1>8. al[k] = lookup_component(fs, al[k - 1], longer[k])
  BY <1>4, <1>7, Zenon DEF Walks
<1> QED  BY <1>1, <1>3, <1>4, <1>5, <1>7, <1>8, Zenon

(* A path that ends at the mount leads to the root of the mount.           *)
LEMMA WalkNowhere ==
    ASSUME WellOrdered, NEW S, NEW path \in Seq(S), NEW fs, NEW root
    PROVE  walk(fs, root, path, Len(path)) = root
<1>1. Len(path) \in 0 .. Len(path)
  OBVIOUS
<1>2. PICK at : /\ Walks(at, fs, root, path, Len(path))
                /\ walk(fs, root, path, Len(path)) = at[Len(path)]
  BY <1>1, WalkIs, Zenon
<1> QED  BY <1>2, Zenon DEF Walks
-----------------------------------------------------------------------------
(* The tables of ramfs.                                                    *)

(* Entry i can be named on a path.                                         *)
Plain(r, i) == i = 0 \/ r.name[i] \notin {NoName, ".", ".."}

(* Holds of every entry, in use or not.                                    *)
RamfsTables(r) ==
    /\ r \in RamfsType
    /\ \A i \in Entries : r.parent[i] < i
    /\ \A i \in Entries : (~r.data[i] => r.size[i] = 0) /\ r.isize[i] \in {0, r.size[i]}

RamfsInv(r) ==
    /\ RamfsTables(r)
    /\ r.file_count # 0 /\ r.root_inode = 0 /\ r.parent[0] = None
    /\ \A i \in 1 .. r.file_count - 1 : r.parent[i] # None /\ Plain(r, r.parent[i])
    /\ \A i, j \in 0 .. r.file_count - 1 :
          r.parent[i] = r.parent[j] /\ r.name[i] = r.name[j] => i = j

LEMMA EntriesBelow ==
    ASSUME NEW r \in RamfsType
    PROVE  /\ r.file_count \in Nat /\ r.file_count <= RAMFS_MAX_FILES
           /\ 0 .. r.file_count - 1 \subseteq Entries /\ 0 \in Entries
           /\ \A i \in Entries : i \in Nat /\ i < RAMFS_MAX_FILES
BY RamfsAssumption DEF RamfsType, Entries

LEMMA FindFile ==
    ASSUME WellOrdered, NEW r, r.file_count \in Nat, NEW dir, NEW name
    PROVE  \/ /\ ramfs_find_file(r, dir, name) = None
              /\ \A j \in 0 .. r.file_count - 1 : ~(r.parent[j] = dir /\ r.name[j] = name)
           \/ /\ ramfs_find_file(r, dir, name) \in 0 .. r.file_count - 1
              /\ r.parent[ramfs_find_file(r, dir, name)] = dir
              /\ r.name[ramfs_find_file(r, dir, name)] = name
<1>1. PICK found : found = {i \in 0 .. r.file_count - 1 : r.parent[i] = dir /\ r.name[i] = name}
  BY Zenon
<1>2. ramfs_find_file(r, dir, name) =
        IF found = {} THEN None ELSE CHOOSE i \in found : \A j \in found : i <= j
  BY <1>1 DEF ramfs_find_file
<1>3. CASE found = {}
  BY <1>1, <1>2, <1>3, Zenon
<1>4. CASE found # {}
  <2>1. found \in SUBSET Nat
    BY <1>1
  <2>2. \E i \in found : \A j \in found : i <= j
    BY <1>4, <2>1, Least, Zenon
  <2>3. ramfs_find_file(r, dir, name) \in found
    BY <1>2, <1>4, <2>2, Zenon
  <2> QED  BY <1>1, <2>3, Zenon
<1> QED  BY <1>3, <1>4

(* e is r with its i-th entry filled in.                                   *)
Fresh(e, r, i, name, parent) ==
    /\ RamfsTables(e) /\ e.file_count = i + 1 /\ e.root_inode = r.root_inode
    /\ e.name = [r.name EXCEPT ![i] = name] /\ e.parent = [r.parent EXCEPT ![i] = parent]
    /\ e.size = [r.size EXCEPT ![i] = 0] /\ e.isize = [r.isize EXCEPT ![i] = 0]
    /\ e.data = [r.data EXCEPT ![i] = FALSE] /\ e.buffers = r.buffers

LEMMA FreshEntry ==
    ASSUME NEW r, RamfsTables(r), NEW i \in Entries, NEW name \in Names \cup {"/", NoName},
           NEW parent \in Entries \cup {None}, parent < i
    PROVE  Fresh(fresh_entry(r, i, name, parent), r, i, name, parent)
<1>1. PICK e : e = fresh_entry(r, i, name, parent)
  BY Zenon
<1>2. i + 1 \in 0 .. RAMFS_MAX_FILES /\ 0 \in 0 .. RAMFS_MAX_FILE_SIZE
  BY RamfsAssumption DEF Entries
<1>3. e \in RamfsType
  BY <1>1, <1>2, Zenon DEF fresh_entry, RamfsTables, RamfsType
<1>4. /\ e.file_count = i + 1 /\ e.root_inode = r.root_inode
      /\ e.name = [r.name EXCEPT ![i] = name] /\ e.parent = [r.parent EXCEPT ![i] = parent]
      /\ e.size = [r.size EXCEPT ![i] = 0] /\ e.isize = [r.isize EXCEPT ![i] = 0]
      /\ e.data = [r.data EXCEPT ![i] = FALSE] /\ e.buffers = r.buffers
  BY <1>1 DEF fresh_entry, RamfsTables, RamfsType
<1>5. \A j \in Entries : e.parent[j] < j
  BY <1>4 DEF RamfsTables, RamfsType
<1>6. \A j \in Entries : (~e.data[j] => e.size[j] = 0) /\ e.isize[j] \in {0, e.size[j]}
  BY <1>4 DEF RamfsTables, RamfsType
<1>7. RamfsTables(e)
  BY <1>3, <1>5, <1>6 DEF RamfsTables
<1> QED  BY <1>1, <1>4, <1>7, Zenon DEF Fresh

LEMMA BootTables == RamfsTables(ramfs_state_at_boot)
<1>1. ramfs_state_at_boot \in RamfsType
  BY RamfsAssumption DEF ramfs_state_at_boot, RamfsType, Entries, None, Buffer
<1>2. \A i \in Entries : ramfs_state_at_boot.parent[i] < i
  BY RamfsAssumption DEF ramfs_state_at_boot, Entries, None
<1>3. \A i \in Entries : /\ ~ramfs_state_at_boot.data[i] => ramfs_state_at_boot.size[i] = 0
                         /\ ramfs_state_at_boot.isize[i] \in {0, ramfs_state_at_boot.size[i]}
  BY DEF ramfs_state_at_boot
<1> QED  BY <1>1, <1>2, <1>3 DEF RamfsTables

LEMMA MountRamfs ==
    ASSUME NEW r, RamfsTables(r)
    PROVE  /\ RamfsInv(ramfs_mount(r)) /\ ramfs_mount(r).file_count = 1
           /\ ramfs_mount(r).size = [r.size EXCEPT ![0] = 0]
           /\ ramfs_mount(r).data = [r.data EXCEPT ![0] = FALSE]
           /\ ramfs_mount(r).buffers = r.buffers
<1>0. PICK i \in Entries : i = 0
  BY RamfsAssumption DEF Entries
<1>1. PICK e : e = fresh_entry(r, i, "/", None)
  BY Zenon
<1>2. /\ None < i /\ i + 1 = 1
      /\ "/" \in Names \cup {"/", NoName} /\ None \in Entries \cup {None}
  BY <1>0 DEF None
<1>3. /\ RamfsTables(e) /\ e.file_count = i + 1 /\ e.parent = [r.parent EXCEPT ![i] = None]
      /\ e.size = [r.size EXCEPT ![i] = 0] /\ e.data = [r.data EXCEPT ![i] = FALSE]
      /\ e.buffers = r.buffers
  <2>1. Fresh(e, r, i, "/", None)
    BY <1>1, <1>2, FreshEntry, Zenon
  <2> QED  BY <2>1, Zenon DEF Fresh
<1>4. PICK m : m = [e EXCEPT !.root_inode = 0]
  BY Zenon
<1>5. m = ramfs_mount(r)
  BY <1>0, <1>1, <1>4, Zenon DEF ramfs_mount
<1>6. m \in RamfsType
  BY <1>3, <1>4 DEF RamfsTables, RamfsType
<1>7. /\ m.root_inode = 0 /\ m.file_count = e.file_count /\ m.name = e.name
      /\ m.parent = e.parent /\ m.size = e.size /\ m.isize = e.isize /\ m.data = e.data
      /\ m.buffers = e.buffers
  BY <1>3, <1>4 DEF RamfsTables, RamfsType
<1>8. RamfsTables(m)
  BY <1>3, <1>6, <1>7, Zenon DEF RamfsTables
<1>9. m.parent[0] = None
  BY <1>0, <1>3, <1>7 DEF RamfsTables, RamfsType
<1>10. RamfsInv(m)
  BY <1>2, <1>3, <1>7, <1>8, <1>9 DEF RamfsInv
<1> QED  BY <1>0, <1>2, <1>3, <1>5, <1>7, <1>10, Zenon

(* What ramfs_mkdir does to the tables.                                    *)
Made(r, e) ==
    /\ RamfsInv(e) /\ r.file_count \in Entries /\ e.file_count = r.file_count + 1
    /\ e.size = [r.size EXCEPT ![r.file_count] = 0]
    /\ e.isize = [r.isize EXCEPT ![r.file_count] = 0]
    /\ e.data = [r.data EXCEPT ![r.file_count] = FALSE] /\ e.buffers = r.buffers

LEMMA MkdirRamfs ==
    ASSUME WellOrdered, NEW r, RamfsInv(r), NEW dir \in 0 .. r.file_count - 1, Plain(r, dir),
           NEW name \in Names \cup {NoName}, ~ramfs_mkdir_fails(r, dir, name)
    PROVE  Made(r, ramfs_mkdir(r, dir, name))
<1>1. PICK k : k = r.file_count
  BY Zenon
<1>2. PICK e : e = fresh_entry(r, k, name, dir)
  BY Zenon
<1>3. r \in RamfsType /\ RamfsTables(r) /\ k # 0 /\ r.root_inode = 0 /\ r.parent[0] = None
  BY <1>1, Zenon DEF RamfsInv, RamfsTables
<1>4. k \in Nat /\ k < RAMFS_MAX_FILES
  BY <1>1, <1>3, EntriesBelow, RamfsAssumption DEF ramfs_mkdir_fails
<1>5. /\ k \in Entries /\ dir \in Entries /\ dir < k /\ dir \in Nat
      /\ name \in Names \cup {"/", NoName} /\ dir \in Entries \cup {None}
  BY <1>1, <1>4, RamfsAssumption DEF Entries
<1>6. /\ RamfsTables(e) /\ e.file_count = k + 1 /\ e.root_inode = r.root_inode
      /\ e.name = [r.name EXCEPT ![k] = name] /\ e.parent = [r.parent EXCEPT ![k] = dir]
      /\ e.size = [r.size EXCEPT ![k] = 0] /\ e.isize = [r.isize EXCEPT ![k] = 0]
      /\ e.data = [r.data EXCEPT ![k] = FALSE] /\ e.buffers = r.buffers
  <2>1. Fresh(e, r, k, name, dir)
    BY <1>2, <1>3, <1>5, FreshEntry, Zenon
  <2> QED  BY <2>1, Zenon DEF Fresh
<1>7. DOMAIN r.name = Entries /\ DOMAIN r.parent = Entries
  BY <1>3 DEF RamfsType
<1>8. /\ e.name[k] = name /\ e.parent[k] = dir
      /\ \A i \in 0 .. k - 1 : i \in Entries /\ e.name[i] = r.name[i] /\ e.parent[i] = r.parent[i]
  <2>1. \A i \in 0 .. k - 1 : i \in Entries /\ i # k
    BY <1>4, RamfsAssumption DEF Entries
  <2> QED  BY <1>5, <1>6, <1>7, <2>1
<1>9. ramfs_find_file(r, dir, name) = None
  BY Zenon DEF ramfs_mkdir_fails
<1>10. \A j \in 0 .. k - 1 : ~(r.parent[j] = dir /\ r.name[j] = name)
  <2>1. None \notin 0 .. r.file_count - 1
    BY DEF None
  <2> QED  BY <1>1, <1>4, <1>9, <2>1, FindFile, Zenon
<1>11. e.parent[0] = None
  BY <1>3, <1>4, <1>8
<1>12. \A i \in 1 .. e.file_count - 1 : e.parent[i] # None /\ Plain(e, e.parent[i])
  <2> SUFFICES ASSUME NEW i \in 1 .. k PROVE e.parent[i] # None /\ Plain(e, e.parent[i])
    BY <1>4, <1>6
  <2>1. CASE i = k
    <3>1. dir # None /\ dir \in 0 .. k - 1
      BY <1>4, <1>5 DEF None
    <3> QED  BY <1>8, <2>1, <3>1, Zenon DEF Plain
  <2>2. CASE i # k
    <3>1. i \in 1 .. k - 1 /\ i \in 0 .. k - 1
      BY <1>4, <2>2
    <3>2. r.parent[i] # None /\ Plain(r, r.parent[i])
      BY <1>1, <3>1, Zenon DEF RamfsInv
    <3>3. r.parent[i] \in 0 .. k - 1
      <4>1. r.parent[i] < i /\ r.parent[i] \in Entries \cup {None}
        BY <1>3, <1>8, <3>1 DEF RamfsTables, RamfsType
      <4> QED  BY <1>4, <3>1, <3>2, <4>1 DEF Entries
    <3> QED  BY <1>8, <3>1, <3>2, <3>3, Zenon DEF Plain
  <2> QED  BY <2>1, <2>2
<1>13. ASSUME NEW i \in 0 .. e.file_count - 1, NEW j \in 0 .. e.file_count - 1,
              e.parent[i] = e.parent[j], e.name[i] = e.name[j]
       PROVE  i = j
  <2>1. /\ i \in 0 .. k - 1 \/ i = k
        /\ j \in 0 .. k - 1 \/ j = k
    BY <1>4, <1>6
  <2>2. CASE i = k
    BY <1>8, <1>10, <1>13, <2>1, <2>2, Zenon
  <2>3. CASE j = k
    BY <1>8, <1>10, <1>13, <2>1, <2>3, Zenon
  <2>4. CASE i \in 0 .. k - 1 /\ j \in 0 .. k - 1
    <3>1. \A a, b \in 0 .. k - 1 : r.parent[a] = r.parent[b] /\ r.name[a] = r.name[b] => a = b
      BY <1>1 DEF RamfsInv
    <3>2. r.parent[i] = r.parent[j] /\ r.name[i] = r.name[j]
      BY <1>8, <1>13, <2>4, Zenon
    <3> QED  BY <2>4, <3>1, <3>2, Zenon
  <2> QED  BY <2>1, <2>2, <2>3, <2>4
<1>14. RamfsInv(e)
  <2>1. e.file_count # 0 /\ e.root_inode = 0
    BY <1>3, <1>4, <1>6
  <2> QED  BY <1>6, <1>11, <1>12, <1>13, <2>1, Zenon DEF RamfsInv
<1>15. e = ramfs_mkdir(r, dir, name)
  BY <1>1, <1>2, Zenon DEF ramfs_mkdir
<1> QED  BY <1>1, <1>5, <1>6, <1>14, <1>15, Zenon DEF Made

(* Everything but the sizes and the bytes stays.                           *)
LEMMA SameTree ==
    ASSUME NEW r, RamfsInv(r), NEW e, RamfsTables(e), e.file_count = r.file_count,
           e.root_inode = r.root_inode, e.name = r.name, e.parent = r.parent
    PROVE  RamfsInv(e)
BY DEF RamfsInv, Plain

LEMMA TruncateRamfs ==
    ASSUME NEW r, RamfsInv(r), NEW ino, ino.fs = "ramfs" => ino.id \in Entries
    PROVE  /\ RamfsInv(truncate(r, ino)) /\ truncate(r, ino).file_count = r.file_count
           /\ truncate(r, ino).size = r.size /\ truncate(r, ino).data = r.data
           /\ truncate(r, ino).buffers = r.buffers
<1>1. CASE ino.fs # "ramfs"
  BY <1>1, Zenon DEF truncate
<1>2. CASE ino.fs = "ramfs"
  <2>1. PICK i \in Entries : i = ino.id
    BY <1>2, Zenon
  <2>2. PICK e : e = [r EXCEPT !.isize[i] = 0]
    BY Zenon
  <2>3. e = truncate(r, ino)
    BY <1>2, <2>1, <2>2, Zenon DEF truncate
  <2>4. RamfsTables(r) /\ 0 \in 0 .. RAMFS_MAX_FILE_SIZE
    BY RamfsAssumption DEF RamfsInv
  <2>5. e \in RamfsType
    BY <2>2, <2>4 DEF RamfsTables, RamfsType
  <2>6. /\ e.file_count = r.file_count /\ e.root_inode = r.root_inode /\ e.name = r.name
        /\ e.parent = r.parent /\ e.size = r.size /\ e.data = r.data /\ e.buffers = r.buffers
        /\ e.isize = [r.isize EXCEPT ![i] = 0]
    BY <2>2, <2>4 DEF RamfsTables, RamfsType
  <2>7. \A j \in Entries : e.isize[j] \in {0, e.size[j]}
    BY <2>4, <2>6 DEF RamfsTables, RamfsType
  <2>8. RamfsTables(e)
    BY <2>4, <2>5, <2>6, <2>7, Zenon DEF RamfsTables
  <2>9. RamfsInv(e)
    BY <2>6, <2>8, SameTree, Zenon
  <2> QED  BY <2>3, <2>6, <2>9, Zenon
<1> QED  BY <1>1, <1>2

(* e is r after a write to its i-th entry.                                 *)
Written(e, r, i, pos, buf) ==
    LET end == pos + Len(buf) IN
    /\ RamfsInv(e) /\ e.file_count = r.file_count
    /\ e.size = [r.size EXCEPT ![i] = IF end > r.size[i] THEN end ELSE r.size[i]]
    /\ e.data = [r.data EXCEPT ![i] = r.data[i] \/ end > 0]
    /\ \A j \in Entries \ {i} : e.buffers[j] = r.buffers[j]
    /\ \A k \in 0 .. RAMFS_MAX_FILE_SIZE - 1 :
          e.buffers[i][k] = IF k \in pos .. end - 1 THEN buf[k - pos + 1] ELSE r.buffers[i][k]

LEMMA WriteRamfs ==
    ASSUME NEW r, RamfsInv(r), NEW i \in Entries, NEW pos \in Nat, NEW buf \in Seq(Bytes),
           ~ramfs_write_fails(r, i, pos, buf)
    PROVE  Written(ramfs_write(r, i, pos, buf), r, i, pos, buf)
<1>1. PICK end : end = pos + Len(buf)
  BY Zenon
<1>2. PICK e : e = ramfs_write(r, i, pos, buf)
  BY Zenon
<1>3. PICK b : b = [k \in 0 .. RAMFS_MAX_FILE_SIZE - 1 |->
                      IF k \in pos .. end - 1 THEN buf[k - pos + 1] ELSE r.buffers[i][k]]
  BY Zenon
<1>4. end \in Nat /\ end <= RAMFS_MAX_FILE_SIZE /\ pos <= end
  BY <1>1, RamfsAssumption DEF ramfs_write_fails
<1>5. RamfsTables(r) /\ r.buffers[i] \in Buffer /\ r.size[i] \in Nat
  BY RamfsAssumption DEF RamfsInv, RamfsTables, RamfsType
<1>6. b \in Buffer
  <2>1. \A k \in pos .. end - 1 : buf[k - pos + 1] \in Bytes
    BY <1>1, <1>4
  <2>2. \A k \in 0 .. RAMFS_MAX_FILE_SIZE - 1 : r.buffers[i][k] \in Bytes
    BY <1>5, Zenon DEF Buffer
  <2> QED  BY <1>3, <2>1, <2>2 DEF Buffer
<1>7. DOMAIN r.buffers[i] = 0 .. RAMFS_MAX_FILE_SIZE - 1
  BY <1>5 DEF Buffer
<1>8. e = [r EXCEPT !.data[i] = r.data[i] \/ end > 0, !.buffers[i] = b,
                    !.size[i] = IF end > r.size[i] THEN end ELSE r.size[i],
                    !.isize[i] = IF end > r.size[i] THEN end ELSE r.isize[i]]
  BY <1>1, <1>2, <1>3, <1>5, <1>7 DEF ramfs_write, RamfsTables, RamfsType
<1>9. PICK s \in 0 .. RAMFS_MAX_FILE_SIZE : s = IF end > r.size[i] THEN end ELSE r.size[i]
  BY <1>4, <1>5 DEF RamfsTables, RamfsType
<1>10. PICK z \in 0 .. RAMFS_MAX_FILE_SIZE : z = IF end > r.size[i] THEN end ELSE r.isize[i]
  BY <1>4, <1>5 DEF RamfsTables, RamfsType
<1>11. PICK d \in BOOLEAN : d = (r.data[i] \/ end > 0)
  BY Zenon
<1>12. e = [r EXCEPT !.data[i] = d, !.buffers[i] = b, !.size[i] = s, !.isize[i] = z]
  BY <1>8, <1>9, <1>10, <1>11, Zenon
<1>13. e \in RamfsType
  BY <1>5, <1>6, <1>12, Zenon DEF RamfsTables, RamfsType
<1>14. /\ e.file_count = r.file_count /\ e.root_inode = r.root_inode /\ e.name = r.name
       /\ e.parent = r.parent /\ e.size = [r.size EXCEPT ![i] = s]
       /\ e.isize = [r.isize EXCEPT ![i] = z] /\ e.data = [r.data EXCEPT ![i] = d]
       /\ e.buffers = [r.buffers EXCEPT ![i] = b]
  BY <1>5, <1>12 DEF RamfsTables, RamfsType
<1>15. (~d => s = 0) /\ z \in {0, s}
  <2>1. (~r.data[i] => r.size[i] = 0) /\ r.isize[i] \in {0, r.size[i]}
    BY <1>5, Zenon DEF RamfsTables
  <2>2. ~d => ~r.data[i] /\ ~(end > 0)
    BY <1>11, Zenon
  <2> QED  BY <1>4, <1>5, <1>9, <1>10, <2>1, <2>2
<1>16. ASSUME NEW j \in Entries
       PROVE  (~e.data[j] => e.size[j] = 0) /\ e.isize[j] \in {0, e.size[j]}
  <2>1. /\ DOMAIN r.size = Entries /\ DOMAIN r.isize = Entries /\ DOMAIN r.data = Entries
    BY <1>5 DEF RamfsTables, RamfsType
  <2>2. CASE j = i
    BY <1>14, <1>15, <2>1, <2>2, Zenon
  <2>3. CASE j # i
    <3>1. e.size[j] = r.size[j] /\ e.isize[j] = r.isize[j] /\ e.data[j] = r.data[j]
      BY <1>14, <2>1, <2>3, Zenon
    <3> QED  BY <1>5, <3>1, Zenon DEF RamfsTables
  <2> QED  BY <2>2, <2>3
<1>17. RamfsTables(e)
  BY <1>5, <1>13, <1>14, <1>16, Zenon DEF RamfsTables
<1>18. RamfsInv(e)
  BY <1>14, <1>17, SameTree, Zenon
<1>19. /\ \A j \in Entries \ {i} : e.buffers[j] = r.buffers[j]
       /\ e.buffers[i] = b
  BY <1>5, <1>14 DEF RamfsTables, RamfsType
<1>20. \A k \in 0 .. RAMFS_MAX_FILE_SIZE - 1 :
         e.buffers[i][k] = IF k \in pos .. end - 1 THEN buf[k - pos + 1] ELSE r.buffers[i][k]
  BY <1>3, <1>19, Zenon
<1> QED  BY <1>1, <1>2, <1>9, <1>11, <1>14, <1>18, <1>19, <1>20, Zenon DEF Written
-----------------------------------------------------------------------------
(* The tables of devfs.                                                    *)

(* Every node has an inode of its own, which is not the root's; and the    *)
(* inodes the tables point to are allocated.                               *)
NodesOK(d) ==
    /\ Len(d.nodes) <= MAX_DEV_NODES
    /\ \A i \in 1 .. Len(d.nodes) : d.nodes[i].inode \in d.live
    /\ \A i, j \in 1 .. Len(d.nodes) : d.nodes[i].inode = d.nodes[j].inode => i = j

RootOK(d) ==
    d.root_inode # NoInode =>
       /\ d.root_inode \in d.live /\ d.parent[d.root_inode] = NoInode
       /\ \A i \in 1 .. Len(d.nodes) :
             /\ d.nodes[i].inode # d.root_inode
             /\ d.parent[d.nodes[i].inode] \in {NoInode, d.root_inode}

DevfsInv(d) == d \in DevfsType /\ NodesOK(d) /\ RootOK(d)

Nodes == [name : DevNames, inode : Inodes]

LEMMA DevfsFields ==
    ASSUME NEW d \in DevfsType
    PROVE  /\ d.nodes \in Seq(Nodes) /\ Len(d.nodes) \in Nat
           /\ d.root_inode \in Inodes \cup {NoInode} /\ d.live \in SUBSET Inodes
           /\ d.fs_private \in [Inodes -> 0 .. MAX_DEV_NODES]
           /\ d.parent \in [Inodes -> Inodes \cup {NoInode}]
           /\ \A i \in 1 .. Len(d.nodes) : d.nodes[i].name \in DevNames /\ d.nodes[i].inode \in Inodes
<1>1. /\ d.nodes \in Seq(Nodes)
      /\ d.root_inode \in Inodes \cup {NoInode} /\ d.live \in SUBSET Inodes
      /\ d.fs_private \in [Inodes -> 0 .. MAX_DEV_NODES]
      /\ d.parent \in [Inodes -> Inodes \cup {NoInode}]
  BY DEF DevfsType, Nodes
<1>2. Len(d.nodes) \in Nat /\ \A i \in 1 .. Len(d.nodes) : d.nodes[i] \in Nodes
  BY <1>1
<1>3. \A x \in Nodes : x.name \in DevNames /\ x.inode \in Inodes
  BY DEF Nodes
<1> QED  BY <1>1, <1>2, <1>3, Zenon

LEMMA FindNode ==
    ASSUME WellOrdered, NEW d, NEW S, d.nodes \in Seq(S), NEW name
    PROVE  \/ /\ devfs_find_node(d, name) = 0
              /\ \A j \in 1 .. Len(d.nodes) : d.nodes[j].name # name
           \/ /\ devfs_find_node(d, name) \in 1 .. Len(d.nodes)
              /\ d.nodes[devfs_find_node(d, name)].name = name
<1>0. Len(d.nodes) \in Nat /\ DOMAIN d.nodes = 1 .. Len(d.nodes)
  OBVIOUS
<1>1. PICK found : found = {i \in DOMAIN d.nodes : d.nodes[i].name = name}
  BY Zenon
<1>2. devfs_find_node(d, name) =
        IF found = {} THEN 0 ELSE CHOOSE i \in found : \A j \in found : i <= j
  BY <1>1 DEF devfs_find_node
<1>3. CASE found = {}
  BY <1>0, <1>1, <1>2, <1>3, Zenon
<1>4. CASE found # {}
  <2>1. found \in SUBSET Nat
    BY <1>0, <1>1
  <2>2. \E i \in found : \A j \in found : i <= j
    BY <1>4, <2>1, Least, Zenon
  <2>3. devfs_find_node(d, name) \in found
    BY <1>2, <1>4, <2>2, Zenon
  <2> QED  BY <1>0, <1>1, <2>3, Zenon
<1> QED  BY <1>3, <1>4

(* A table without its i-th entry.                                         *)
LEMMA ShiftDown ==
    ASSUME NEW S, NEW t \in Seq(S), NEW i \in 1 .. Len(t)
    PROVE  /\ shift_down(t, i) \in Seq(S) /\ Len(shift_down(t, i)) = Len(t) - 1
           /\ \A k \in 1 .. Len(t) - 1 :
                 shift_down(t, i)[k] = IF k < i THEN t[k] ELSE t[k + 1]
<1>1. \A k \in 1 .. Len(t) - 1 : t[k] \in S /\ t[k + 1] \in S
  OBVIOUS
<1>2. Len(t) - 1 \in Nat
  OBVIOUS
<1> QED  BY <1>1, <1>2 DEF shift_down

LEMMA BootDevfs == DevfsInv(devfs_state_at_boot)
<1>1. devfs_state_at_boot \in DevfsType
  BY DevfsAssumption DEF devfs_state_at_boot, DevfsType
<1>2. devfs_state_at_boot.nodes = << >> /\ devfs_state_at_boot.root_inode = NoInode
  BY DEF devfs_state_at_boot
<1>3. Len(devfs_state_at_boot.nodes) = 0
  BY <1>2
<1>4. NodesOK(devfs_state_at_boot)
  BY <1>3, DevfsAssumption DEF NodesOK
<1> QED  BY <1>1, <1>2, <1>4, Zenon DEF DevfsInv, RootOK

LEMMA MountDevfs ==
    ASSUME NEW d, DevfsInv(d), NEW n \in Inodes \cup {NoInode}
    PROVE  DevfsInv(devfs_mount(d, n)) /\ devfs_mount(d, n).root_inode = n
<1>1. PICK e : e = devfs_mount(d, n)
  BY Zenon
<1>2. d \in DevfsType /\ 0 \in 0 .. MAX_DEV_NODES /\ << >> \in Seq(Nodes)
  BY DevfsAssumption DEF DevfsInv
<1>3. PICK b : b = [d EXCEPT !.nodes = << >>, !.root_inode = n]
  BY Zenon
<1>4. /\ b \in DevfsType /\ b.nodes = << >> /\ b.root_inode = n /\ b.live = d.live
      /\ b.parent = d.parent
  BY <1>2, <1>3, Zenon DEF DevfsType, Nodes
<1>5. CASE n = NoInode
  <2>1. e = b
    BY <1>1, <1>3, <1>5, Zenon DEF devfs_mount
  <2>2. NodesOK(e)
    BY <1>4, <2>1, DevfsAssumption DEF NodesOK
  <2> QED  BY <1>1, <1>4, <1>5, <2>1, <2>2, Zenon DEF DevfsInv, RootOK
<1>6. CASE n # NoInode
  <2>0. n \in Inodes
    BY <1>6
  <2>1. e = [b EXCEPT !.live = @ \cup {n}, !.fs_private[n] = 0, !.parent[n] = NoInode]
    BY <1>1, <1>3, <1>6, Zenon DEF devfs_mount
  <2>2. e \in DevfsType
    BY <1>2, <1>4, <2>0, <2>1, Zenon DEF DevfsType
  <2>3. /\ e.nodes = << >> /\ e.root_inode = n /\ e.live = d.live \cup {n}
        /\ e.parent[n] = NoInode
    BY <1>4, <2>0, <2>1 DEF DevfsType
  <2>4. NodesOK(e) /\ \A i \in 1 .. Len(e.nodes) : FALSE
    BY <2>3, DevfsAssumption DEF NodesOK
  <2>5. RootOK(e)
    BY <2>3, <2>4, Zenon DEF RootOK
  <2> QED  BY <1>1, <2>2, <2>3, <2>4, <2>5, Zenon DEF DevfsInv
<1> QED  BY <1>5, <1>6

(* A freed inode is gone and nothing else is.                              *)
LEMMA FreeInode ==
    ASSUME NEW d \in DevfsType, NEW n \in Inodes
    PROVE  /\ kfree_inode(d, n) \in DevfsType /\ kfree_inode(d, n).nodes = d.nodes
           /\ kfree_inode(d, n).root_inode = d.root_inode
           /\ kfree_inode(d, n).live = d.live \ {n}
           /\ \A m \in Inodes \ {n} : kfree_inode(d, n).parent[m] = d.parent[m]
<1>1. PICK e : e = kfree_inode(d, n)
  BY Zenon
<1>2. e = [d EXCEPT !.live = @ \ {n}, !.fs_private[n] = 0, !.parent[n] = NoInode]
  BY <1>1, DevfsAssumption DEF kfree_inode, NoInode
<1>3. 0 \in 0 .. MAX_DEV_NODES
  BY DevfsAssumption
<1>4. e \in DevfsType
  BY <1>2, <1>3, Zenon DEF DevfsType
<1>5. /\ e.nodes = d.nodes /\ e.root_inode = d.root_inode /\ e.live = d.live \ {n}
      /\ \A m \in Inodes \ {n} : e.parent[m] = d.parent[m]
  BY <1>2 DEF DevfsType
<1> QED  BY <1>1, <1>4, <1>5, Zenon

LEMMA UnmountDevfs ==
    ASSUME NEW d, DevfsInv(d)
    PROVE  DevfsInv(devfs_unmount(d))
<1>1. PICK k : k = kfree_inode(d, d.root_inode)
  BY Zenon
<1>2. PICK e : e = [k EXCEPT !.root_inode = NoInode]
  BY Zenon
<1>3. e = devfs_unmount(d)
  BY <1>1, <1>2, Zenon DEF devfs_unmount
<1>4. d \in DevfsType /\ NodesOK(d) /\ RootOK(d)
  BY Zenon DEF DevfsInv
<1>5. k \in DevfsType /\ k.nodes = d.nodes /\ k.live = d.live \ {d.root_inode}
  <2>1. CASE d.root_inode = NoInode
    <3>1. k = d /\ d.root_inode \notin d.live
      BY <1>1, <1>4, <2>1, DevfsAssumption DEF kfree_inode, DevfsType, NoInode
    <3> QED  BY <1>4, <3>1
  <2>2. CASE d.root_inode # NoInode
    <3>1. d.root_inode \in Inodes
      BY <1>4, <2>2, DevfsFields
    <3> QED  BY <1>1, <1>4, <3>1, FreeInode, Zenon
  <2> QED  BY <2>1, <2>2
<1>6. e \in DevfsType /\ e.nodes = d.nodes /\ e.live = d.live \ {d.root_inode} /\ e.root_inode = NoInode
  BY <1>2, <1>5, Zenon DEF DevfsType
<1>7. \A i \in 1 .. Len(d.nodes) : d.nodes[i].inode \in e.live
  <2>1. \A i \in 1 .. Len(d.nodes) : d.nodes[i].inode # d.root_inode
    <3>1. \A i \in 1 .. Len(d.nodes) : d.nodes[i].inode # NoInode
      <4>1. \A i \in 1 .. Len(d.nodes) : d.nodes[i].inode \in Inodes
        BY <1>4, DevfsFields, Zenon
      <4> QED  BY <4>1, DevfsAssumption, Zenon DEF NoInode
    <3> QED  BY <1>4, <3>1, Zenon DEF RootOK
  <2> QED  BY <1>4, <1>6, <2>1, Zenon DEF NodesOK
<1>8. NodesOK(e)
  BY <1>4, <1>6, <1>7, Zenon DEF NodesOK
<1> QED  BY <1>3, <1>6, <1>8, Zenon DEF DevfsInv, RootOK

LEMMA RegisterDevfs ==
    ASSUME NEW d, DevfsInv(d), NEW name \in DevNames, NEW n \in Inodes \ d.live,
           ~devfs_register_fails(d, name)
    PROVE  DevfsInv(devfs_register_device(d, name, n))
<1>1. PICK e : e = devfs_register_device(d, name, n)
  BY Zenon
<1>2. d \in DevfsType /\ NodesOK(d) /\ RootOK(d)
  BY Zenon DEF DevfsInv
<1>3. PICK node \in Nodes : node = [name |-> name, inode |-> n]
  BY Zenon DEF Nodes
<1>4. node.inode = n
  BY <1>3
<1>5. PICK l : l = Len(d.nodes)
  BY Zenon
<1>6. l \in Nat /\ l < MAX_DEV_NODES /\ d.nodes \in Seq(Nodes)
  BY <1>2, <1>5, DevfsFields, DevfsAssumption DEF devfs_register_fails
<1>7. PICK ns : ns = Append(d.nodes, node)
  BY Zenon
<1>8. /\ ns \in Seq(Nodes) /\ Len(ns) = l + 1 /\ ns[l + 1] = node
      /\ \A i \in 1 .. l : ns[i] = d.nodes[i]
  BY <1>5, <1>6, <1>7
<1>9. l + 1 \in 0 .. MAX_DEV_NODES
  BY <1>6, DevfsAssumption
<1>10. e = [d EXCEPT !.nodes = ns, !.live = @ \cup {n}, !.fs_private[n] = l + 1,
                     !.parent[n] = d.root_inode]
  BY <1>1, <1>3, <1>5, <1>7, Zenon DEF devfs_register_device
<1>11. e \in DevfsType
  BY <1>2, <1>8, <1>9, <1>10, Zenon DEF DevfsType, Nodes
<1>12. /\ e.nodes = ns /\ e.live = d.live \cup {n} /\ e.root_inode = d.root_inode
       /\ e.parent = [d.parent EXCEPT ![n] = d.root_inode]
  BY <1>2, <1>10 DEF DevfsType
<1>13. \A i \in 1 .. l : d.nodes[i].inode \in d.live /\ d.nodes[i].inode # n
  BY <1>2, <1>5, Zenon DEF NodesOK
<1>14. \A i \in 1 .. l + 1 : (i \in 1 .. l /\ ns[i] = d.nodes[i]) \/ (i = l + 1 /\ ns[i] = node)
  BY <1>6, <1>8
<1>15. NodesOK(e)
  <2>1. Len(e.nodes) <= MAX_DEV_NODES
    BY <1>6, <1>8, <1>12, DevfsAssumption
  <2>2. \A i \in 1 .. l + 1 : ns[i].inode \in e.live
    BY <1>4, <1>12, <1>13, <1>14, Zenon
  <2>3. ASSUME NEW i \in 1 .. l + 1, NEW j \in 1 .. l + 1, ns[i].inode = ns[j].inode
        PROVE  i = j
    <3>1. \A a, b \in 1 .. l : d.nodes[a].inode = d.nodes[b].inode => a = b
      BY <1>2, <1>5, Zenon DEF NodesOK
    <3> QED  BY <1>4, <1>13, <1>14, <2>3, <3>1, Zenon
  <2> QED  BY <1>8, <1>12, <2>1, <2>2, <2>3, Zenon DEF NodesOK
<1>16. RootOK(e)
  <2> SUFFICES ASSUME d.root_inode # NoInode PROVE RootOK(e)
    BY <1>12, Zenon DEF RootOK
  <2>1. /\ d.root_inode \in d.live /\ d.parent[d.root_inode] = NoInode /\ d.root_inode # n
        /\ \A i \in 1 .. l : /\ d.nodes[i].inode # d.root_inode
                             /\ d.parent[d.nodes[i].inode] \in {NoInode, d.root_inode}
    BY <1>2, <1>5, Zenon DEF RootOK
  <2>2. \A m \in Inodes : e.parent[m] = IF m = n THEN d.root_inode ELSE d.parent[m]
    BY <1>2, <1>12 DEF DevfsType
  <2>3. d.live \subseteq Inodes
    BY <1>2, DevfsFields
  <2>4. d.root_inode \in e.live /\ e.parent[d.root_inode] = NoInode
    BY <1>12, <2>1, <2>2, <2>3, Zenon
  <2>5. ASSUME NEW i \in 1 .. l + 1
        PROVE  ns[i].inode # d.root_inode /\ e.parent[ns[i].inode] \in {NoInode, d.root_inode}
    <3>1. CASE i \in 1 .. l /\ ns[i] = d.nodes[i]
      <4>1. d.nodes[i].inode \in Inodes /\ d.nodes[i].inode # n
        BY <1>13, <2>3, <3>1, Zenon
      <4>2. e.parent[d.nodes[i].inode] = d.parent[d.nodes[i].inode]
        BY <2>2, <4>1, Zenon
      <4> QED  BY <2>1, <3>1, <4>2, Zenon
    <3>2. CASE i = l + 1 /\ ns[i] = node
      <4>1. e.parent[n] = d.root_inode
        BY <2>2, Zenon
      <4> QED  BY <1>4, <2>1, <3>2, <4>1, Zenon
    <3> QED  BY <1>14, <3>1, <3>2, Zenon
  <2> QED  BY <1>8, <1>12, <2>4, <2>5, Zenon DEF RootOK
<1> QED  BY <1>1, <1>11, <1>15, <1>16, Zenon DEF DevfsInv

LEMMA UnregisterDevfs ==
    ASSUME WellOrdered, NEW d, DevfsInv(d), NEW name, devfs_find_node(d, name) # 0
    PROVE  DevfsInv(devfs_unregister_device(d, name))
<1>1. PICK p : p = devfs_find_node(d, name)
  BY Zenon
<1>2. d \in DevfsType /\ NodesOK(d) /\ RootOK(d)
  BY Zenon DEF DevfsInv
<1>3. /\ d.nodes \in Seq(Nodes) /\ Len(d.nodes) \in Nat
      /\ \A i \in 1 .. Len(d.nodes) : d.nodes[i].inode \in Inodes
  BY <1>2, DevfsFields, Zenon
<1>4. p \in 1 .. Len(d.nodes)
  BY <1>1, <1>3, FindNode, Zenon
<1>5. PICK n \in Inodes : n = d.nodes[p].inode
  BY <1>3, <1>4, Zenon
<1>6. PICK k : k = kfree_inode(d, n)
  BY Zenon
<1>7. /\ k \in DevfsType /\ k.nodes = d.nodes /\ k.root_inode = d.root_inode
      /\ k.live = d.live \ {n} /\ \A m \in Inodes \ {n} : k.parent[m] = d.parent[m]
  BY <1>2, <1>6, FreeInode, ZenonT(60)
<1>8. PICK ns : ns = shift_down(d.nodes, p)
  BY Zenon
<1>9. /\ ns \in Seq(Nodes) /\ Len(ns) = Len(d.nodes) - 1
      /\ \A i \in 1 .. Len(d.nodes) - 1 : ns[i] = IF i < p THEN d.nodes[i] ELSE d.nodes[i + 1]
  BY <1>3, <1>4, <1>8, ShiftDown, Zenon
<1>10. PICK e : e = [k EXCEPT !.nodes = ns]
  BY Zenon
<1>11. e = devfs_unregister_device(d, name)
  <2>1. devfs_unregister_device(d, name) = [k EXCEPT !.nodes = shift_down(@, p)]
    BY <1>1, <1>5, <1>6, Zenon DEF devfs_unregister_device
  <2> QED  BY <1>7, <1>8, <1>10, <2>1 DEF DevfsType
<1>12. /\ e \in DevfsType /\ e.nodes = ns /\ e.root_inode = d.root_inode
       /\ e.live = d.live \ {n} /\ e.parent = k.parent
  BY <1>7, <1>9, <1>10, Zenon DEF DevfsType, Nodes
(* The i-th node was the old(i)-th one.                                    *)
<1>13. PICK old : old = [i \in 1 .. Len(ns) |-> IF i < p THEN i ELSE i + 1]
  BY Zenon
<1>14. \A i \in 1 .. Len(ns) : old[i] \in 1 .. Len(d.nodes) /\ old[i] # p /\ ns[i] = d.nodes[old[i]]
  BY <1>3, <1>4, <1>9, <1>13
<1>15. \A i, j \in 1 .. Len(ns) : old[i] = old[j] => i = j
  BY <1>3, <1>4, <1>9, <1>13
<1>16. \A i, j \in 1 .. Len(d.nodes) : d.nodes[i].inode = d.nodes[j].inode => i = j
  BY <1>2, Zenon DEF NodesOK
<1>17. \A i \in 1 .. Len(ns) : ns[i].inode # n /\ ns[i].inode \in Inodes
  <2> SUFFICES ASSUME NEW i \in 1 .. Len(ns) PROVE ns[i].inode # n /\ ns[i].inode \in Inodes
    OBVIOUS
  <2>1. PICK o \in 1 .. Len(d.nodes) : o # p /\ ns[i] = d.nodes[o]
    BY <1>14, Zenon
  <2> QED  BY <1>3, <1>4, <1>5, <1>16, <2>1, Zenon
<1>18. NodesOK(e)
  <2>1. Len(e.nodes) <= MAX_DEV_NODES
    BY <1>2, <1>3, <1>9, <1>12, DevfsAssumption DEF NodesOK
  <2>2. \A i \in 1 .. Len(ns) : ns[i].inode \in d.live
    BY <1>2, <1>14, Zenon DEF NodesOK
  <2>3. \A i, j \in 1 .. Len(ns) : ns[i].inode = ns[j].inode => i = j
    <3> SUFFICES ASSUME NEW i \in 1 .. Len(ns), NEW j \in 1 .. Len(ns),
                        ns[i].inode = ns[j].inode
                 PROVE  i = j
      OBVIOUS
    <3>1. PICK a \in 1 .. Len(d.nodes) : a = old[i] /\ ns[i] = d.nodes[a]
      BY <1>14, Zenon
    <3>2. PICK b \in 1 .. Len(d.nodes) : b = old[j] /\ ns[j] = d.nodes[b]
      BY <1>14, Zenon
    <3>3. a = b
      BY <1>16, <3>1, <3>2, Zenon
    <3> QED  BY <1>15, <3>1, <3>2, <3>3, Zenon
  <2> QED  BY <1>12, <1>17, <2>1, <2>2, <2>3, Zenon DEF NodesOK
<1>19. RootOK(e)
  <2> SUFFICES ASSUME d.root_inode # NoInode PROVE RootOK(e)
    BY <1>12, Zenon DEF RootOK
  <2>1. /\ d.root_inode \in d.live /\ d.parent[d.root_inode] = NoInode
        /\ \A i \in 1 .. Len(d.nodes) : /\ d.nodes[i].inode # d.root_inode
                                        /\ d.parent[d.nodes[i].inode] \in {NoInode, d.root_inode}
    BY <1>2, Zenon DEF RootOK
  <2>2. d.root_inode # n /\ d.root_inode \in Inodes
    <3>1. d.live \subseteq Inodes
      BY <1>2, DevfsFields
    <3> QED  BY <1>4, <1>5, <2>1, <3>1, Zenon
  <2>3. d.root_inode \in e.live /\ e.parent[d.root_inode] = NoInode
    BY <1>7, <1>12, <2>1, <2>2, Zenon
  <2>4. ASSUME NEW i \in 1 .. Len(ns)
        PROVE  ns[i].inode # d.root_inode /\ e.parent[ns[i].inode] \in {NoInode, d.root_inode}
    <3>1. e.parent[ns[i].inode] = d.parent[ns[i].inode]
      BY <1>7, <1>12, <1>17, Zenon
    <3> QED  BY <1>14, <2>1, <3>1, ZenonT(60)
  <2> QED  BY <1>12, <2>3, <2>4, Zenon DEF RootOK
<1> QED  BY <1>11, <1>12, <1>18, <1>19, Zenon DEF DevfsInv
-----------------------------------------------------------------------------
(* The mount table.                                                        *)

Mounts == [path : Paths, fs : FileSystems, root : InodePtrs]
Parts  == Names \cup {"/"}

MountOK(m) ==
    /\ Len(m.path) <= 2
    /\ m.fs = "ramfs" => m.root = InRam(0)
    /\ m.fs = "devfs" => \E n \in Inodes : m.root = InDev(n)

(* The root is mounted first and stays.                                    *)
MountInv(t) ==
    /\ t \in Seq(Mounts) /\ Len(t) <= MAX_MOUNT_POINTS /\ Len(t) # 0
    /\ t[1] = [path |-> <<"/">>, fs |-> "ramfs", root |-> InRam(0)]
    /\ \A i \in 1 .. Len(t) : MountOK(t[i])

LEMMA MountFields ==
    ASSUME NEW t \in Seq(Mounts), NEW i \in 1 .. Len(t)
    PROVE  /\ t[i].path \in Seq(Parts) /\ t[i].path \in Paths /\ Len(t[i].path) \in Nat
           /\ t[i].fs \in FileSystems /\ t[i].root \in InodePtrs
<1>1. t[i] \in Mounts
  OBVIOUS
<1>2. t[i].path \in Paths /\ t[i].fs \in FileSystems /\ t[i].root \in InodePtrs
  BY <1>1 DEF Mounts
<1>3. t[i].path \in Seq(Parts)
  BY <1>2, Zenon DEF Paths, Parts
<1> QED  BY <1>2, <1>3

(* The i-th mount holds path.                                              *)
Matches(i, path) ==
    /\ i \in 1 .. Len(mount_table)
    /\ mount_table[i].path # << >> /\ starts(mount_table[i].path, path)

MountLen(i) == Len(mount_table[i].path)

BestMount(m, path) ==
    /\ Matches(m, path)
    /\ \A i \in 1 .. Len(mount_table) :
          Matches(i, path) => /\ MountLen(i) <= MountLen(m)
                              /\ MountLen(i) = MountLen(m) => m <= i

LEMMA FindMount ==
    ASSUME WellOrdered, mount_table \in Seq(Mounts), NEW path \in Seq(Parts)
    PROVE  \/ vfs_find_mount(path) = 0 /\ \A i : ~Matches(i, path)
           \/ BestMount(vfs_find_mount(path), path)
<1>0. Len(mount_table) \in Nat /\ DOMAIN mount_table = 1 .. Len(mount_table) /\ Len(path) \in Nat
  OBVIOUS
<1>1. PICK match : match = {i \in DOMAIN mount_table :
                     mount_table[i].path # << >> /\ starts(mount_table[i].path, path)}
  BY Zenon
<1>2. \A i : i \in match <=> Matches(i, path)
  BY <1>0, <1>1, Zenon DEF Matches
<1>3. PICK longest : longest = {i \in match : \A j \in match : MountLen(j) <= MountLen(i)}
  BY Zenon
<1>4. vfs_find_mount(path) =
        IF match = {} THEN 0 ELSE CHOOSE i \in longest : \A j \in longest : i <= j
  BY <1>1, <1>3 DEF vfs_find_mount, MountLen
<1>5. CASE match = {}
  BY <1>2, <1>4, <1>5, Zenon
<1>6. CASE match # {}
  <2>1. \A i \in match : i \in 1 .. Len(mount_table) /\ MountLen(i) \in Nat /\ MountLen(i) <= Len(path)
    <3> SUFFICES ASSUME NEW i \in match
                 PROVE  /\ i \in 1 .. Len(mount_table) /\ MountLen(i) \in Nat
                        /\ MountLen(i) <= Len(path)
      OBVIOUS
    <3>1. i \in 1 .. Len(mount_table) /\ starts(mount_table[i].path, path)
      BY <1>0, <1>1, Zenon
    <3> QED  BY <3>1, MountFields, Zenon DEF MountLen, starts
  <2>2. PICK D : D = {Len(path) - MountLen(i) : i \in match}
    BY Zenon
  <2>3. D \in SUBSET Nat /\ D # {}
    BY <1>0, <1>6, <2>1, <2>2
  <2>4. PICK x \in D : \A y \in D : x <= y
    BY <2>3, Least, Zenon
  <2>5. PICK b \in match : x = Len(path) - MountLen(b)
    BY <2>2, Zenon
  <2>6. \A j \in match : MountLen(j) <= MountLen(b)
    <3> SUFFICES ASSUME NEW j \in match PROVE MountLen(j) <= MountLen(b)
      OBVIOUS
    <3>1. x <= Len(path) - MountLen(j)
      BY <2>2, <2>4, Zenon
    <3>2. MountLen(j) \in Nat /\ MountLen(b) \in Nat
      BY <2>1, Zenon
    <3> QED  BY <1>0, <2>5, <3>1, <3>2
  <2>7. longest \in SUBSET Nat /\ longest # {}
    <3>1. b \in longest
      BY <1>3, <2>6, Zenon
    <3>2. \A i \in longest : i \in 1 .. Len(mount_table)
      BY <1>3, <2>1, Zenon
    <3> QED  BY <1>0, <3>1, <3>2
  <2>8. \E i \in longest : \A j \in longest : i <= j
    BY <2>7, Least, Zenon
  <2>9. PICK m : m = vfs_find_mount(path)
    BY Zenon
  <2>10. m \in longest /\ \A j \in longest : m <= j
    BY <1>4, <1>6, <2>8, <2>9, Zenon
  <2>11. ASSUME NEW i \in 1 .. Len(mount_table), Matches(i, path)
         PROVE  MountLen(i) <= MountLen(m) /\ (MountLen(i) = MountLen(m) => m <= i)
    <3>1. i \in match
      BY <1>2, <2>11, Zenon
    <3>2. MountLen(i) <= MountLen(m)
      BY <1>3, <2>10, <3>1, Zenon
    <3>3. MountLen(i) = MountLen(m) => i \in longest
      BY <1>3, <2>10, <3>1, Zenon
    <3> QED  BY <2>10, <3>2, <3>3, Zenon
  <2>12. Matches(m, path)
    BY <1>2, <1>3, <2>10, Zenon
  <2> QED  BY <2>9, <2>11, <2>12, Zenon DEF BestMount
<1> QED  BY <1>5, <1>6

LEMMA FindMountIs ==
    ASSUME WellOrdered, mount_table \in Seq(Mounts), NEW path \in Seq(Parts), NEW m,
           BestMount(m, path)
    PROVE  vfs_find_mount(path) = m
<1>1. PICK f : f = vfs_find_mount(path)
  BY Zenon
<1>2. Matches(m, path) /\ m \in 1 .. Len(mount_table)
  BY Zenon DEF BestMount, Matches
<1>3. BestMount(f, path)
  BY <1>1, <1>2, FindMount, Zenon
<1>4. Matches(f, path) /\ f \in 1 .. Len(mount_table)
  BY <1>3, Zenon DEF BestMount, Matches
<1>5. MountLen(m) <= MountLen(f) /\ MountLen(f) <= MountLen(m)
  BY <1>2, <1>3, <1>4, Zenon DEF BestMount
<1>6. MountLen(m) \in Nat /\ MountLen(f) \in Nat
  BY <1>2, <1>4, MountFields, Zenon DEF MountLen
<1>7. MountLen(m) = MountLen(f)
  BY <1>5, <1>6
<1>8. m <= f /\ f <= m
  BY <1>2, <1>3, <1>4, <1>7, Zenon DEF BestMount
<1> QED  BY <1>1, <1>2, <1>4, <1>8

(* Every path that begins with a slash is below the root.                  *)
LEMMA RootMatches ==
    ASSUME MountInv(mount_table), NEW path \in Seq(Parts), Len(path) # 0, path[1] = "/"
    PROVE  Matches(1, path) /\ MountLen(1) = 1
<1>1. mount_table \in Seq(Mounts) /\ Len(mount_table) # 0 /\ mount_table[1].path = <<"/">>
  BY DEF MountInv
<1>2. 1 \in 1 .. Len(mount_table)
  BY <1>1
<1>3. starts(<<"/">>, path) /\ <<"/">> # << >> /\ Len(<<"/">>) = 1
  BY DEF starts
<1> QED  BY <1>1, <1>2, <1>3, Zenon DEF Matches, MountLen

(* A file in a directory of the root mount.                                *)
LEMMA RootMountAbove ==
    ASSUME WellOrdered, MountInv(mount_table), NEW path \in Seq(Parts), Len(path) # 0,
           path[1] = "/", NEW c \in Parts, vfs_find_mount(Append(path, c)) = 1
    PROVE  vfs_find_mount(path) = 1
<1>0. mount_table \in Seq(Mounts)
  BY Zenon DEF MountInv
<1>1. PICK longer : longer = Append(path, c)
  BY Zenon
<1>2. longer \in Seq(Parts) /\ Len(longer) = Len(path) + 1 /\ \A k \in 1 .. Len(path) : longer[k] = path[k]
  BY <1>1
<1>3. \A i : Matches(i, path) => Matches(i, longer)
  <2> SUFFICES ASSUME NEW i, Matches(i, path) PROVE Matches(i, longer)
    OBVIOUS
  <2>1. PICK p \in Seq(Parts) : p = mount_table[i].path
    BY <1>0, MountFields, Zenon DEF Matches
  <2>2. starts(p, path)
    BY <2>1, Zenon DEF Matches
  <2>3. starts(p, longer)
    BY <1>2, <2>2 DEF starts
  <2> QED  BY <2>1, <2>3, Zenon DEF Matches
<1>4. BestMount(1, longer)
  <2>1. Matches(1, path)
    BY RootMatches, Zenon
  <2>2. ~(1 = 0)
    OBVIOUS
  <2> QED  BY <1>0, <1>1, <1>2, <2>2, FindMount, Zenon
<1>5. BestMount(1, path)
  BY <1>3, <1>4, RootMatches, Zenon DEF BestMount
<1> QED  BY <1>0, <1>5, FindMountIs, Zenon

(* The directory of a path with more than one slash is on the same mount.  *)
LEMMA SameMountAbove ==
    ASSUME WellOrdered, MountInv(mount_table), NEW path \in Seq(Parts), Len(path) > 2,
           vfs_find_mount(path) # 0
    PROVE  vfs_find_mount(SubSeq(path, 1, Len(path) - 1)) = vfs_find_mount(path)
<1>0. mount_table \in Seq(Mounts) /\ \A i \in 1 .. Len(mount_table) : MountOK(mount_table[i])
  BY Zenon DEF MountInv
<1>1. PICK above : above = SubSeq(path, 1, Len(path) - 1)
  BY Zenon
<1>2. /\ above \in Seq(Parts) /\ Len(above) = Len(path) - 1
      /\ \A k \in 1 .. Len(above) : above[k] = path[k]
  BY <1>1
<1>3. \A i : Matches(i, path) <=> Matches(i, above)
  <2> SUFFICES ASSUME NEW i \in 1 .. Len(mount_table) PROVE Matches(i, path) <=> Matches(i, above)
    BY Zenon DEF Matches
  <2>1. PICK p \in Seq(Parts) : p = mount_table[i].path
    BY <1>0, MountFields, Zenon
  <2>2. Len(p) <= 2
    BY <1>0, <2>1, Zenon DEF MountOK
  <2>3. /\ Len(p) <= Len(path) /\ Len(p) <= Len(above)
        /\ \A k \in 1 .. Len(p) : above[k] = path[k]
    BY <1>2, <2>2, SMTT(60)
  <2>4. starts(p, path) <=> starts(p, above)
    BY <2>3, Zenon DEF starts
  <2> QED  BY <2>1, <2>4, Zenon DEF Matches
<1>4. BestMount(vfs_find_mount(path), path)
  BY <1>0, FindMount, Zenon
<1>5. BestMount(vfs_find_mount(path), above)
  BY <1>3, <1>4, Zenon DEF BestMount
<1> QED  BY <1>0, <1>1, <1>2, <1>5, FindMountIs, Zenon
-----------------------------------------------------------------------------
(* Looking paths up.                                                       *)

LEMMA RamInodes ==
    ASSUME NEW i \in Nat
    PROVE  InRam(i) # NullInode /\ InRam(i).fs = "ramfs" /\ InRam(i).id = i
<1>1. i # None
  BY DEF None
<1> QED  BY <1>1 DEF InRam, NullInode

LEMMA DevInodes ==
    ASSUME NEW n \in Inodes
    PROVE  /\ InDev(n) # NullInode /\ InDev(n).fs = "devfs" /\ InDev(n).id = n
           /\ InDev(n).fs # "ramfs"
<1>1. n # NoInode
  BY DevfsAssumption DEF NoInode
<1> QED  BY <1>1 DEF InDev, NullInode

LEMMA NoInodes == InRam(None) = NullInode /\ InDev(NoInode) = NullInode
BY Zenon DEF InRam, InDev

(* What the walk never leaves, it ends in.                                 *)
LEMMA LookupStays ==
    ASSUME WellOrdered, mount_table \in Seq(Mounts), NEW path \in Seq(Parts),
           NEW m, m = vfs_find_mount(path), m # 0, NEW T, mount_table[m].root \in T,
           \A x \in T, c \in Parts : lookup_component(mount_table[m].fs, x, c) \in T
    PROVE  vfs_lookup_path(path) \in T
<1>1. Matches(m, path) /\ m \in 1 .. Len(mount_table)
  BY FindMount, Zenon DEF BestMount, Matches
<1>2. PICK n : n = Len(mount_table[m].path)
  BY Zenon
<1>3. n \in Nat /\ n <= Len(path)
  BY <1>1, <1>2, MountFields, Zenon DEF Matches, starts
<1>4. n \in 0 .. Len(path) /\ \A k \in n + 1 .. Len(path) : path[k] \in Parts
  BY <1>3
<1>5. walk(mount_table[m].fs, mount_table[m].root, path, n) \in T
  BY <1>4, WalkStays, Zenon
<1> QED  BY <1>2, <1>5, Zenon DEF vfs_lookup_path

LEMMA LookupInDirectory ==
    ASSUME WellOrdered, mount_table \in Seq(Mounts), NEW path \in Seq(Parts), NEW c \in Parts,
           NEW m, m = vfs_find_mount(path), m # 0, m = vfs_find_mount(Append(path, c))
    PROVE  vfs_lookup_path(Append(path, c)) =
               lookup_component(mount_table[m].fs, vfs_lookup_path(path), c)
<1>1. Matches(m, path) /\ m \in 1 .. Len(mount_table)
  BY FindMount, Zenon DEF BestMount, Matches
<1>2. PICK n : n = Len(mount_table[m].path)
  BY Zenon
<1>3. n \in Nat /\ n <= Len(path)
  BY <1>1, <1>2, MountFields, Zenon DEF Matches, starts
<1>4. n \in 0 .. Len(path)
  BY <1>3
<1>5. walk(mount_table[m].fs, mount_table[m].root, Append(path, c), n) =
        lookup_component(mount_table[m].fs,
                         walk(mount_table[m].fs, mount_table[m].root, path, n), c)
  BY <1>4, WalkOneMore
<1> QED  BY <1>2, <1>5, Zenon DEF vfs_lookup_path

(* The inodes of ramfs a path can lead to.                                 *)
RamDir == {NullInode} \cup {InRam(i) : i \in {j \in 0 .. ramfs.file_count - 1 : Plain(ramfs, j)}}

LEMMA RamStep ==
    ASSUME WellOrdered, RamfsInv(ramfs), NEW x \in RamDir, NEW c \in Parts
    PROVE  lookup_component("ramfs", x, c) \in RamDir
<1>0. ramfs \in RamfsType /\ RamfsTables(ramfs) /\ ramfs.file_count \in Nat
  <2>1. ramfs \in RamfsType /\ RamfsTables(ramfs)
    BY Zenon DEF RamfsInv, RamfsTables
  <2> QED  BY <2>1, EntriesBelow, Zenon
<1>1. CASE x = NullInode \/ c = "."
  BY <1>1, Zenon DEF lookup_component
<1>2. CASE x # NullInode /\ c # "."
  <2>1. PICK i \in 0 .. ramfs.file_count - 1 : Plain(ramfs, i) /\ x = InRam(i)
    BY <1>2, Zenon DEF RamDir
  <2>2. i \in Nat /\ x.fs = "ramfs" /\ x.id = i /\ i \in Entries
    BY <1>0, <2>1, RamInodes, EntriesBelow
  <2>3. CASE c = ".."
    <3>1. inode_parent(x) = InRam(ramfs.parent[i])
      BY <2>2, Zenon DEF inode_parent
    <3>2. lookup_component("ramfs", x, c) \in {x, inode_parent(x)}
      BY <1>2, <2>3, Zenon DEF lookup_component
    <3>3. inode_parent(x) \in RamDir
      <4>1. CASE i = 0
        BY <3>1, <4>1, NoInodes, Zenon DEF RamDir, RamfsInv
      <4>2. CASE i # 0
        <5>1. i \in 1 .. ramfs.file_count - 1
          BY <1>0, <4>2
        <5>2. ramfs.parent[i] # None /\ Plain(ramfs, ramfs.parent[i])
          BY <5>1, Zenon DEF RamfsInv
        <5>3. ramfs.parent[i] < i /\ ramfs.parent[i] \in Entries \cup {None}
          BY <1>0, <2>2 DEF RamfsTables, RamfsType
        <5>4. ramfs.parent[i] \in 0 .. ramfs.file_count - 1
          BY <1>0, <2>2, <5>2, <5>3 DEF Entries
        <5> QED  BY <3>1, <5>2, <5>4, Zenon DEF RamDir
      <4> QED  BY <4>1, <4>2
    <3> QED  BY <3>2, <3>3, Zenon
  <2>4. CASE c # ".."
    <3>1. lookup_component("ramfs", x, c) = InRam(ramfs_find_file(ramfs, i, c))
      BY <1>2, <2>2, <2>4, Zenon DEF lookup_component, ramfs_lookup
    <3>2. CASE ramfs_find_file(ramfs, i, c) = None
      BY <3>1, <3>2, NoInodes, Zenon DEF RamDir
    <3>3. CASE ramfs_find_file(ramfs, i, c) # None
      <4>1. PICK j : j = ramfs_find_file(ramfs, i, c)
        BY Zenon
      <4>2. j \in 0 .. ramfs.file_count - 1 /\ ramfs.name[j] = c
        <5>1. \/ ramfs_find_file(ramfs, i, c) = None
              \/ /\ ramfs_find_file(ramfs, i, c) \in 0 .. ramfs.file_count - 1
                 /\ ramfs.name[ramfs_find_file(ramfs, i, c)] = c
          BY <1>0, FindFile
        <5> QED  BY <3>3, <4>1, <5>1, Zenon
      <4>3. c # NoName
        BY VfsAssumption, Zenon DEF Parts
      <4>4. Plain(ramfs, j)
        BY <1>2, <2>4, <4>2, <4>3, Zenon DEF Plain
      <4> QED  BY <3>1, <4>1, <4>2, <4>4, Zenon DEF RamDir
    <3> QED  BY <3>2, <3>3
  <2> QED  BY <2>3, <2>4
<1> QED  BY <1>1, <1>2

InDevs(L) == {NullInode} \cup {InDev(n) : n \in L}

LEMMA DevStep ==
    ASSUME WellOrdered, DevfsInv(devfs), NEW L \in SUBSET Inodes,
           \A i \in 1 .. Len(devfs.nodes) : devfs.nodes[i].inode \in L,
           \A n \in L : devfs.parent[n] \in L \cup {NoInode},
           NEW x \in InDevs(L), NEW c \in Parts
    PROVE  lookup_component("devfs", x, c) \in InDevs(L)
<1>1. CASE x = NullInode \/ c = "."
  BY <1>1, Zenon DEF lookup_component
<1>2. CASE x # NullInode /\ c # "."
  <2>1. PICK n \in L : x = InDev(n)
    BY <1>2, Zenon DEF InDevs
  <2>2. x.fs # "ramfs" /\ x.id = n
    BY <2>1, DevInodes, Zenon
  <2>3. CASE c = ".."
    <3>1. inode_parent(x) = InDev(devfs.parent[n])
      BY <2>2, Zenon DEF inode_parent
    <3>2. lookup_component("devfs", x, c) \in {x, inode_parent(x)}
      BY <1>2, <2>3, Zenon DEF lookup_component
    <3>3. inode_parent(x) \in InDevs(L)
      BY <2>1, <3>1, NoInodes, Zenon DEF InDevs
    <3> QED  BY <3>2, <3>3, Zenon
  <2>4. CASE c # ".."
    <3>1. lookup_component("devfs", x, c) = InDev(devfs_lookup(devfs, c))
      BY <1>2, <2>4, Zenon DEF lookup_component
    <3>2. devfs_lookup(devfs, c) \in L \cup {NoInode}
      <4>1. devfs.nodes \in Seq(Nodes)
        BY DevfsFields, Zenon DEF DevfsInv
      <4> QED  BY <4>1, FindNode, Zenon DEF devfs_lookup
    <3> QED  BY <3>1, <3>2, NoInodes, Zenon DEF InDevs
  <2> QED  BY <2>3, <2>4
<1> QED  BY <1>1, <1>2
-----------------------------------------------------------------------------
(* Files as sequences of bytes.                                            *)

LEMMA ContentsAre ==
    ASSUME NEW r, RamfsTables(r), NEW i \in Entries
    PROVE  /\ FileContents(r)[i] \in Seq(Bytes) /\ Len(FileContents(r)[i]) = r.size[i]
           /\ r.size[i] \in 0 .. RAMFS_MAX_FILE_SIZE
           /\ \A k \in 1 .. r.size[i] : FileContents(r)[i][k] = r.buffers[i][k - 1]
<1>1. PICK c : c = FileContents(r)[i]
  BY Zenon
<1>2. PICK n : n = r.size[i]
  BY Zenon
<1>3. n \in 0 .. RAMFS_MAX_FILE_SIZE /\ r.buffers[i] \in Buffer /\ (~r.data[i] => n = 0)
  BY <1>2 DEF RamfsTables, RamfsType
<1>4. c = IF r.data[i] THEN [k \in 1 .. n |-> r.buffers[i][k - 1]] ELSE << >>
  BY <1>1, <1>2, Zenon DEF FileContents
<1>5. \A k \in 1 .. n : r.buffers[i][k - 1] \in Bytes
  <2>1. \A k \in 1 .. n : k - 1 \in 0 .. RAMFS_MAX_FILE_SIZE - 1
    BY <1>3, RamfsAssumption
  <2> QED  BY <1>3, <2>1, Zenon DEF Buffer
<1>6. n \in Nat
  BY <1>3, RamfsAssumption
<1>7. CASE r.data[i]
  <2>1. c = [k \in 1 .. n |-> r.buffers[i][k - 1]]
    BY <1>4, <1>7, Zenon
  <2>2. c \in Seq(Bytes) /\ Len(c) = n
    BY <1>5, <1>6, <2>1
  <2>3. \A k \in 1 .. n : c[k] = r.buffers[i][k - 1]
    BY <2>1, Zenon
  <2> QED  BY <1>1, <1>2, <1>3, <2>2, <2>3, Zenon
<1>8. CASE ~r.data[i]
  <2>1. c = << >> /\ n = 0
    BY <1>3, <1>4, <1>8, Zenon
  <2>2. c \in Seq(Bytes) /\ Len(c) = n /\ \A k \in 1 .. n : c[k] = r.buffers[i][k - 1]
    BY <2>1
  <2> QED  BY <1>1, <1>2, <1>3, <2>2, Zenon
<1> QED  BY <1>7, <1>8

LEMMA SameContents ==
    ASSUME NEW r, NEW e, e.size = r.size, e.data = r.data, e.buffers = r.buffers
    PROVE  FileContents(e) = FileContents(r)
BY Zenon DEF FileContents

LEMMA EmptiedContents ==
    ASSUME NEW r \in RamfsType, NEW e, NEW i \in Entries, e.size = [r.size EXCEPT ![i] = 0],
           e.data = [r.data EXCEPT ![i] = FALSE], e.buffers = r.buffers
    PROVE  FileContents(e) = [FileContents(r) EXCEPT ![i] = << >>]
<1>1. DOMAIN r.size = Entries /\ DOMAIN r.data = Entries
  BY DEF RamfsType
<1>2. PICK a : a = FileContents(e)
  BY Zenon
<1>3. PICK b : b = FileContents(r)
  BY Zenon
<1>4. /\ a = [j \in Entries |-> IF e.data[j]
                                THEN [k \in 1 .. e.size[j] |-> e.buffers[j][k - 1]] ELSE << >>]
      /\ b = [j \in Entries |-> IF r.data[j]
                                THEN [k \in 1 .. r.size[j] |-> r.buffers[j][k - 1]] ELSE << >>]
  BY <1>2, <1>3, Zenon DEF FileContents
<1>5. ~e.data[i] /\ \A j \in Entries \ {i} : e.data[j] = r.data[j] /\ e.size[j] = r.size[j]
  BY <1>1
<1>6. \A j \in Entries : a[j] = IF j = i THEN << >> ELSE b[j]
  <2> SUFFICES ASSUME NEW j \in Entries PROVE a[j] = IF j = i THEN << >> ELSE b[j]
    OBVIOUS
  <2>1. CASE j = i
    BY <1>4, <1>5, <2>1, Zenon
  <2>2. CASE j # i
    <3>1. e.data[j] = r.data[j] /\ e.size[j] = r.size[j] /\ e.buffers[j] = r.buffers[j]
      BY <1>5, <2>2, Zenon
    <3> QED  BY <1>4, <2>2, <3>1, Zenon
  <2> QED  BY <2>1, <2>2
<1>7. a = [j \in Entries |-> a[j]] /\ b = [j \in Entries |-> b[j]]
  BY <1>4
<1> HIDE <1>4
<1>8. a = [b EXCEPT ![i] = << >>]
  BY <1>6, <1>7
<1> QED  BY <1>2, <1>3, <1>8, Zenon

LEMMA BootContents == FileContents(ramfs_mount(ramfs_state_at_boot)) = [i \in Entries |-> << >>]
<1>1. PICK b : b = ramfs_state_at_boot
  BY Zenon
<1>2. PICK e : e = ramfs_mount(b)
  BY Zenon
<1>3. 0 \in Entries
  BY RamfsAssumption DEF Entries
<1>4. e.data = [b.data EXCEPT ![0] = FALSE]
  BY <1>1, <1>2, BootTables, MountRamfs, Zenon
<1>5. b.data = [i \in Entries |-> FALSE]
  BY <1>1 DEF ramfs_state_at_boot
<1>6. \A i \in Entries : ~e.data[i]
  BY <1>3, <1>4, <1>5
<1>7. FileContents(e) = [i \in Entries |-> << >>]
  BY <1>6, Zenon DEF FileContents
<1> QED  BY <1>1, <1>2, <1>7, Zenon

(* A read returns the bytes from pos on, as far as the file goes.          *)
LEMMA ReadContents ==
    ASSUME NEW r, RamfsTables(r), NEW i \in Entries, NEW pos \in Nat, NEW n \in Nat
    PROVE  LET c == FileContents(r)[i]
               l == Len(c)
           IN  /\ ramfs_read(r, i, pos, n) =
                     SubSeq(c, pos + 1, IF pos + n < l THEN pos + n ELSE l)
               /\ ramfs_read(r, i, pos, n) \in Seq(Bytes)
<1>1. PICK c : c = FileContents(r)[i]
  BY Zenon
<1>2. PICK l : l = r.size[i]
  BY Zenon
<1>3. PICK g : g = ramfs_read(r, i, pos, n)
  BY Zenon
<1>4. /\ c \in Seq(Bytes) /\ Len(c) = l /\ l \in 0 .. RAMFS_MAX_FILE_SIZE
      /\ \A k \in 1 .. l : c[k] = r.buffers[i][k - 1]
  <2>1. /\ FileContents(r)[i] \in Seq(Bytes) /\ Len(FileContents(r)[i]) = r.size[i]
        /\ r.size[i] \in 0 .. RAMFS_MAX_FILE_SIZE
        /\ \A k \in 1 .. r.size[i] : FileContents(r)[i][k] = r.buffers[i][k - 1]
    BY ContentsAre
  <2> QED  BY <1>1, <1>2, <2>1, Zenon
<1>5. l \in Nat /\ (~r.data[i] => l = 0)
  BY <1>2, <1>4, RamfsAssumption DEF RamfsTables
<1>6. PICK to_read : to_read = IF pos + n > l THEN l - pos ELSE n
  BY Zenon
<1>7. g = IF ~r.data[i] \/ pos >= l THEN << >>
          ELSE [k \in 1 .. to_read |-> r.buffers[i][pos + k - 1]]
  BY <1>2, <1>3, <1>6, Zenon DEF ramfs_read
<1>8. PICK q : q = IF pos + n < l THEN pos + n ELSE l
  BY Zenon
<1>9. g = SubSeq(c, pos + 1, q) /\ g \in Seq(Bytes)
  <2>1. CASE ~r.data[i] \/ pos >= l
    <3>1. g = << >> /\ q = l /\ pos + 1 > q
      BY <1>5, <1>7, <1>8, <2>1
    <3>2. SubSeq(c, pos + 1, q) = << >> /\ << >> \in Seq(Bytes)
      BY <1>4, <1>5, <3>1
    <3> QED  BY <3>1, <3>2, Zenon
  <2>2. CASE r.data[i] /\ pos < l
    <3>1. to_read \in Nat /\ pos + to_read = q /\ q <= l
      BY <1>5, <1>6, <1>8, <2>2
    <3>2. g = [k \in 1 .. to_read |-> r.buffers[i][pos + k - 1]]
      BY <1>5, <1>7, <2>2
    <3>3. \A k \in 1 .. to_read : pos + k \in 1 .. l /\ (pos + k) - 1 = pos + k - 1
      BY <1>5, <3>1
    <3>4. \A k \in 1 .. to_read : c[pos + k] = r.buffers[i][pos + k - 1]
      BY <1>4, <3>3
    <3>5. g = [k \in 1 .. to_read |-> c[pos + k]]
      BY <3>2, <3>4
    <3>6. SubSeq(c, pos + 1, q) = [k \in 1 .. to_read |-> c[pos + k]]
      BY <1>4, <1>5, <3>1
    <3>7. \A k \in 1 .. to_read : c[pos + k] \in Bytes
      BY <1>4, <3>3
    <3>8. g \in Seq(Bytes)
      BY <3>1, <3>5, <3>7
    <3> QED  BY <3>5, <3>6, <3>8, Zenon
  <2> QED  BY <1>5, <2>1, <2>2
<1> QED  BY <1>1, <1>3, <1>4, <1>8, <1>9, Zenon

(* A write replaces the bytes it covers and no others.                     *)
Overwritten(new, old, i, pos, buf) ==
    LET end == pos + Len(buf) IN
    /\ Len(new[i]) = IF end > Len(old[i]) THEN end ELSE Len(old[i])
    /\ \A k \in pos + 1 .. end : new[i][k] = buf[k - pos]
    /\ \A k \in DOMAIN old[i] \ (pos + 1 .. end) : new[i][k] = old[i][k]
    /\ \A j \in Entries \ {i} : new[j] = old[j]

LEMMA WriteContents ==
    ASSUME NEW r, RamfsInv(r), NEW i \in Entries, NEW pos \in Nat, NEW buf \in Seq(Bytes),
           ~ramfs_write_fails(r, i, pos, buf)
    PROVE  Overwritten(FileContents(ramfs_write(r, i, pos, buf)), FileContents(r), i, pos, buf)
<1>1. PICK e : e = ramfs_write(r, i, pos, buf)
  BY Zenon
<1>2. PICK end : end = pos + Len(buf)
  BY Zenon
<1>3. /\ RamfsInv(e)
      /\ e.size = [r.size EXCEPT ![i] = IF end > r.size[i] THEN end ELSE r.size[i]]
      /\ e.data = [r.data EXCEPT ![i] = r.data[i] \/ end > 0]
      /\ \A j \in Entries \ {i} : e.buffers[j] = r.buffers[j]
      /\ \A k \in 0 .. RAMFS_MAX_FILE_SIZE - 1 :
            e.buffers[i][k] = IF k \in pos .. end - 1 THEN buf[k - pos + 1] ELSE r.buffers[i][k]
  <2>1. Written(e, r, i, pos, buf)
    BY <1>1, WriteRamfs, Zenon
  <2> QED  BY <1>2, <2>1, Zenon DEF Written
<1>4. RamfsTables(r) /\ RamfsTables(e) /\ r \in RamfsType
  BY <1>3, Zenon DEF RamfsInv, RamfsTables
<1>5. DOMAIN r.size = Entries /\ DOMAIN r.data = Entries
  BY <1>4 DEF RamfsType
<1>6. PICK o : o = FileContents(r)[i]
  BY Zenon
<1>7. PICK w : w = FileContents(e)[i]
  BY Zenon
<1>8. /\ o \in Seq(Bytes) /\ Len(o) = r.size[i] /\ r.size[i] \in 0 .. RAMFS_MAX_FILE_SIZE
      /\ \A k \in 1 .. r.size[i] : o[k] = r.buffers[i][k - 1]
  BY <1>4, <1>6, ContentsAre, ZenonT(60)
<1>9. /\ w \in Seq(Bytes) /\ Len(w) = e.size[i] /\ e.size[i] \in 0 .. RAMFS_MAX_FILE_SIZE
      /\ \A k \in 1 .. e.size[i] : w[k] = e.buffers[i][k - 1]
  BY <1>4, <1>7, ContentsAre, ZenonT(60)
<1>10. e.size[i] = IF end > r.size[i] THEN end ELSE r.size[i]
  BY <1>3, <1>5, Zenon
<1>11. end \in Nat /\ r.size[i] \in Nat /\ e.size[i] \in Nat
  BY <1>2, <1>8, <1>9, RamfsAssumption
<1>12. \A k \in pos + 1 .. end : w[k] = buf[k - pos]
  <2> SUFFICES ASSUME NEW k \in pos + 1 .. end PROVE w[k] = buf[k - pos]
    OBVIOUS
  <2>1. /\ k \in 1 .. e.size[i] /\ k - 1 \in 0 .. RAMFS_MAX_FILE_SIZE - 1
        /\ k - 1 \in pos .. end - 1 /\ (k - 1) - pos + 1 = k - pos
    BY <1>9, <1>10, <1>11, RamfsAssumption
  <2> QED  BY <1>3, <1>9, <2>1, Zenon
<1>13. \A k \in DOMAIN o \ (pos + 1 .. end) : w[k] = o[k]
  <2> SUFFICES ASSUME NEW k \in DOMAIN o \ (pos + 1 .. end) PROVE w[k] = o[k]
    OBVIOUS
  <2>1. /\ k \in 1 .. r.size[i] /\ k \in 1 .. e.size[i]
        /\ k - 1 \in 0 .. RAMFS_MAX_FILE_SIZE - 1 /\ k - 1 \notin pos .. end - 1
    BY <1>8, <1>10, <1>11, RamfsAssumption, SMTT(60)
  <2> QED  BY <1>3, <1>8, <1>9, <2>1, Zenon
<1>14. \A j \in Entries \ {i} : FileContents(e)[j] = FileContents(r)[j]
  <2> SUFFICES ASSUME NEW j \in Entries \ {i} PROVE FileContents(e)[j] = FileContents(r)[j]
    OBVIOUS
  <2>1. e.size[j] = r.size[j] /\ e.data[j] = r.data[j] /\ e.buffers[j] = r.buffers[j]
    BY <1>3, <1>5, Zenon
  <2> QED  BY <2>1, Zenon DEF FileContents
<1> QED  BY <1>1, <1>2, <1>6, <1>7, <1>8, <1>9, <1>10, <1>12, <1>13, <1>14, Zenon DEF Overwritten
-----------------------------------------------------------------------------
(* Open files.                                                             *)

HandleType == [inode : InodePtrs, pos : Nat]

FileOK(x) ==
    /\ x \in HandleType
    /\ x # Free => x.inode # NullInode /\ (x.inode.fs = "devfs" => x.pos <= DEV_MODE)

FileInv(f) == f \in [Handles -> HandleType] /\ \A h \in Handles : FileOK(f[h])

LEMMA PtrKinds ==
    ASSUME NEW x \in InodePtrs, x # NullInode
    PROVE  \/ x.fs = "ramfs" /\ x.id \in Entries
           \/ x.fs = "devfs" /\ x.fs # "ramfs"
<1>1. CASE \E i \in Entries : x = InRam(i)
  <2>1. PICK i \in Entries : x = InRam(i)
    BY <1>1
  <2>2. i \in Nat
    BY RamfsAssumption DEF Entries
  <2> QED  BY <2>1, <2>2, RamInodes, Zenon
<1>2. CASE \E n \in Inodes : x = InDev(n)
  BY <1>2, DevInodes, Zenon
<1> QED  BY <1>1, <1>2, Zenon DEF InodePtrs

LEMMA OpenFree == OpenFile(Free) = [file |-> -1, pos |-> 0]
BY DEF OpenFile, Free

LEMMA FreeOK == FileOK(Free)
<1>1. 0 \in Nat /\ NullInode \in InodePtrs
  BY DEF InodePtrs
<1> QED  BY <1>1, Zenon DEF FileOK, Free, HandleType

LEMMA OpenIs ==
    ASSUME NEW x, FileOK(x), x # Free
    PROVE  /\ OpenFile(x).pos = x.pos /\ x.pos \in Nat
           /\ OpenFile(x) # [file |-> -1, pos |-> 0]
           /\ \/ /\ x.inode.fs = "ramfs" /\ x.inode.id \in Entries
                 /\ OpenFile(x) = [file |-> x.inode.id, pos |-> x.pos]
              \/ /\ x.inode.fs = "devfs" /\ x.inode.fs # "ramfs"
                 /\ OpenFile(x) = [file |-> -2, pos |-> x.pos]
<1>1. x.inode \in InodePtrs /\ x.inode # NullInode /\ x.pos \in Nat
  BY DEF FileOK, HandleType
<1>2. PICK o : o = OpenFile(x)
  BY Zenon
<1>3. CASE x.inode.fs = "ramfs" /\ x.inode.id \in Entries
  <2>1. o = [file |-> x.inode.id, pos |-> x.pos]
    BY <1>2, <1>3, Zenon DEF OpenFile
  <2>2. x.inode.id # -1
    BY <1>3, RamfsAssumption DEF Entries
  <2>3. o.pos = x.pos /\ o.file = x.inode.id
    BY <2>1
  <2>4. o # [file |-> -1, pos |-> 0]
    BY <2>2, <2>3
  <2> QED  BY <1>1, <1>2, <1>3, <2>1, <2>3, <2>4, Zenon
<1>4. CASE x.inode.fs = "devfs" /\ x.inode.fs # "ramfs"
  <2>1. o = [file |-> -2, pos |-> x.pos]
    BY <1>2, <1>4, Zenon DEF OpenFile
  <2>2. o.pos = x.pos /\ o # [file |-> -1, pos |-> 0]
    BY <2>1
  <2> QED  BY <1>1, <1>2, <1>4, <2>1, <2>2, Zenon
<1> QED  BY <1>1, <1>3, <1>4, PtrKinds, Zenon

LEMMA SetHandle ==
    ASSUME NEW f, FileInv(f), NEW h \in Handles, NEW x, FileOK(x)
    PROVE  /\ FileInv([f EXCEPT ![h] = x])
           /\ OpenFiles([f EXCEPT ![h] = x]) = [OpenFiles(f) EXCEPT ![h] = OpenFile(x)]
           /\ OpenFiles(f)[h] = OpenFile(f[h])
<1>1. PICK g : g = [f EXCEPT ![h] = x]
  BY Zenon
<1>2. f \in [Handles -> HandleType] /\ x \in HandleType
  BY Zenon DEF FileInv, FileOK
<1>3. g \in [Handles -> HandleType] /\ \A k \in Handles : g[k] = IF k = h THEN x ELSE f[k]
  BY <1>1, <1>2
<1>4. FileInv(g)
  BY <1>3, Zenon DEF FileInv
<1>5. PICK a : a = OpenFiles(f)
  BY Zenon
<1>6. PICK b : b = OpenFiles(g)
  BY Zenon
<1>7. a = [k \in Handles |-> OpenFile(f[k])] /\ b = [k \in Handles |-> OpenFile(g[k])]
  BY <1>5, <1>6, Zenon DEF OpenFiles
<1>8. \A k \in Handles : b[k] = IF k = h THEN OpenFile(x) ELSE a[k]
  BY <1>3, <1>7, Zenon
<1>9. b = [a EXCEPT ![h] = OpenFile(x)]
  BY <1>7, <1>8
<1>10. a[h] = OpenFile(f[h])
  BY <1>7, Zenon
<1> QED  BY <1>1, <1>4, <1>5, <1>6, <1>9, <1>10, Zenon

MayMove(f, h, p) == f[h] # Free /\ (f[h].inode.fs = "devfs" => p <= DEV_MODE)

Moved(f, h, p) ==
    /\ FileInv([f EXCEPT ![h].pos = p])
    /\ OpenFiles([f EXCEPT ![h].pos = p]) = [OpenFiles(f) EXCEPT ![h].pos = p]
    /\ OpenFiles(f)[h] = OpenFile(f[h])

LEMMA MoveHandle ==
    ASSUME NEW f, FileInv(f), NEW h \in Handles, NEW p \in Nat, MayMove(f, h, p)
    PROVE  Moved(f, h, p)
<1>0. f[h] # Free /\ (f[h].inode.fs = "devfs" => p <= DEV_MODE)
  BY Zenon DEF MayMove
<1>1. PICK x : x = f[h]
  BY Zenon
<1>2. PICK y : y = [x EXCEPT !.pos = p]
  BY Zenon
<1>3. FileOK(x) /\ x # Free /\ x \in HandleType /\ x.inode # NullInode
  BY <1>0, <1>1, Zenon DEF FileInv, FileOK
<1>4. y \in HandleType /\ y.inode = x.inode /\ y.pos = p
  BY <1>2, <1>3 DEF HandleType
<1>5. Free.inode = NullInode
  BY DEF Free
<1>6. FileOK(y) /\ y # Free
  BY <1>0, <1>1, <1>3, <1>4, <1>5, Zenon DEF FileOK
<1>7. [f EXCEPT ![h].pos = p] = [f EXCEPT ![h] = y]
  BY <1>1, <1>2 DEF FileInv
<1>8. OpenFile(y) = [OpenFile(x) EXCEPT !.pos = p]
  BY <1>3, <1>4, <1>6 DEF OpenFile
<1>9. PICK a : a = OpenFiles(f)
  BY Zenon
<1>10. FileInv([f EXCEPT ![h] = y]) /\ OpenFiles([f EXCEPT ![h] = y]) = [a EXCEPT ![h] = OpenFile(y)]
       /\ a[h] = OpenFile(x)
  BY <1>1, <1>6, <1>9, SetHandle, ZenonT(60)
<1>11. a = [k \in Handles |-> a[k]]
  BY <1>9 DEF OpenFiles
<1>12. [a EXCEPT ![h] = OpenFile(y)] = [a EXCEPT ![h].pos = p]
  BY <1>8, <1>10, <1>11
<1> QED  BY <1>1, <1>7, <1>9, <1>10, <1>12, Zenon DEF Moved
-----------------------------------------------------------------------------
(* The inductive invariant.                                                *)

VfsInv ==
    /\ WellOrdered /\ RangesBound /\ client \in Clients
    /\ RamfsInv(ramfs) /\ DevfsInv(devfs) /\ MountInv(mount_table) /\ FileInv(file)
    /\ got \in Seq(Bytes)

(* The steps of the abstract store, by what they leave of the mapped       *)
(* variables.                                                              *)
LEMMA FailStep ==
    ASSUME got' = << >>, ramfs'.file_count = ramfs.file_count,
           FileContents(ramfs') = FileContents(ramfs), OpenFiles(file') = OpenFiles(file)
    PROVE  Store!Next
<1>1. Store!Fail
  BY DEF Store!Fail
<1> QED  BY <1>1, Zenon DEF Store!Next

LEMMA CanCreate ==
    ASSUME VfsInv, NEW path \in Paths, can_create(path)
    PROVE  \E dir \in 0 .. ramfs.file_count - 1 :
              /\ Plain(ramfs, dir) /\ parent_inode(path).id = dir
              /\ file_name(path) \in Names \cup {NoName}
              /\ ~ramfs_mkdir_fails(ramfs, dir, file_name(path))
<1>1. PICK m : m = vfs_find_mount(path)
  BY Zenon
<1>2. /\ m # 0 /\ mount_table[m].fs = "ramfs" /\ parent_inode(path) # NullInode
      /\ ~ramfs_mkdir_fails(ramfs, parent_inode(path).id, file_name(path))
  BY <1>1, Zenon DEF can_create
<1>3. /\ WellOrdered /\ RamfsInv(ramfs) /\ MountInv(mount_table) /\ mount_table \in Seq(Mounts)
      /\ \A i \in 1 .. Len(mount_table) : MountOK(mount_table[i])
  BY Zenon DEF VfsInv, MountInv
<1>4. path \in Seq(Parts) /\ \A k \in DOMAIN path : path[k] = "/" <=> k = 1
  BY Zenon DEF Paths, Parts
<1>5. m \in 1 .. Len(mount_table) /\ Matches(m, path)
  BY <1>1, <1>2, <1>3, <1>4, FindMount, Zenon DEF BestMount, Matches
<1>6. mount_table[m].root = InRam(0)
  BY <1>2, <1>3, <1>5, Zenon DEF MountOK
<1>7. ramfs.file_count \in Nat /\ ramfs.file_count # 0
  <2>1. ramfs \in RamfsType /\ ramfs.file_count # 0
    BY <1>3, Zenon DEF RamfsInv, RamfsTables
  <2> QED  BY <2>1, EntriesBelow, Zenon
<1>8. InRam(0) \in RamDir
  <2>1. 0 \in 0 .. ramfs.file_count - 1 /\ Plain(ramfs, 0)
    BY <1>7 DEF Plain
  <2> QED  BY <2>1, Zenon DEF RamDir
<1>9. parent_inode(path) \in RamDir
  <2>1. CASE Len(path) <= 2
    BY <1>1, <1>6, <1>8, <2>1, Zenon DEF parent_inode
  <2>2. CASE ~(Len(path) <= 2)
    <3>1. PICK above : above = SubSeq(path, 1, Len(path) - 1)
      BY Zenon
    <3>2. above \in Seq(Parts) /\ Len(path) > 2
      BY <1>4, <2>2, <3>1
    <3>3. vfs_find_mount(above) = m
      BY <1>1, <1>2, <1>3, <1>4, <3>1, <3>2, SameMountAbove, Zenon
    <3>4. \A x \in RamDir, c \in Parts : lookup_component(mount_table[m].fs, x, c) \in RamDir
      BY <1>2, <1>3, RamStep, Zenon
    <3>5. vfs_lookup_path(above) \in RamDir
      BY <1>2, <1>3, <1>6, <1>8, <3>2, <3>3, <3>4, LookupStays, Zenon
    <3> QED  BY <2>2, <3>1, <3>5, Zenon DEF parent_inode
  <2> QED  BY <2>1, <2>2
<1>10. PICK dir \in 0 .. ramfs.file_count - 1 : Plain(ramfs, dir) /\ parent_inode(path) = InRam(dir)
  BY <1>2, <1>9, Zenon DEF RamDir
<1>11. parent_inode(path).id = dir
  BY <1>7, <1>10, RamInodes
<1>12. file_name(path) \in Names \cup {NoName}
  <2>1. CASE path = <<"/">>
    BY <2>1, Zenon DEF file_name
  <2>2. CASE path # <<"/">>
    <3>1. Len(path) \in Nat /\ Len(path) # 0
      <4>1. PICK p \in Seq(Parts) : p = mount_table[m].path
        BY <1>3, <1>5, MountFields, Zenon
      <4>2. p # << >> /\ Len(p) <= Len(path)
        BY <1>5, <4>1, Zenon DEF Matches, starts
      <4> QED  BY <1>4, <4>2
    <3>2. Len(path) # 1
      <4> SUFFICES ASSUME Len(path) = 1 PROVE FALSE
        OBVIOUS
      <4>1. path[1] = "/"
        BY <1>4, <3>1
      <4>2. path = <<"/">>
        BY <1>4, <4>1
      <4> QED  BY <2>2, <4>2
    <3>3. Len(path) \in DOMAIN path /\ path[Len(path)] \in Parts
      BY <1>4, <3>1
    <3>4. path[Len(path)] # "/"
      BY <1>4, <3>2, <3>3, Zenon
    <3> QED  BY <2>2, <3>3, <3>4, Zenon DEF file_name, Parts
  <2> QED  BY <2>1, <2>2
<1> QED  BY <1>2, <1>10, <1>11, <1>12, Zenon

(* What creating a file does to ramfs and to the store.                    *)
Created(r, e) ==
    /\ RamfsInv(e) /\ r.file_count \in Entries /\ e.file_count = r.file_count + 1
    /\ e.isize[r.file_count] = 0
    /\ FileContents(e) = [FileContents(r) EXCEPT ![r.file_count] = << >>]

LEMMA CreateRamfs ==
    ASSUME VfsInv, NEW path \in Paths, can_create(path)
    PROVE  Created(ramfs, ramfs_mkdir(ramfs, parent_inode(path).id, file_name(path)))
<1>1. PICK dir \in 0 .. ramfs.file_count - 1 :
         /\ Plain(ramfs, dir) /\ parent_inode(path).id = dir
         /\ file_name(path) \in Names \cup {NoName}
         /\ ~ramfs_mkdir_fails(ramfs, dir, file_name(path))
  BY CanCreate, Zenon
<1>2. PICK name \in Names \cup {NoName} : name = file_name(path)
  BY <1>1, Zenon
<1>3. PICK r : r = ramfs
  BY Zenon
<1>4. PICK e : e = ramfs_mkdir(r, dir, name)
  BY Zenon
<1>5. WellOrdered /\ RamfsInv(r) /\ ~ramfs_mkdir_fails(r, dir, name) /\ r \in RamfsType
  BY <1>1, <1>2, <1>3, SMTT(60) DEF VfsInv, RamfsInv, RamfsTables
<1>6. /\ RamfsInv(e) /\ r.file_count \in Entries /\ e.file_count = r.file_count + 1
      /\ e.size = [r.size EXCEPT ![r.file_count] = 0]
      /\ e.isize = [r.isize EXCEPT ![r.file_count] = 0]
      /\ e.data = [r.data EXCEPT ![r.file_count] = FALSE] /\ e.buffers = r.buffers
  <2>1. dir \in 0 .. r.file_count - 1 /\ Plain(r, dir)
    BY <1>1, <1>3, Zenon
  <2>2. Made(r, e)
    BY <1>4, <1>5, <2>1, MkdirRamfs, Zenon
  <2> QED  BY <2>2, Zenon DEF Made
<1>7. e.isize[r.file_count] = 0
  BY <1>5, <1>6 DEF RamfsType
<1>8. FileContents(e) = [FileContents(r) EXCEPT ![r.file_count] = << >>]
  BY <1>5, <1>6, EmptiedContents
<1> QED  BY <1>1, <1>2, <1>3, <1>4, <1>6, <1>7, <1>8, Zenon DEF Created
-----------------------------------------------------------------------------
(* Every step keeps the invariant and is a step of the abstract store.     *)

LEMMA AppendMount ==
    ASSUME NEW t, MountInv(t), Len(t) < MAX_MOUNT_POINTS, NEW m \in Mounts, MountOK(m)
    PROVE  MountInv(Append(t, m))
<1>1. PICK u : u = Append(t, m)
  BY Zenon
<1>2. t \in Seq(Mounts) /\ Len(t) \in Nat /\ Len(t) # 0
  BY DEF MountInv
<1>3. /\ u \in Seq(Mounts) /\ Len(u) = Len(t) + 1 /\ u[Len(t) + 1] = m
      /\ \A i \in 1 .. Len(t) : u[i] = t[i]
  BY <1>1, <1>2
<1>4. Len(u) <= MAX_MOUNT_POINTS /\ Len(u) # 0 /\ 1 \in 1 .. Len(t)
  BY <1>2, <1>3, VfsAssumption
<1>5. \A i \in 1 .. Len(u) : i \in 1 .. Len(t) \/ i = Len(t) + 1
  BY <1>2, <1>3
<1> QED  BY <1>1, <1>3, <1>4, <1>5, Zenon DEF MountInv

LEMMA ShiftMount ==
    ASSUME NEW t, MountInv(t), NEW i \in 1 .. Len(t), t[i].fs = "devfs"
    PROVE  MountInv(shift_down(t, i))
<1>1. PICK u : u = shift_down(t, i)
  BY Zenon
<1>2. t \in Seq(Mounts) /\ Len(t) \in Nat /\ Len(t) <= MAX_MOUNT_POINTS
  BY DEF MountInv
<1>3. t[1].fs = "ramfs" /\ "ramfs" # "devfs"
  BY DEF MountInv
<1>4. i # 1
  BY <1>3, Zenon
<1>5. /\ u \in Seq(Mounts) /\ Len(u) = Len(t) - 1
      /\ \A k \in 1 .. Len(t) - 1 : u[k] = IF k < i THEN t[k] ELSE t[k + 1]
  BY <1>1, <1>2, ShiftDown, Zenon
<1>6. /\ Len(u) <= MAX_MOUNT_POINTS /\ Len(u) # 0 /\ u[1] = t[1]
      /\ \A k \in 1 .. Len(u) : \E j \in 1 .. Len(t) : u[k] = t[j]
  BY <1>2, <1>4, <1>5, VfsAssumption
<1> QED  BY <1>1, <1>5, <1>6, Zenon DEF MountInv

LEMMA ClientPaths ==
    ASSUME VfsInv
    PROVE  /\ client.mkdirs \subseteq Paths /\ client.opens \subseteq Paths
           /\ client.devices \subseteq DevNames
           /\ client.mounts \subseteq {p \in Paths : Len(p) <= 2} \X FileSystems
BY VfsAssumption, Zenon DEF VfsInv

LEMMA MountStep ==
    ASSUME VfsInv, NEW path \in Paths, Len(path) <= 2, NEW fs \in FileSystems, vfs_mount(path, fs)
    PROVE  VfsInv' /\ Store!Next
<1>0. /\ WellOrdered /\ RamfsInv(ramfs) /\ DevfsInv(devfs) /\ MountInv(mount_table)
      /\ ramfs \in RamfsType /\ RamfsTables(ramfs)
  BY Zenon DEF VfsInv, RamfsInv, RamfsTables
<1>1. Len(mount_table) < MAX_MOUNT_POINTS /\ got' = << >> /\ file' = file /\ client' = client
  BY Zenon DEF vfs_mount
<1>2. PICK root : root = IF fs = "ramfs" THEN InRam(ramfs'.root_inode) ELSE InDev(devfs'.root_inode)
  BY Zenon
<1>3. mount_table' = IF root = NullInode THEN mount_table
                     ELSE Append(mount_table, [path |-> path, fs |-> fs, root |-> root])
  BY <1>2, Zenon DEF vfs_mount, ramfs_read_root, devfs_read_root
<1>4. "ramfs" # "devfs" /\ got' \in Seq(Bytes)
  BY <1>1
<1>5. ASSUME root # NullInode => root \in InodePtrs /\ MountOK([path |-> path, fs |-> fs, root |-> root])
      PROVE  MountInv(mount_table')
  <2>1. CASE root = NullInode
    BY <1>0, <1>3, <2>1, Zenon
  <2>2. CASE root # NullInode
    <3>1. PICK m \in Mounts : m = [path |-> path, fs |-> fs, root |-> root]
      BY <1>5, <2>2, Zenon DEF Mounts
    <3> QED  BY <1>0, <1>1, <1>3, <1>5, <2>2, <3>1, AppendMount, Zenon
  <2> QED  BY <2>1, <2>2
<1>6. CASE fs = "ramfs"
  <2>1. ramfs' = ramfs_mount(ramfs) /\ devfs' = devfs
    BY <1>4, <1>6, Zenon DEF vfs_mount
  <2>2. PICK e : e = ramfs_mount(ramfs)
    BY Zenon
  <2>3. /\ RamfsInv(e) /\ e.file_count = 1 /\ e.size = [ramfs.size EXCEPT ![0] = 0]
        /\ e.data = [ramfs.data EXCEPT ![0] = FALSE] /\ e.buffers = ramfs.buffers
    BY <1>0, <2>2, MountRamfs, Zenon
  <2>4. root = InRam(0) /\ 0 \in Entries
    <3>1. e.root_inode = 0
      BY <2>3, Zenon DEF RamfsInv
    <3> QED  BY <1>0, <1>2, <1>6, <2>1, <2>2, <3>1, EntriesBelow, Zenon
  <2>5. MountInv(mount_table')
    <3>1. PICK m : m = [path |-> path, fs |-> fs, root |-> root]
      BY Zenon
    <3>2. m.path = path /\ m.fs # "devfs" /\ m.root = InRam(0)
      BY <1>4, <1>6, <2>4, <3>1
    <3>3. root \in InodePtrs /\ MountOK(m)
      BY <2>4, <3>2, Zenon DEF InodePtrs, MountOK
    <3> QED  BY <1>5, <3>1, <3>3, Zenon
  <2>6. FileContents(e) = [FileContents(ramfs) EXCEPT ![0] = << >>]
    BY <1>0, <2>3, <2>4, EmptiedContents
  <2>7. VfsInv'
    BY <1>0, <1>1, <1>4, <2>1, <2>2, <2>3, <2>5 DEF VfsInv
  <2>8. Store!Discard
    <3>1. 0 .. ramfs'.file_count - 1 = {0}
      BY <2>1, <2>2, <2>3
    <3> QED  BY <1>1, <2>1, <2>2, <2>6, <3>1 DEF Store!Discard
  <2> QED  BY <2>7, <2>8, Zenon DEF Store!Next
<1>7. CASE fs # "ramfs"
  <2>0. fs = "devfs"
    BY <1>7 DEF FileSystems
  <2>1. ramfs' = ramfs /\ \E n \in kmalloc_inode : devfs' = devfs_mount(devfs, n)
    BY <1>7, Zenon DEF vfs_mount
  <2>2. PICK n \in Inodes \cup {NoInode} : devfs' = devfs_mount(devfs, n)
    BY <2>1, Zenon DEF kmalloc_inode
  <2>3. DevfsInv(devfs') /\ root = InDev(n)
    <3>1. DevfsInv(devfs_mount(devfs, n)) /\ devfs_mount(devfs, n).root_inode = n
      BY <1>0, MountDevfs, Zenon
    <3> QED  BY <1>2, <1>7, <2>2, <3>1, Zenon
  <2>4. MountInv(mount_table')
    <3> SUFFICES ASSUME root # NullInode
                 PROVE  root \in InodePtrs /\ MountOK([path |-> path, fs |-> fs, root |-> root])
      BY <1>5, Zenon
    <3>1. PICK m : m = [path |-> path, fs |-> fs, root |-> root]
      BY Zenon
    <3>2. n \in Inodes
      BY <2>3, NoInodes, Zenon
    <3>3. m.path = path /\ m.fs # "ramfs" /\ m.root = InDev(n)
      BY <1>7, <2>3, <3>1
    <3> QED  BY <2>3, <3>1, <3>2, <3>3, Zenon DEF InodePtrs, MountOK
  <2>5. VfsInv'
    BY <1>0, <1>1, <1>4, <2>1, <2>3, <2>4 DEF VfsInv
  <2> QED  BY <1>1, <2>1, <2>5, FailStep, Zenon
<1> QED  BY <1>6, <1>7

LEMMA UnmountStep ==
    ASSUME VfsInv, NEW path, vfs_unmount(path)
    PROVE  VfsInv' /\ Store!Next
<1>1. /\ devfs' = devfs_unmount(devfs) /\ got' = << >>
      /\ ramfs' = ramfs /\ file' = file /\ client' = client
  BY Zenon DEF vfs_unmount
<1>2. PICK i \in DOMAIN mount_table :
         mount_table[i].fs = "devfs" /\ mount_table' = shift_down(mount_table, i)
  BY Zenon DEF vfs_unmount
<1>3. MountInv(mount_table) /\ DevfsInv(devfs) /\ i \in 1 .. Len(mount_table)
  BY <1>2 DEF VfsInv, MountInv
<1>4. MountInv(mount_table')
  BY <1>2, <1>3, ShiftMount, Zenon
<1>5. DevfsInv(devfs')
  BY <1>1, <1>3, UnmountDevfs, Zenon
<1>6. VfsInv'
  BY <1>1, <1>4, <1>5 DEF VfsInv
<1> QED  BY <1>1, <1>6, FailStep, Zenon

LEMMA RegisterStep ==
    ASSUME VfsInv, NEW name \in DevNames, RegisterDevice(name)
    PROVE  VfsInv' /\ Store!Next
<1>1. /\ ~devfs_register_fails(devfs, name) /\ got' = << >> /\ mount_table' = mount_table
      /\ ramfs' = ramfs /\ file' = file /\ client' = client
  BY Zenon DEF RegisterDevice
<1>2. PICK n \in Inodes \ devfs.live : devfs' = devfs_register_device(devfs, name, n)
  BY Zenon DEF RegisterDevice, kmalloc_inode
<1>3. DevfsInv(devfs')
  BY <1>1, <1>2, RegisterDevfs, Zenon DEF VfsInv
<1>4. VfsInv'
  BY <1>1, <1>3 DEF VfsInv
<1> QED  BY <1>1, <1>4, FailStep, Zenon

LEMMA UnregisterStep ==
    ASSUME VfsInv, NEW name, UnregisterDevice(name)
    PROVE  VfsInv' /\ Store!Next
<1>1. /\ devfs_find_node(devfs, name) # 0 /\ devfs' = devfs_unregister_device(devfs, name)
      /\ got' = << >> /\ mount_table' = mount_table
      /\ ramfs' = ramfs /\ file' = file /\ client' = client
  BY Zenon DEF UnregisterDevice
<1>2. DevfsInv(devfs')
  BY <1>1, UnregisterDevfs, Zenon DEF VfsInv
<1>3. VfsInv'
  BY <1>1, <1>2 DEF VfsInv
<1> QED  BY <1>1, <1>3, FailStep, Zenon

LEMMA MkdirStep ==
    ASSUME VfsInv, NEW path \in Paths, vfs_mkdir(path)
    PROVE  VfsInv' /\ Store!Next
<1>1. got' = << >> /\ mount_table' = mount_table /\ devfs' = devfs /\ file' = file /\ client' = client
  BY Zenon DEF vfs_mkdir
<1>2. CASE can_create(path)
  <2>1. Created(ramfs, ramfs')
    BY <1>2, CreateRamfs, Zenon DEF vfs_mkdir
  <2>2. VfsInv'
    BY <1>1, <2>1, SMTT(60) DEF VfsInv, Created
  <2>3. Store!Create(ramfs.file_count)
    <3>1. /\ ramfs.file_count \notin 0 .. ramfs.file_count - 1
          /\ 0 .. ramfs'.file_count - 1 = (0 .. ramfs.file_count - 1) \cup {ramfs.file_count}
      BY <2>1, RamfsAssumption DEF Created, Entries
    <3> QED  BY <1>1, <2>1, <3>1 DEF Store!Create, Created
  <2> QED  BY <2>1, <2>2, <2>3, Zenon DEF Store!Next, Created
<1>3. CASE ~can_create(path)
  <2>1. ramfs' = ramfs
    BY <1>3, Zenon DEF vfs_mkdir
  <2>2. VfsInv'
    BY <1>1, <2>1 DEF VfsInv
  <2> QED  BY <1>1, <2>1, <2>2, FailStep, Zenon
<1> QED  BY <1>2, <1>3

LEMMA CloseStep ==
    ASSUME VfsInv, NEW h \in Handles, vfs_close(h)
    PROVE  VfsInv' /\ Store!Next
<1>1. /\ file[h] # Free /\ file' = [file EXCEPT ![h] = Free] /\ got' = << >>
      /\ mount_table' = mount_table /\ ramfs' = ramfs /\ devfs' = devfs /\ client' = client
  BY Zenon DEF vfs_close
<1>2. FileInv(file) /\ FileOK(file[h])
  BY Zenon DEF VfsInv, FileInv
<1>3. /\ FileInv(file') /\ OpenFiles(file)[h] = OpenFile(file[h])
      /\ OpenFiles(file') = [OpenFiles(file) EXCEPT ![h] = OpenFile(Free)]
  BY <1>1, <1>2, FreeOK, SetHandle, ZenonT(60)
<1>4. OpenFile(file[h]) # [file |-> -1, pos |-> 0]
  BY <1>1, <1>2, OpenIs, Zenon
<1>5. VfsInv'
  BY <1>1, <1>3 DEF VfsInv
<1>6. Store!Close(h)
  BY <1>1, <1>3, <1>4, OpenFree DEF Store!Close, Store!Closed
<1> QED  BY <1>5, <1>6, Zenon DEF Store!Next

(* Where a path leads.                                                     *)
LEMMA LookupKinds ==
    ASSUME VfsInv, NEW path \in Paths, NEW m, m = vfs_find_mount(path)
    PROVE  \/ m = 0 /\ vfs_lookup_path(path) = NullInode
           \/ /\ m \in 1 .. Len(mount_table) /\ mount_table[m].fs = "ramfs"
              /\ vfs_lookup_path(path) \in RamDir
           \/ /\ m \in 1 .. Len(mount_table) /\ mount_table[m].fs = "devfs"
              /\ vfs_lookup_path(path) \in InDevs(Inodes)
<1>2. /\ WellOrdered /\ RamfsInv(ramfs) /\ DevfsInv(devfs) /\ mount_table \in Seq(Mounts)
      /\ \A i \in 1 .. Len(mount_table) : MountOK(mount_table[i])
      /\ path \in Seq(Parts) /\ ramfs.file_count # 0 /\ ramfs \in RamfsType
  BY Zenon DEF VfsInv, MountInv, Paths, Parts, RamfsInv, RamfsTables
<1>3. CASE m = 0
  BY <1>3, Zenon DEF vfs_lookup_path
<1>4. CASE m # 0
  <2>1. m \in 1 .. Len(mount_table)
    BY <1>2, <1>4, FindMount, Zenon DEF BestMount, Matches
  <2>2. mount_table[m].fs \in FileSystems /\ MountOK(mount_table[m])
    BY <1>2, <2>1, MountFields, Zenon
  <2>3. CASE mount_table[m].fs = "ramfs"
    <3>1. mount_table[m].root \in RamDir
      <4>1. ramfs.file_count \in Nat
        BY <1>2, EntriesBelow, Zenon
      <4>2. 0 \in 0 .. ramfs.file_count - 1 /\ Plain(ramfs, 0)
        BY <1>2, <4>1 DEF Plain
      <4> QED  BY <2>2, <2>3, <4>2, Zenon DEF RamDir, MountOK
    <3>2. \A x \in RamDir, c \in Parts : lookup_component(mount_table[m].fs, x, c) \in RamDir
      BY <1>2, <2>3, RamStep, Zenon
    <3>3. vfs_lookup_path(path) \in RamDir
      BY <1>2, <1>4, <3>1, <3>2, LookupStays, Zenon
    <3> QED  BY <2>1, <2>3, <3>3, Zenon
  <2>4. CASE mount_table[m].fs = "devfs"
    <3>1. mount_table[m].root \in InDevs(Inodes)
      BY <2>2, <2>4, Zenon DEF InDevs, MountOK
    <3>2. /\ Inodes \in SUBSET Inodes
          /\ \A i \in 1 .. Len(devfs.nodes) : devfs.nodes[i].inode \in Inodes
          /\ \A n \in Inodes : devfs.parent[n] \in Inodes \cup {NoInode}
      <4>1. /\ devfs.parent \in [Inodes -> Inodes \cup {NoInode}]
            /\ \A i \in 1 .. Len(devfs.nodes) : devfs.nodes[i].inode \in Inodes
        BY <1>2, DevfsFields, Zenon DEF DevfsInv
      <4> QED  BY <4>1, Zenon
    <3>3. \A x \in InDevs(Inodes), c \in Parts :
             lookup_component(mount_table[m].fs, x, c) \in InDevs(Inodes)
      BY <1>2, <2>4, <3>2, DevStep, Zenon
    <3>4. vfs_lookup_path(path) \in InDevs(Inodes)
      BY <1>2, <1>4, <3>1, <3>3, LookupStays, Zenon
    <3> QED  BY <2>1, <2>4, <3>4, Zenon
  <2> QED  BY <2>2, <2>3, <2>4, Zenon DEF FileSystems
<1> QED  BY <1>3, <1>4

LEMMA LookupIs ==
    ASSUME VfsInv, NEW path \in Paths
    PROVE  \/ vfs_lookup_path(path) = NullInode
           \/ \E i \in 0 .. ramfs.file_count - 1 : vfs_lookup_path(path) = InRam(i)
           \/ \E n \in Inodes : vfs_lookup_path(path) = InDev(n)
<1>1. CASE vfs_lookup_path(path) \in RamDir
  BY <1>1, Zenon DEF RamDir
<1>2. CASE vfs_lookup_path(path) \in InDevs(Inodes)
  BY <1>2, Zenon DEF InDevs
<1> QED  BY <1>1, <1>2, LookupKinds, Zenon

LEMMA OpenPosition ==
    ASSUME NEW r, RamfsInv(r), NEW ino \in InodePtrs, ino # NullInode, NEW flags
    PROVE  /\ ino.fs = "ramfs" => /\ ino.id \in Entries
                                  /\ open_position(r, ino, flags) \in {0, r.isize[ino.id]}
                                  /\ open_position(r, ino, flags) \in {0, Len(FileContents(r)[ino.id])}
           /\ ino.fs # "ramfs" => ino.fs = "devfs" /\ open_position(r, ino, flags) = 0
           /\ open_position(r, ino, flags) \in Nat
<1>1. CASE ino.fs # "ramfs"
  BY <1>1, PtrKinds, Zenon DEF open_position
<1>2. CASE ino.fs = "ramfs"
  <2>1. PICK i \in Entries : i = ino.id
    BY <1>2, PtrKinds, Zenon
  <2>2. open_position(r, ino, flags) \in {0, r.isize[i]}
    BY <2>1, Zenon DEF open_position
  <2>3. RamfsTables(r) /\ r.isize[i] \in {0, r.size[i]}
    BY Zenon DEF RamfsInv, RamfsTables
  <2>4. Len(FileContents(r)[i]) = r.size[i] /\ r.size[i] \in Nat
    <3>1. Len(FileContents(r)[i]) = r.size[i] /\ r.size[i] \in 0 .. RAMFS_MAX_FILE_SIZE
      BY <2>3, ContentsAre
    <3> QED  BY <3>1, RamfsAssumption
  <2>5. open_position(r, ino, flags) \in {0, r.size[i]} /\ 0 \in Nat
    BY <2>2, <2>3
  <2> QED  BY <1>2, <2>1, <2>2, <2>4, <2>5, Zenon
<1> QED  BY <1>1, <1>2

(* A file_t for ino is made: the open files of the store gain one.         *)
HandleMade(h, ino, pos) ==
    /\ FileInv(file') /\ OpenFiles(file)[h] = [file |-> -1, pos |-> 0]
    /\ ino.fs = "ramfs" =>
          /\ ino.id \in Entries
          /\ OpenFiles(file') = [OpenFiles(file) EXCEPT ![h] = [file |-> ino.id, pos |-> pos]]
    /\ ino.fs # "ramfs" =>
          OpenFiles(file') = [OpenFiles(file) EXCEPT ![h] = [file |-> -2, pos |-> 0]]

LEMMA NewHandle ==
    ASSUME VfsInv, NEW r, RamfsInv(r), NEW ino \in InodePtrs, ino # NullInode, NEW flags,
           NEW h \in Handles, file[h] = Free,
           file' = [file EXCEPT ![h] = [inode |-> ino, pos |-> open_position(r, ino, flags)]]
    PROVE  HandleMade(h, ino, open_position(r, ino, flags))
<1>1. PICK p \in Nat : p = open_position(r, ino, flags)
  BY OpenPosition, Zenon
<1>2. PICK x : x = [inode |-> ino, pos |-> p]
  BY Zenon
<1>3. x \in HandleType /\ x.inode = ino /\ x.pos = p
  BY <1>2 DEF HandleType
<1>4. ino.fs # "ramfs" => p = 0
  BY <1>1, OpenPosition, Zenon
<1>5. FileOK(x) /\ x # Free
  <2>1. x # Free
    <3>1. Free.inode = NullInode
      BY DEF Free
    <3> QED  BY <1>3, <3>1, Zenon
  <2>2. ino.fs = "devfs" => p <= DEV_MODE
    <3>1. "devfs" # "ramfs" /\ 0 <= DEV_MODE
      BY VfsAssumption
    <3> QED  BY <1>4, <3>1, Zenon
  <2> QED  BY <1>3, <2>1, <2>2, Zenon DEF FileOK
<1>6. FileInv(file)
  BY Zenon DEF VfsInv
<1>7. /\ FileInv(file') /\ OpenFiles(file') = [OpenFiles(file) EXCEPT ![h] = OpenFile(x)]
      /\ OpenFiles(file)[h] = OpenFile(Free)
  <2>1. /\ FileInv([file EXCEPT ![h] = x])
        /\ OpenFiles([file EXCEPT ![h] = x]) = [OpenFiles(file) EXCEPT ![h] = OpenFile(x)]
        /\ OpenFiles(file)[h] = OpenFile(file[h])
    BY <1>5, <1>6, SetHandle, Zenon
  <2>2. file' = [file EXCEPT ![h] = x]
    BY <1>1, <1>2, Zenon
  <2> QED  BY <2>1, <2>2, Zenon
<1>8. \/ ino.fs = "ramfs" /\ ino.id \in Entries /\ OpenFile(x) = [file |-> ino.id, pos |-> p]
      \/ ino.fs # "ramfs" /\ OpenFile(x) = [file |-> -2, pos |-> p]
  BY <1>3, <1>5, OpenIs, Zenon
<1> QED  BY <1>1, <1>4, <1>7, <1>8, OpenFree, Zenon DEF HandleMade

LEMMA OpenStep ==
    ASSUME VfsInv, NEW path \in Paths, NEW flags, vfs_open(path, flags)
    PROVE  VfsInv' /\ Store!Next
<1>1. PICK old : old = vfs_lookup_path(path)
  BY Zenon
<1>2. PICK creates : creates = (old = NullInode /\ "O_CREAT" \in flags /\ can_create(path))
  BY Zenon
<1>3. PICK r : r = IF creates THEN ramfs_mkdir(ramfs, parent_inode(path).id, file_name(path))
                   ELSE ramfs
  BY Zenon
<1>4. PICK ino : ino = IF creates THEN InRam(ramfs.file_count) ELSE old
  BY Zenon
<1>5. /\ got' = << >> /\ mount_table' = mount_table /\ devfs' = devfs /\ client' = client
      /\ \/ ramfs' = r /\ file' = file
         \/ /\ ino # NullInode
            /\ \E h \in Handles :
                  /\ file[h] = Free
                  /\ file' = [file EXCEPT ![h] =
                                [inode |-> ino, pos |-> open_position(r, ino, flags)]]
            /\ ramfs' = IF "O_TRUNC" \in flags THEN truncate(r, ino) ELSE r
  BY <1>1, <1>2, <1>3, <1>4, Zenon DEF vfs_open
<1>6. /\ creates => Created(ramfs, r)
      /\ ~creates => r = ramfs
  BY <1>2, <1>3, CreateRamfs, Zenon
<1>7. RamfsInv(ramfs) /\ RamfsInv(r) /\ FileInv(file) /\ << >> \in Seq(Bytes)
  BY <1>6 DEF VfsInv, Created
<1>8. creates => ino = InRam(ramfs.file_count) /\ ramfs.file_count \in Entries
  BY <1>4, <1>6, Zenon DEF Created
<1>9. ramfs.file_count \in Nat /\ 0 .. ramfs.file_count - 1 \subseteq Entries
  <2>1. ramfs \in RamfsType
    BY <1>7, Zenon DEF RamfsInv, RamfsTables
  <2> QED  BY <2>1, EntriesBelow, Zenon
<1>10. creates => /\ ramfs.file_count \notin 0 .. ramfs.file_count - 1
                  /\ 0 .. r.file_count - 1 = (0 .. ramfs.file_count - 1) \cup {ramfs.file_count}
  BY <1>6, <1>9 DEF Created
<1>11. CASE ramfs' = r /\ file' = file
  <2>1. VfsInv'
    BY <1>5, <1>7, <1>11 DEF VfsInv
  <2>2. CASE creates
    <3>1. Store!Create(ramfs.file_count)
      BY <1>5, <1>6, <1>10, <1>11, <2>2, Zenon DEF Store!Create, Created
    <3> QED  BY <1>8, <2>1, <2>2, <3>1, Zenon DEF Store!Next
  <2>3. CASE ~creates
    BY <1>5, <1>6, <1>11, <2>1, <2>3, FailStep, Zenon
  <2> QED  BY <1>2, <2>2, <2>3
<1>12. CASE /\ ino # NullInode
            /\ \E h \in Handles :
                  /\ file[h] = Free
                  /\ file' = [file EXCEPT ![h] =
                                [inode |-> ino, pos |-> open_position(r, ino, flags)]]
            /\ ramfs' = IF "O_TRUNC" \in flags THEN truncate(r, ino) ELSE r
  <2>1. PICK h \in Handles :
           /\ file[h] = Free
           /\ file' = [file EXCEPT ![h] = [inode |-> ino, pos |-> open_position(r, ino, flags)]]
    BY <1>12, Zenon
  <2>2. ino \in InodePtrs
    <3>1. CASE creates
      BY <1>8, <3>1, Zenon DEF InodePtrs
    <3>2. CASE ~creates
      BY <1>1, <1>4, <1>9, <3>2, LookupIs, Zenon DEF InodePtrs
    <3> QED  BY <1>2, <3>1, <3>2
  <2>3. PICK p : p = open_position(r, ino, flags)
    BY Zenon
  <2>4. /\ FileInv(file') /\ OpenFiles(file)[h] = [file |-> -1, pos |-> 0]
        /\ ino.fs = "ramfs" =>
              /\ ino.id \in Entries
              /\ OpenFiles(file') = [OpenFiles(file) EXCEPT ![h] = [file |-> ino.id, pos |-> p]]
        /\ ino.fs # "ramfs" =>
              OpenFiles(file') = [OpenFiles(file) EXCEPT ![h] = [file |-> -2, pos |-> 0]]
    <3>1. HandleMade(h, ino, p)
      BY <1>7, <1>12, <2>1, <2>2, <2>3, NewHandle, Zenon
    <3> QED  BY <3>1, Zenon DEF HandleMade
  <2>5. /\ RamfsInv(ramfs') /\ ramfs'.file_count = r.file_count
        /\ FileContents(ramfs') = FileContents(r)
    <3>1. CASE "O_TRUNC" \in flags
      <4>1. PICK e : e = truncate(r, ino)
        BY Zenon
      <4>2. /\ RamfsInv(e) /\ e.file_count = r.file_count /\ e.size = r.size /\ e.data = r.data
            /\ e.buffers = r.buffers
        BY <1>7, <2>4, <4>1, TruncateRamfs, Zenon
      <4>3. FileContents(e) = FileContents(r)
        BY <4>2, SameContents, Zenon
      <4> QED  BY <1>12, <3>1, <4>1, <4>2, <4>3, Zenon
    <3>2. CASE "O_TRUNC" \notin flags
      BY <1>7, <1>12, <3>2, Zenon
    <3> QED  BY <3>1, <3>2
  <2>6. VfsInv'
    BY <1>5, <1>7, <2>4, <2>5 DEF VfsInv
  <2>7. ino.fs = "ramfs" => p \in {0, r.isize[ino.id]} /\ p \in {0, Len(FileContents(r)[ino.id])}
    BY <1>7, <1>12, <2>2, <2>3, OpenPosition
  <2>8. CASE creates
    <3>1. ino.fs = "ramfs" /\ ino.id = ramfs.file_count
      BY <1>8, <1>9, <2>8, RamInodes, Zenon
    <3>2. Store!Opened(h, ramfs.file_count)
      <4>1. p \in {0, Len(FileContents(ramfs')[ino.id])}
        BY <2>5, <2>7, <3>1, Zenon
      <4> QED  BY <2>4, <3>1, <4>1, Zenon DEF Store!Opened, Store!Closed
    <3>3. Store!Create(ramfs.file_count)
      BY <1>5, <1>6, <1>10, <2>5, <2>8, <3>2, Zenon DEF Store!Create, Created
    <3> QED  BY <1>8, <2>6, <2>8, <3>3, Zenon DEF Store!Next
  <2>9. CASE ~creates
    <3>1. r = ramfs /\ ramfs'.file_count = ramfs.file_count /\ FileContents(ramfs') = FileContents(ramfs)
      BY <1>6, <2>5, <2>9, Zenon
    <3>2. CASE ino.fs = "ramfs"
      <4>1. ino.id \in 0 .. ramfs.file_count - 1
        <5>1. \/ \E i \in 0 .. ramfs.file_count - 1 : ino = InRam(i)
              \/ \E n \in Inodes : ino = InDev(n)
          BY <1>1, <1>4, <1>12, <2>9, LookupIs, Zenon
        <5>2. \A i \in 0 .. ramfs.file_count - 1 : InRam(i).id = i
          BY <1>9, RamInodes
        <5> QED  BY <3>2, <5>1, <5>2, DevInodes, Zenon
      <4>2. Store!Opened(h, ino.id)
        <5>1. p \in {0, Len(FileContents(ramfs')[ino.id])}
          BY <2>5, <2>7, <3>2, Zenon
        <5> QED  BY <2>4, <3>2, <5>1 DEF Store!Opened, Store!Closed
      <4>3. Store!Open(h)
        BY <1>5, <3>1, <4>1, <4>2 DEF Store!Open
      <4> QED  BY <2>6, <4>3, Zenon DEF Store!Next
    <3>3. CASE ino.fs # "ramfs"
      <4>1. Store!Open(h)
        BY <1>5, <2>4, <3>1, <3>3, Zenon DEF Store!Open, Store!Closed, Store!NotAFile
      <4> QED  BY <2>6, <4>1, Zenon DEF Store!Next
    <3> QED  BY <3>2, <3>3
  <2> QED  BY <1>2, <2>8, <2>9
<1> QED  BY <1>5, <1>11, <1>12

LEMMA ReadStep ==
    ASSUME VfsInv, NEW h \in Handles, NEW n \in Counts, vfs_read(h, n)
    PROVE  VfsInv' /\ Store!Next
<1>1. /\ file[h] # Free
      /\ mount_table' = mount_table /\ ramfs' = ramfs /\ devfs' = devfs /\ client' = client
  BY Zenon DEF vfs_read
<1>2. PICK x : x = file[h]
  BY Zenon
<1>3. FileInv(file) /\ FileOK(x) /\ RamfsTables(ramfs) /\ n \in Nat
  BY <1>2, VfsAssumption, Zenon DEF VfsInv, FileInv, RamfsInv
<1>4. x.pos \in Nat
  BY <1>1, <1>2, <1>3, OpenIs, Zenon
<1>5. CASE /\ x.inode.fs = "ramfs"
           /\ got' = ramfs_read(ramfs, x.inode.id, x.pos, n)
           /\ file' = [file EXCEPT ![h].pos = @ + Len(got')]
  <2>1. PICK i \in Entries : i = x.inode.id /\ OpenFile(x) = [file |-> i, pos |-> x.pos]
    BY <1>1, <1>2, <1>3, <1>5, OpenIs, Zenon
  <2>2. PICK c : c = FileContents(ramfs)[i]
    BY Zenon
  <2>3. /\ got' = SubSeq(c, x.pos + 1, IF x.pos + n < Len(c) THEN x.pos + n ELSE Len(c))
        /\ got' \in Seq(Bytes)
    BY <1>3, <1>4, <1>5, <2>1, <2>2, ReadContents, Zenon
  <2>4. PICK p \in Nat : p = x.pos + Len(got')
    BY <1>4, <2>3
  <2>5. file' = [file EXCEPT ![h].pos = p]
    BY <1>2, <1>3, <1>5, <2>4 DEF FileInv
  <2>6. /\ FileInv(file') /\ OpenFiles(file)[h] = OpenFile(x)
        /\ OpenFiles(file') = [OpenFiles(file) EXCEPT ![h].pos = p]
    <3>1. MayMove(file, h, p) /\ p \in Nat
      BY <1>1, <1>2, <1>3, <1>5 DEF MayMove
    <3>2. Moved(file, h, p)
      BY <1>3, <3>1, MoveHandle, Zenon
    <3> QED  BY <1>2, <2>5, <3>2, Zenon DEF Moved
  <2>7. VfsInv'
    BY <1>1, <2>3, <2>6 DEF VfsInv
  <2>8. OpenFiles(file)[h].file = i /\ OpenFiles(file)[h].pos = x.pos
    BY <2>1, <2>6
  <2>9. OpenFiles(file') = [OpenFiles(file) EXCEPT ![h].pos = @ + Len(got')]
    <3>1. OpenFiles(file) = [k \in Handles |-> OpenFiles(file)[k]]
      BY DEF OpenFiles
    <3> QED  BY <2>4, <2>6, <2>8, <3>1
  <2>10. Store!Read(h, n)
    BY <1>1, <2>2, <2>3, <2>8, <2>9 DEF Store!Read
  <2> QED  BY <2>7, <2>10, Zenon DEF Store!Next
<1>6. CASE x.inode.fs = "devfs" /\ device_read(h, n) /\ got' = << >>
  <2>1. x.pos <= DEV_MODE
    BY <1>1, <1>2, <1>3, <1>6, Zenon DEF FileOK
  <2>2. PICK end : end = IF x.pos >= DEV_MODE THEN x.pos
                         ELSE IF x.pos + n > DEV_MODE THEN DEV_MODE ELSE x.pos + n
    BY Zenon
  <2>3. end \in 0 .. DEV_MODE /\ x.pos \in 0 .. DEV_MODE
    BY <1>3, <1>4, <2>1, <2>2, VfsAssumption, SMTT(60)
  <2>4. PICK p \in {x.pos, end} : file' = [file EXCEPT ![h].pos = p]
    BY <1>2, <1>6, <2>2 DEF device_read
  <2>5. p \in 0 .. DEV_MODE /\ p \in Nat /\ p <= DEV_MODE
    BY <2>3, <2>4, VfsAssumption
  <2>6. /\ FileInv(file') /\ OpenFiles(file)[h] = OpenFile(x)
        /\ OpenFiles(file') = [OpenFiles(file) EXCEPT ![h].pos = p]
    <3>1. MayMove(file, h, p) /\ p \in Nat
      BY <1>1, <1>2, <1>3, <2>5 DEF MayMove
    <3>2. Moved(file, h, p)
      BY <1>3, <3>1, MoveHandle, Zenon
    <3> QED  BY <1>2, <2>4, <3>2, Zenon DEF Moved
  <2>7. VfsInv'
    BY <1>1, <1>6, <2>6 DEF VfsInv
  <2>8. OpenFiles(file)[h].file = -2
    BY <1>1, <1>2, <1>3, <1>6, <2>6, OpenIs
  <2>9. Store!ReadOther(h)
    BY <1>1, <1>6, <2>5, <2>6, <2>8, Zenon DEF Store!ReadOther, Store!NotAFile
  <2> QED  BY <2>7, <2>9, Zenon DEF Store!Next
<1>7. CASE got' = << >> /\ file' = file
  <2>1. VfsInv'
    BY <1>1, <1>7 DEF VfsInv
  <2> QED  BY <1>1, <1>7, <2>1, FailStep, Zenon
<1> QED  BY <1>2, <1>5, <1>6, <1>7, Zenon DEF vfs_read

LEMMA WriteStep ==
    ASSUME VfsInv, NEW h \in Handles, NEW buf \in Buffers, vfs_write(h, buf)
    PROVE  VfsInv' /\ Store!Next
<1>1. /\ file[h] # Free /\ got' = << >>
      /\ mount_table' = mount_table /\ devfs' = devfs /\ client' = client
  BY Zenon DEF vfs_write
<1>2. PICK x : x = file[h]
  BY Zenon
<1>3. FileInv(file) /\ FileOK(x) /\ RamfsInv(ramfs) /\ buf \in Seq(Bytes)
  BY <1>2, VfsAssumption, Zenon DEF VfsInv, FileInv
<1>4. x.pos \in Nat
  BY <1>1, <1>2, <1>3, OpenIs, Zenon
<1>5. CASE /\ x.inode.fs = "ramfs"
           /\ ~ramfs_write_fails(ramfs, x.inode.id, x.pos, buf)
           /\ ramfs' = ramfs_write(ramfs, x.inode.id, x.pos, buf)
           /\ file' = [file EXCEPT ![h].pos = @ + Len(buf)]
  <2>1. PICK i \in Entries : i = x.inode.id /\ OpenFile(x) = [file |-> i, pos |-> x.pos]
    BY <1>1, <1>2, <1>3, <1>5, OpenIs, Zenon
  <2>2. PICK p \in Nat : p = x.pos + Len(buf)
    BY <1>3, <1>4
  <2>3. file' = [file EXCEPT ![h].pos = p]
    BY <1>2, <1>3, <1>5, <2>2 DEF FileInv
  <2>4. /\ FileInv(file') /\ OpenFiles(file)[h] = OpenFile(x)
        /\ OpenFiles(file') = [OpenFiles(file) EXCEPT ![h].pos = p]
    <3>1. MayMove(file, h, p) /\ p \in Nat
      BY <1>1, <1>2, <1>3, <1>5 DEF MayMove
    <3>2. Moved(file, h, p)
      BY <1>3, <3>1, MoveHandle, Zenon
    <3> QED  BY <1>2, <2>3, <3>2, Zenon DEF Moved
  <2>5. RamfsInv(ramfs') /\ ramfs'.file_count = ramfs.file_count
    <3>1. ~ramfs_write_fails(ramfs, i, x.pos, buf) /\ ramfs' = ramfs_write(ramfs, i, x.pos, buf)
      BY <1>5, <2>1, Zenon
    <3>2. Written(ramfs_write(ramfs, i, x.pos, buf), ramfs, i, x.pos, buf)
      BY <1>3, <1>4, <3>1, WriteRamfs, Zenon
    <3> QED  BY <3>1, <3>2, Zenon DEF Written
  <2>6. VfsInv'
    BY <1>1, <2>4, <2>5 DEF VfsInv
  <2>7. PICK old : old = FileContents(ramfs)
    BY Zenon
  <2>8. PICK new : new = FileContents(ramfs')
    BY Zenon
  <2>9. /\ Len(new[i]) = IF x.pos + Len(buf) > Len(old[i]) THEN x.pos + Len(buf) ELSE Len(old[i])
        /\ \A k \in x.pos + 1 .. x.pos + Len(buf) : new[i][k] = buf[k - x.pos]
        /\ \A k \in DOMAIN old[i] \ (x.pos + 1 .. x.pos + Len(buf)) : new[i][k] = old[i][k]
        /\ \A j \in Entries \ {i} : new[j] = old[j]
    <3>1. ~ramfs_write_fails(ramfs, i, x.pos, buf) /\ ramfs' = ramfs_write(ramfs, i, x.pos, buf)
      BY <1>5, <2>1, Zenon
    <3>2. new = FileContents(ramfs_write(ramfs, i, x.pos, buf))
      BY <2>8, <3>1, Zenon
    <3>3. Overwritten(new, old, i, x.pos, buf)
      BY <1>3, <1>4, <2>7, <3>1, <3>2, WriteContents, Zenon
    <3> QED  BY <3>3, Zenon DEF Overwritten
  <2>10. OpenFiles(file)[h].file = i /\ OpenFiles(file)[h].pos = x.pos
    BY <2>1, <2>4
  <2>11. OpenFiles(file') = [OpenFiles(file) EXCEPT ![h].pos = @ + Len(buf)]
    <3>1. OpenFiles(file) = [k \in Handles |-> OpenFiles(file)[k]]
      BY DEF OpenFiles
    <3> QED  BY <2>2, <2>4, <2>10, <3>1
  <2>12. Store!Write(h, buf)
    BY <1>1, <2>5, <2>7, <2>8, <2>9, <2>10, <2>11 DEF Store!Write
  <2> QED  BY <2>6, <2>12, Zenon DEF Store!Next
<1>6. CASE ramfs' = ramfs /\ file' = file
  <2>1. VfsInv'
    BY <1>1, <1>6 DEF VfsInv
  <2> QED  BY <1>1, <1>6, <2>1, FailStep, Zenon
<1> QED  BY <1>2, <1>5, <1>6, Zenon DEF vfs_write
-----------------------------------------------------------------------------
LEMMA VfsStepKeeps ==
    ASSUME VfsInv, Next
    PROVE  VfsInv' /\ Store!Next
<1>0. /\ client.mkdirs \subseteq Paths /\ client.opens \subseteq Paths
      /\ client.devices \subseteq DevNames
      /\ client.mounts \subseteq {p \in Paths : Len(p) <= 2} \X FileSystems
  BY ClientPaths, Zenon
<1>1. ASSUME NEW f \in client.mounts, vfs_mount(f[1], f[2]) PROVE VfsInv' /\ Store!Next
  <2>1. f[1] \in Paths /\ Len(f[1]) <= 2 /\ f[2] \in FileSystems
    BY <1>0
  <2> QED  BY <1>1, <2>1, MountStep, Zenon
<1>2. ASSUME NEW f \in client.mounts, vfs_unmount(f[1]) PROVE VfsInv' /\ Store!Next
  BY <1>2, UnmountStep, Zenon
<1>3. ASSUME NEW name \in client.devices, RegisterDevice(name) PROVE VfsInv' /\ Store!Next
  BY <1>0, <1>3, RegisterStep, Zenon
<1>4. ASSUME NEW name \in client.devices, UnregisterDevice(name) PROVE VfsInv' /\ Store!Next
  BY <1>4, UnregisterStep, Zenon
<1>5. ASSUME NEW path \in client.mkdirs, vfs_mkdir(path) PROVE VfsInv' /\ Store!Next
  BY <1>0, <1>5, MkdirStep, Zenon
<1>6. ASSUME NEW path \in client.opens, NEW flags \in client.flags, vfs_open(path, flags)
      PROVE  VfsInv' /\ Store!Next
  BY <1>0, <1>6, OpenStep, Zenon
<1>7. ASSUME NEW h \in Handles, vfs_close(h) PROVE VfsInv' /\ Store!Next
  BY <1>7, CloseStep, Zenon
<1>8. ASSUME NEW h \in Handles, NEW n \in Counts, vfs_read(h, n) PROVE VfsInv' /\ Store!Next
  BY <1>8, ReadStep, Zenon
<1>9. ASSUME NEW h \in Handles, NEW buf \in Buffers, vfs_write(h, buf) PROVE VfsInv' /\ Store!Next
  BY <1>9, WriteStep, Zenon
<1> QED  BY <1>1, <1>2, <1>3, <1>4, <1>5, <1>6, <1>7, <1>8, <1>9, Zenon DEF Next

LEMMA VfsStutters ==
    ASSUME VfsInv, UNCHANGED vars
    PROVE  VfsInv' /\ UNCHANGED Store!vars
BY DEF vars, VfsInv, Store!vars

LEMMA VfsInitKeeps ==
    ASSUME WellOrdered, RangesBound, Init
    PROVE  VfsInv /\ Store!Init
<1>1. /\ ramfs = ramfs_mount(ramfs_state_at_boot) /\ devfs = devfs_state_at_boot
      /\ mount_table = <<[path |-> <<"/">>, fs |-> "ramfs", root |-> InRam(0)]>>
      /\ file = [h \in Handles |-> Free] /\ got = << >> /\ client \in Clients
  BY Zenon DEF Init
<1>2. RamfsInv(ramfs) /\ ramfs.file_count = 1
  BY <1>1, BootTables, MountRamfs, Zenon
<1>3. DevfsInv(devfs)
  BY <1>1, BootDevfs, Zenon
<1>4. MountInv(mount_table)
  <2>1. PICK m : m = [path |-> <<"/">>, fs |-> "ramfs", root |-> InRam(0)]
    BY Zenon
  <2>2. m.path = <<"/">> /\ m.fs = "ramfs" /\ m.fs # "devfs" /\ m.root = InRam(0)
    BY <2>1
  <2>3. <<"/">> \in Paths /\ Len(<<"/">>) <= 2
    BY DEF Paths
  <2>4. InRam(0) \in InodePtrs
    <3>1. 0 \in Entries
      BY RamfsAssumption DEF Entries
    <3> QED  BY <3>1, Zenon DEF InodePtrs
  <2>5. m \in Mounts
    BY <2>1, <2>3, <2>4 DEF Mounts, FileSystems
  <2>6. MountOK(m)
    BY <2>2, <2>3, Zenon DEF MountOK
  <2>7. /\ mount_table \in Seq(Mounts) /\ Len(mount_table) = 1 /\ mount_table[1] = m
    BY <1>1, <2>1, <2>5
  <2>8. 1 <= MAX_MOUNT_POINTS /\ 1 # 0 /\ \A i \in 1 .. 1 : i = 1
    BY VfsAssumption
  <2> QED  BY <2>1, <2>6, <2>7, <2>8, Zenon DEF MountInv
<1>5. FileInv(file)
  <2>1. Free \in HandleType
    BY FreeOK, Zenon DEF FileOK
  <2> QED  BY <1>1, <2>1, FreeOK, Zenon DEF FileInv
<1>6. VfsInv
  <2>1. got \in Seq(Bytes)
    BY <1>1
  <2> QED  BY <1>1, <1>2, <1>3, <1>4, <1>5, <2>1, Zenon DEF VfsInv
<1>7. Store!Init
  <2>1. 0 .. ramfs.file_count - 1 = {0}
    BY <1>2
  <2>2. FileContents(ramfs) = [i \in Entries |-> << >>]
    BY <1>1, BootContents, Zenon
  <2>3. OpenFiles(file) = [h \in Handles |-> [file |-> -1, pos |-> 0]]
    BY <1>1, OpenFree DEF OpenFiles
  <2> QED  BY <1>1, <2>1, <2>2, <2>3 DEF Store!Init, Store!Closed
<1> QED  BY <1>6, <1>7

LEMMA TypesHold ==
    ASSUME VfsInv
    PROVE  TypeOK
<1>1. ramfs \in RamfsType /\ devfs \in DevfsType /\ got \in Seq(Bytes)
  BY Zenon DEF VfsInv, RamfsInv, RamfsTables, DevfsInv
<1>2. mount_table \in Seq(Mounts) /\ Len(mount_table) <= MAX_MOUNT_POINTS
  BY Zenon DEF VfsInv, MountInv
<1>3. file \in [Handles -> HandleType]
  BY Zenon DEF VfsInv, FileInv
<1> QED  BY <1>1, <1>2, <1>3, Zenon DEF TypeOK, Mounts, HandleType

LEMMA LiveLookups ==
    ASSUME VfsInv
    PROVE  LooksUpLiveInodes
<1> SUFFICES ASSUME NEW path \in Paths, NEW m, m = vfs_find_mount(path), m # 0,
                    mount_table[m].root = InDev(devfs.root_inode), devfs.root_inode # NoInode
             PROVE  \/ vfs_lookup_path(path) = NullInode
                    \/ vfs_lookup_path(path).id \in devfs.live
  BY ClientPaths, Zenon DEF LooksUpLiveInodes
<1>1. /\ WellOrdered /\ DevfsInv(devfs) /\ mount_table \in Seq(Mounts) /\ path \in Seq(Parts)
      /\ \A i \in 1 .. Len(mount_table) : MountOK(mount_table[i])
      /\ devfs \in DevfsType /\ NodesOK(devfs) /\ RootOK(devfs)
  BY Zenon DEF VfsInv, MountInv, DevfsInv, Paths, Parts
<1>2. m \in 1 .. Len(mount_table)
  BY <1>1, FindMount, Zenon DEF BestMount, Matches
<1>3. /\ devfs.live \subseteq Inodes /\ devfs.root_inode \in Inodes
      /\ \A i \in 1 .. Len(devfs.nodes) : devfs.nodes[i].inode \in Inodes
  BY <1>1, DevfsFields
<1>4. mount_table[m].fs = "devfs"
  <2>1. mount_table[m].fs \in FileSystems /\ MountOK(mount_table[m])
    BY <1>1, <1>2, MountFields, Zenon
  <2>2. InRam(0).fs = "ramfs" /\ InDev(devfs.root_inode).fs # "ramfs"
    BY <1>3, RamInodes, DevInodes
  <2>3. mount_table[m].fs # "ramfs"
    BY <2>1, <2>2, Zenon DEF MountOK
  <2> QED  BY <2>1, <2>3, Zenon DEF FileSystems
<1>5. PICK L : L = {devfs.root_inode} \cup {devfs.nodes[i].inode : i \in 1 .. Len(devfs.nodes)}
  BY Zenon
<1>6. L \in SUBSET Inodes /\ L \subseteq devfs.live
  BY <1>1, <1>3, <1>5, ZenonT(60) DEF NodesOK, RootOK
<1>7. \A i \in 1 .. Len(devfs.nodes) : devfs.nodes[i].inode \in L
  BY <1>5, Zenon
<1>8. \A n \in L : devfs.parent[n] \in L \cup {NoInode}
  BY <1>1, <1>5, Zenon DEF RootOK
<1>9. mount_table[m].root \in InDevs(L)
  BY <1>5, Zenon DEF InDevs
<1>10. \A x \in InDevs(L), c \in Parts : lookup_component(mount_table[m].fs, x, c) \in InDevs(L)
  BY <1>1, <1>4, <1>6, <1>7, <1>8, DevStep, Zenon
<1>11. vfs_lookup_path(path) \in InDevs(L)
  BY <1>1, <1>9, <1>10, LookupStays, Zenon
<1>12. \A n \in L : InDev(n).id = n
  BY <1>6, DevInodes
<1> QED  BY <1>6, <1>11, <1>12, Zenon DEF InDevs
(* A listing of a directory of ramfs has room for all its files.           *)
LEMMA RamfsListing ==
    ASSUME RangesBound, NEW r \in RamfsType, NEW i \in Nat, r.parent[0] = None,
           NEW count \in Nat, RAMFS_MAX_FILES <= count
    PROVE  ramfs_readdir(r, i, count) = {j \in 0 .. r.file_count - 1 : r.parent[j] = i}
<1>1. r.file_count \in Nat /\ r.file_count <= RAMFS_MAX_FILES
  BY EntriesBelow, Zenon
<1>2. ASSUME NEW j \in 0 .. r.file_count - 1, r.parent[j] = i
      PROVE  Cardinality({k \in 0 .. j - 1 : r.parent[k] = i}) < count
  <2>1. j # 0
    BY <1>2 DEF None
  <2>2. PICK T : T = {k \in 0 .. j - 1 : r.parent[k] = i}
    BY Zenon
  <2>3. T \in SUBSET (0 .. j - 1)
    BY <2>2, Zenon
  <2>4. 0 \in Nat /\ j - 1 \in Nat /\ 0 <= (j - 1) + 1
    BY <1>1, <2>1
  <2>5. Cardinality(T) \in Nat /\ Cardinality(T) <= (j - 1) + 1 - 0
    BY <2>3, <2>4, Zenon DEF RangesBound
  <2>6. Cardinality(T) < count
    BY <1>1, <2>5, RamfsAssumption
  <2> QED  BY <2>2, <2>6, Zenon
<1> QED  BY <1>2, Zenon DEF ramfs_readdir

LEMMA RootIsPath == <<"/">> \in Paths
BY DEF Paths

LEMMA ListingsAgree ==
    ASSUME VfsInv
    PROVE  ListedIsFound
<1>0. PICK count : count = RAMFS_MAX_FILES + MAX_DEV_NODES
  BY Zenon
<1>1. count \in Nat /\ RAMFS_MAX_FILES <= count /\ MAX_DEV_NODES <= count
  BY <1>0, RamfsAssumption, DevfsAssumption
<1>2. /\ WellOrdered /\ RangesBound /\ ramfs \in RamfsType /\ ramfs.parent[0] = None
      /\ devfs \in DevfsType /\ mount_table \in Seq(Mounts)
      /\ ramfs.file_count \in Nat
  <2>1. /\ WellOrdered /\ RangesBound /\ ramfs \in RamfsType /\ ramfs.parent[0] = None
        /\ devfs \in DevfsType /\ mount_table \in Seq(Mounts)
    BY Zenon DEF VfsInv, RamfsInv, RamfsTables, DevfsInv, MountInv
  <2> QED  BY <2>1, EntriesBelow, Zenon
<1>3. ASSUME NEW dir \in Paths, NEW n \in Names \ {".", ".."},
             vfs_find_mount(Append(dir, n)) = vfs_find_mount(dir)
      PROVE  n \in vfs_readdir(dir, count) <=> vfs_lookup_path(Append(dir, n)) # NullInode
  <2>0. dir \in Seq(Parts) /\ n \in Parts /\ n # "." /\ n # ".."
    BY Zenon DEF Paths, Parts
  <2>1. PICK m : m = vfs_find_mount(dir)
    BY Zenon
  <2>2. PICK ino : ino = vfs_lookup_path(dir)
    BY Zenon
  <2>3. CASE m = 0
    <3>1. ino = NullInode /\ vfs_lookup_path(Append(dir, n)) = NullInode
      BY <1>3, <2>1, <2>2, <2>3, Zenon DEF vfs_lookup_path
    <3> QED  BY <2>2, <3>1, Zenon DEF vfs_readdir
  <2>4. ASSUME m # 0
        PROVE  vfs_lookup_path(Append(dir, n)) = lookup_component(mount_table[m].fs, ino, n)
    BY <1>2, <1>3, <2>0, <2>1, <2>2, <2>4, LookupInDirectory, Zenon
  <2>5. CASE m # 0 /\ ino = NullInode
    <3>1. vfs_lookup_path(Append(dir, n)) = NullInode
      BY <2>4, <2>5, Zenon DEF lookup_component
    <3> QED  BY <2>2, <2>5, <3>1, Zenon DEF vfs_readdir
  <2>6. ASSUME m # 0, mount_table[m].fs = "ramfs", ino # NullInode, ino \in RamDir
        PROVE  n \in vfs_readdir(dir, count) <=> vfs_lookup_path(Append(dir, n)) # NullInode
    <3>1. PICK i \in 0 .. ramfs.file_count - 1 : ino = InRam(i)
      BY <2>6, Zenon DEF RamDir
    <3>2. i \in Nat
      BY <1>2
    <3>3. ino.fs = "ramfs" /\ ino.id = i
      BY <3>1, <3>2, RamInodes, Zenon
    <3>4. PICK f : f = ramfs_find_file(ramfs, i, n)
      BY Zenon
    <3>5. vfs_lookup_path(Append(dir, n)) = InRam(f)
      BY <2>0, <2>4, <2>6, <3>3, <3>4, Zenon DEF lookup_component, ramfs_lookup
    <3>6. vfs_readdir(dir, count) =
              {ramfs.name[j] : j \in {k \in 0 .. ramfs.file_count - 1 : ramfs.parent[k] = i}}
      <4>1. ramfs_readdir(ramfs, i, count) = {k \in 0 .. ramfs.file_count - 1 : ramfs.parent[k] = i}
        BY <1>1, <1>2, <3>2, RamfsListing, Zenon
      <4>2. vfs_readdir(dir, count) = {ramfs.name[j] : j \in ramfs_readdir(ramfs, i, count)}
        BY <2>2, <2>6, <3>3, Zenon DEF vfs_readdir
      <4> QED  BY <4>1, <4>2, Zenon
    <3>7. CASE f = None /\ \A j \in 0 .. ramfs.file_count - 1 : ~(ramfs.parent[j] = i /\ ramfs.name[j] = n)
      BY <3>5, <3>6, <3>7, NoInodes, Zenon
    <3>8. CASE f \in 0 .. ramfs.file_count - 1 /\ ramfs.parent[f] = i /\ ramfs.name[f] = n
      <4>1. f \in Nat
        BY <1>2, <3>8
      <4>2. InRam(f) # NullInode
        BY <4>1, RamInodes, Zenon
      <4> QED  BY <3>5, <3>6, <3>8, <4>2, Zenon
    <3>9. \/ f = None /\ \A j \in 0 .. ramfs.file_count - 1 : ~(ramfs.parent[j] = i /\ ramfs.name[j] = n)
          \/ f \in 0 .. ramfs.file_count - 1 /\ ramfs.parent[f] = i /\ ramfs.name[f] = n
      BY <1>2, <3>4, FindFile
    <3> QED  BY <3>7, <3>8, <3>9, Zenon
  <2>7. ASSUME m # 0, mount_table[m].fs = "devfs", ino # NullInode, ino \in InDevs(Inodes)
        PROVE  n \in vfs_readdir(dir, count) <=> vfs_lookup_path(Append(dir, n)) # NullInode
    <3>1. PICK x \in Inodes : ino = InDev(x)
      BY <2>7, Zenon DEF InDevs
    <3>2. ino.fs # "ramfs"
      BY <3>1, DevInodes, Zenon
    <3>3. PICK f : f = devfs_find_node(devfs, n)
      BY Zenon
    <3>4. vfs_lookup_path(Append(dir, n)) = IF f = 0 THEN InDev(NoInode) ELSE InDev(devfs.nodes[f].inode)
      <4>1. mount_table[m].fs # "ramfs"
        BY <2>7
      <4>2. vfs_lookup_path(Append(dir, n)) = InDev(devfs_lookup(devfs, n))
        BY <2>0, <2>4, <2>7, <4>1, Zenon DEF lookup_component
      <4> QED  BY <3>3, <4>2, Zenon DEF devfs_lookup
    <3>5. /\ devfs.nodes \in Seq(Nodes) /\ Len(devfs.nodes) \in Nat
          /\ \A k \in 1 .. Len(devfs.nodes) : devfs.nodes[k].inode \in Inodes
      BY <1>2, DevfsFields, Zenon
    <3>6. Len(devfs.nodes) <= MAX_DEV_NODES
      BY Zenon DEF VfsInv, DevfsInv, NodesOK
    <3>7. {k \in DOMAIN devfs.nodes : k <= count} = 1 .. Len(devfs.nodes)
      <4>1. DOMAIN devfs.nodes = 1 .. Len(devfs.nodes)
        BY <3>5
      <4>2. \A k \in 1 .. Len(devfs.nodes) : k <= count
        BY <1>1, <3>5, <3>6, DevfsAssumption
      <4> QED  BY <4>1, <4>2, Zenon
    <3>8. vfs_readdir(dir, count) = {devfs.nodes[k].name : k \in 1 .. Len(devfs.nodes)}
      <4>1. vfs_readdir(dir, count) = devfs_readdir(devfs, count)
        BY <2>2, <2>7, <3>2, Zenon DEF vfs_readdir
      <4> QED  BY <3>7, <4>1, Zenon DEF devfs_readdir
    <3>9. CASE f = 0 /\ \A k \in 1 .. Len(devfs.nodes) : devfs.nodes[k].name # n
      BY <3>4, <3>8, <3>9, NoInodes, Zenon
    <3>10. CASE f \in 1 .. Len(devfs.nodes) /\ devfs.nodes[f].name = n
      <4>1. f # 0
        BY <3>5, <3>10
      <4>2. InDev(devfs.nodes[f].inode) # NullInode
        BY <3>5, <3>10, DevInodes, Zenon
      <4> QED  BY <3>4, <3>8, <3>10, <4>1, <4>2, Zenon
    <3> QED  BY <1>2, <3>3, <3>5, <3>9, <3>10, FindNode, Zenon
  <2>8. 1 .. Len(mount_table) \subseteq Nat \ {0}
    BY <1>2
  <2> QED  BY <2>1, <2>2, <2>3, <2>5, <2>6, <2>7, <2>8, LookupKinds, Zenon
<1>4. client.opens \cup {<<"/">>} \subseteq Paths
  BY ClientPaths, RootIsPath, Zenon DEF VfsInv
<1> QED  BY <1>0, <1>3, <1>4, Zenon DEF ListedIsFound

-----------------------------------------------------------------------------
(* The names on the way to a file: parents come before their children in   *)
(* the table, so path_of is well defined.                                  *)
LEMMA PathOf ==
    ASSUME WellOrdered, ramfs \in RamfsType, \A i \in Entries : ramfs.parent[i] < i
    PROVE  \A i \in Entries :
               path_of[i] = IF ramfs.parent[i] = None THEN <<"/">>
                            ELSE Append(path_of[ramfs.parent[i]], ramfs.name[i])
<1> DEFINE up(i) == ramfs.parent[i]
           next(i, p) == Append(p, ramfs.name[i])
           Loop(f, m) == f = [i \in 0 .. m |-> IF up(i) = None THEN <<"/">> ELSE next(i, f[up(i)])]
           body(f) == [i \in Entries |->
                          IF ramfs.parent[i] = None THEN <<"/">>
                          ELSE Append(f[ramfs.parent[i]], ramfs.name[i])]
<1>0. RAMFS_MAX_FILES \in Nat \ {0} /\ Entries = 0 .. RAMFS_MAX_FILES - 1
  BY RamfsAssumption DEF Entries
<1>1. \A i \in Entries : up(i) = None \/ up(i) \in 0 .. i - 1
  <2>1. ramfs.parent \in [Entries -> Entries \cup {None}]
    BY DEF RamfsType
  <2> QED  BY <1>0, <2>1
<1>2. \A m \in Entries : \E f : Loop(f, m)
  <2> SUFFICES ASSUME \E m \in Entries : ~\E f : Loop(f, m) PROVE FALSE
    OBVIOUS
  <2>0. PICK T : T = {m \in Entries : ~\E f : Loop(f, m)}
    BY Zenon
  <2>1. T \in SUBSET Nat /\ T # {}
    <3>1. T \subseteq Entries /\ T # {}
      BY <2>0, Zenon
    <3> QED  BY <1>0, <3>1
  <2>2. PICK m \in T : \A j \in T : m <= j
    BY <2>1, Least, Zenon
  <2>3. m \in Entries /\ ~\E f : Loop(f, m)
    BY <2>0, Zenon
  <2>4. PICK f : m # 0 => Loop(f, m - 1)
    <3>1. CASE m = 0
      BY <3>1, Zenon
    <3>2. CASE m # 0
      <4>1. m - 1 \in Entries /\ m - 1 \notin T
        BY <1>0, <2>2, <2>3, <3>2, SMTT(60)
      <4> QED  BY <2>0, <4>1, Zenon
    <3> QED  BY <3>1, <3>2, Zenon
  <2> DEFINE g == [k \in 0 .. m |->
                      IF k = m THEN IF up(m) = None THEN <<"/">> ELSE next(m, f[up(m)]) ELSE f[k]]
  <2>5. m # 0 => \A k \in 0 .. m - 1 : f[k] = IF up(k) = None THEN <<"/">> ELSE next(k, f[up(k)])
    BY <2>4, Zenon
  <2> HIDE DEF up, next
  <2>6. ASSUME NEW k \in 0 .. m PROVE g[k] = IF up(k) = None THEN <<"/">> ELSE next(k, g[up(k)])
    <3>1. k \in Entries /\ m \in Nat /\ k \in Nat
      BY <1>0, <2>3
    <3>2. up(k) # None => g[up(k)] = f[up(k)]
      <4>1. up(k) # None => up(k) \in 0 .. k - 1
        BY <1>1, <3>1, Zenon
      <4>2. up(k) # None => up(k) \in 0 .. m /\ up(k) # m
        BY <3>1, <4>1
      <4> QED  BY <4>2, Zenon
    <3>3. CASE k = m
      BY <3>2, <3>3, Zenon
    <3>4. CASE k # m
      <4>1. m # 0 /\ k \in 0 .. m - 1
        BY <3>1, <3>4
      <4>2. g[k] = f[k]
        BY <3>4, Zenon
      <4> QED  BY <2>5, <3>2, <4>1, <4>2, Zenon
    <3> QED  BY <3>3, <3>4, Zenon
  <2>7. Loop(g, m)
    BY <2>6, Zenon
  <2> QED  BY <2>3, <2>7, Zenon
<1>3. PICK f : Loop(f, RAMFS_MAX_FILES - 1)
  <2>1. RAMFS_MAX_FILES - 1 \in Entries
    BY <1>0
  <2> QED  BY <1>2, <2>1, Zenon
<1>4. f = body(f)
  BY <1>0, <1>3, Zenon
<1>5. path_of = body(path_of)
  <2> DEFINE h == CHOOSE x : x = body(x)
  <2>1. h = body(h)
    BY <1>4, Zenon
  <2>2. path_of = h
    BY DEF path_of
  <2> HIDE DEF h
  <2> QED  BY <2>1, <2>2, Zenon
<1> QED  BY <1>5, Zenon

(* The path of a file leads to it unless the path is under another mount.  *)
Reached(i) ==
    /\ path_of[i] \in Seq(Parts) /\ Len(path_of[i]) # 0 /\ path_of[i][1] = "/"
    /\ vfs_find_mount(path_of[i]) = 1 => vfs_lookup_path(path_of[i]) = InRam(i)

LEMMA RootReached ==
    ASSUME VfsInv, path_of[0] = <<"/">>
    PROVE  Reached(0)
<1>1. path_of[0] \in Seq(Parts) /\ Len(path_of[0]) = 1 /\ path_of[0][1] = "/"
  BY DEF Parts
<1>2. mount_table[1].path = path_of[0] /\ mount_table[1].fs = "ramfs" /\ mount_table[1].root = InRam(0)
  BY DEF VfsInv, MountInv
<1>3. walk("ramfs", InRam(0), path_of[0], Len(path_of[0])) = InRam(0)
  <2>1. PICK p \in Seq(Parts) : p = path_of[0]
    BY <1>1, Zenon
  <2>2. WellOrdered
    BY Zenon DEF VfsInv
  <2>3. walk("ramfs", InRam(0), p, Len(p)) = InRam(0)
    BY <2>2, WalkNowhere, Zenon
  <2> QED  BY <2>1, <2>3, Zenon
<1>4. ASSUME vfs_find_mount(path_of[0]) = 1 PROVE vfs_lookup_path(path_of[0]) = InRam(0)
  <2>1. 1 # 0
    OBVIOUS
  <2> QED  BY <1>2, <1>3, <1>4, <2>1, Zenon DEF vfs_lookup_path
<1>5. Len(path_of[0]) # 0
  BY <1>1
<1> QED  BY <1>1, <1>4, <1>5, Zenon DEF Reached

LEMMA ChildReached ==
    ASSUME VfsInv, NEW q \in Nat, Reached(q), NEW i \in 0 .. ramfs.file_count - 1,
           ramfs.parent[i] = q, ramfs.name[i] \in Parts, ramfs.name[i] \notin {".", ".."},
           path_of[i] = Append(path_of[q], ramfs.name[i])
    PROVE  Reached(i)
<1>0. /\ WellOrdered /\ MountInv(mount_table) /\ mount_table \in Seq(Mounts) /\ ramfs \in RamfsType
      /\ \A k, j \in 0 .. ramfs.file_count - 1 :
            ramfs.parent[k] = ramfs.parent[j] /\ ramfs.name[k] = ramfs.name[j] => k = j
  BY Zenon DEF VfsInv, RamfsInv, RamfsTables, MountInv
<1>1. PICK p : p = path_of[q]
  BY Zenon
<1>2. PICK c : c = ramfs.name[i]
  BY Zenon
<1>3. p \in Seq(Parts) /\ Len(p) # 0 /\ p[1] = "/" /\ c \in Parts /\ path_of[i] = Append(p, c)
  BY <1>1, <1>2, Zenon DEF Reached
<1>4. Append(p, c) \in Seq(Parts) /\ Len(Append(p, c)) # 0 /\ Append(p, c)[1] = "/"
  BY <1>3
<1>5. ASSUME vfs_find_mount(Append(p, c)) = 1 PROVE vfs_lookup_path(Append(p, c)) = InRam(i)
  <2>1. vfs_find_mount(p) = 1
    BY <1>0, <1>3, <1>5, RootMountAbove, Zenon
  <2>2. vfs_lookup_path(p) = InRam(q)
    BY <1>1, <2>1, Zenon DEF Reached
  <2>3. 1 # 0
    OBVIOUS
  <2>4. vfs_lookup_path(Append(p, c)) = lookup_component(mount_table[1].fs, InRam(q), c)
    BY <1>0, <1>3, <1>5, <2>1, <2>2, <2>3, LookupInDirectory, Zenon
  <2>5. mount_table[1].fs = "ramfs"
    BY <1>0, SMTT(60) DEF MountInv
  <2>6. InRam(q) # NullInode /\ InRam(q).id = q
    BY RamInodes, Zenon
  <2>7. vfs_lookup_path(Append(p, c)) = InRam(ramfs_find_file(ramfs, q, c))
    BY <1>2, <2>4, <2>5, <2>6, Zenon DEF lookup_component, ramfs_lookup
  <2>8. ramfs.file_count \in Nat
    BY <1>0, EntriesBelow, Zenon
  <2>9. ramfs_find_file(ramfs, q, c) = i
    <3>1. PICK f : f = ramfs_find_file(ramfs, q, c)
      BY Zenon
    <3>2. \/ f = None /\ \A j \in 0 .. ramfs.file_count - 1 : ~(ramfs.parent[j] = q /\ ramfs.name[j] = c)
          \/ f \in 0 .. ramfs.file_count - 1 /\ ramfs.parent[f] = q /\ ramfs.name[f] = c
      BY <1>0, <2>8, <3>1, FindFile, SMTT(60)
    <3> QED  BY <1>0, <1>2, <3>1, <3>2, Zenon
  <2> QED  BY <2>7, <2>9, Zenon
<1> QED  BY <1>3, <1>4, <1>5, Zenon DEF Reached

LEMMA FilesReached ==
    ASSUME VfsInv
    PROVE  EveryFileReachable
<1>0. /\ WellOrdered /\ ramfs \in RamfsType /\ \A i \in Entries : ramfs.parent[i] < i
      /\ ramfs.parent[0] = None
      /\ \A i \in 1 .. ramfs.file_count - 1 : ramfs.parent[i] # None /\ Plain(ramfs, ramfs.parent[i])
  BY Zenon DEF VfsInv, RamfsInv, RamfsTables
<1>1. /\ ramfs.file_count \in Nat /\ 0 .. ramfs.file_count - 1 \subseteq Entries /\ 0 \in Entries
      /\ \A i \in Entries : i \in Nat
  BY <1>0, EntriesBelow, Zenon
<1>2. \A i \in Entries :
          path_of[i] = IF ramfs.parent[i] = None THEN <<"/">>
                       ELSE Append(path_of[ramfs.parent[i]], ramfs.name[i])
  BY <1>0, PathOf, Zenon
<1>3. \A i \in 0 .. ramfs.file_count - 1 : Plain(ramfs, i) => Reached(i)
  <2> SUFFICES ASSUME \E i \in 0 .. ramfs.file_count - 1 : Plain(ramfs, i) /\ ~Reached(i)
               PROVE  FALSE
    BY Zenon
  <2>0. PICK T : T = {i \in 0 .. ramfs.file_count - 1 : Plain(ramfs, i) /\ ~Reached(i)}
    BY Zenon
  <2>1. T \in SUBSET Nat /\ T # {}
    BY <1>1, <2>0, Zenon
  <2>2. PICK i \in T : \A j \in T : i <= j
    BY <1>0, <2>1, Least, Zenon
  <2>3. i \in 0 .. ramfs.file_count - 1 /\ Plain(ramfs, i) /\ ~Reached(i)
    BY <2>0, Zenon
  <2>4. i # 0
    <3>1. path_of[0] = <<"/">>
      BY <1>0, <1>1, <1>2, Zenon
    <3> QED  BY <2>3, <3>1, RootReached, Zenon
  <2>5. PICK q : q = ramfs.parent[i]
    BY Zenon
  <2>6. i \in 1 .. ramfs.file_count - 1 /\ i \in Entries
    <3>1. i \in 1 .. ramfs.file_count - 1
      BY <1>1, <2>3, <2>4
    <3> QED  BY <1>1, <2>3, <3>1, Zenon
  <2>7. q # None /\ Plain(ramfs, q) /\ q < i
    BY <1>0, <2>5, <2>6, Zenon
  <2>8. q \in Entries
    <3>1. ramfs.parent \in [Entries -> Entries \cup {None}]
      BY <1>0 DEF RamfsType
    <3> QED  BY <2>5, <2>6, <2>7, <3>1, Zenon
  <2>9. q \in Nat /\ q \in 0 .. ramfs.file_count - 1 /\ q \notin T
    BY <1>1, <2>2, <2>3, <2>7, <2>8
  <2>10. Reached(q)
    BY <2>0, <2>7, <2>9, Zenon
  <2>11. ramfs.name[i] \in Parts /\ ramfs.name[i] \notin {".", ".."}
    <3>1. ramfs.name \in [Entries -> Names \cup {"/", NoName}]
      BY <1>0, Zenon DEF RamfsType
    <3>2. ramfs.name[i] \in Names \cup {"/", NoName}
      BY <2>6, <3>1, Zenon
    <3> QED  BY <2>3, <2>4, <3>2, Zenon DEF Plain, Parts
  <2>12. path_of[i] = Append(path_of[q], ramfs.name[i])
    BY <1>2, <2>5, <2>6, <2>7, Zenon
  <2> QED  BY <2>3, <2>5, <2>9, <2>10, <2>11, <2>12, ChildReached, Zenon
<1>4. ASSUME NEW i \in 0 .. ramfs.file_count - 1, vfs_find_mount(path_of[i]) = 1,
             ramfs.name[i] \notin {NoName, "..", "."}
      PROVE  vfs_lookup_path(path_of[i]) = InRam(i)
  <2>1. Plain(ramfs, i)
    BY <1>4, Zenon DEF Plain
  <2> QED  BY <1>3, <1>4, <2>1, Zenon DEF Reached
<1> QED  BY <1>0, <1>1, <1>4, Zenon DEF EveryFileReachable
-----------------------------------------------------------------------------
(* The theorems.  The facts about numbers and sets come in here, so that   *)
(* the lemmas above are proved without the theorem libraries in sight.     *)
INSTANCE NumbersProofs

LEMMA VfsInvariant == Spec => []VfsInv
<1>1. Init => VfsInv
  BY WellOrderedHolds, RangesBoundHolds, VfsInitKeeps, Zenon
<1>2. VfsInv /\ [Next]_vars => VfsInv'
  BY VfsStepKeeps, VfsStutters, Zenon
<1> QED  BY <1>1, <1>2, PTL DEF Spec

(* The tables of ramfs and devfs, the mounts and the open files keep their *)
(* types: no counter or index of them leaves its table.                    *)
THEOREM VfsTypes == Spec => []TypeOK
BY VfsInvariant, TypesHold, PTL

(* For any tables, names and mounts: a file of ramfs is found by its path, *)
(* whatever was made, mounted and unmounted before.                        *)
THEOREM FilesAreReachable == Spec => []EveryFileReachable
BY VfsInvariant, FilesReached, PTL

(* For any tables: devfs_unregister_device and the mounting of devfs leave *)
(* no freed inode where vfs_lookup_path can find it.                       *)
THEOREM LookupsAreLive == Spec => []LooksUpLiveInodes
BY VfsInvariant, LiveLookups, PTL

(* For any tables: vfs_readdir and vfs_lookup_path agree.                  *)
THEOREM ListingsAreFound == Spec => []ListedIsFound
BY VfsInvariant, ListingsAgree, PTL

(* For any tables, buffers and open files: to who reads and writes, ramfs  *)
(* and the layer above it are files of bytes as FileStore has them.        *)
THEOREM VfsImplementsFileStore == Spec => ImplementsFileStore
<1>1. Init => Store!Init
  BY WellOrderedHolds, RangesBoundHolds, VfsInitKeeps, Zenon
<1>2. VfsInv /\ [Next]_vars => [Store!Next]_(Store!vars)
  <2>1. ASSUME VfsInv, UNCHANGED vars PROVE UNCHANGED Store!vars
    BY <2>1, VfsStutters, Zenon
  <2> QED  BY VfsStepKeeps, <2>1, Zenon
<1> QED  BY <1>1, <1>2, VfsInvariant, PTL DEF Spec, ImplementsFileStore, Store!Spec
=============================================================================
