---------------------------- MODULE MemoryProofs ----------------------------
(***************************************************************************)
(* Two allocators that hand out parts of something larger, for every size: *)
(* kmalloc's objects in their pages, and vmalloc's areas in their region;  *)
(* and what tasks hold: address spaces and open files, for any number of   *)
(* tasks, address spaces, descriptors and files.                           *)
(*                                                                         *)
(* slab.c.  IInv adds to the properties of Slab what makes them inductive: *)
(* the free list of a slab has no object twice, `total' is what the cache  *)
(* puts on a page, and an object that is out fits the class of its page's  *)
(* cache.  Every operation but kmem_cache_destroy changes one page, its    *)
(* header and the list it is on, and OneSlab says once why such a step     *)
(* keeps IInv; what is left for kmem_cache_alloc (Takes) and               *)
(* kmem_cache_free (KfreeOK) is that the list they choose fits the new     *)
(* inuse.  That objects do not overlap is then arithmetic (Geometry,       *)
(* ObjectsSpaced), and needs PAGE_SIZE to be a multiple of 8.              *)
(*                                                                         *)
(* vmalloc.c.  What the promise of AddressSpace comes to: areas never      *)
(* overlap, not even in their guard addresses, and every address of the    *)
(* region that is mapped belongs to an area.  vmalloc.c inherits both      *)
(* through ImplementsAddressSpace.                                         *)
(*                                                                         *)
(* The invariants of TaskResources lean on each other.  exit_mm may        *)
(* decrement mm_users only because it counts the task that exits           *)
(* (SpaceOutlivesUsers); a new task adds one user only because a structure *)
(* that is not in use has no mm (Vacant); and the pointer that exit_mm     *)
(* leaves behind stays with the running task (StalePointerConfined), which *)
(* context_switch clears.                                                  *)
(***************************************************************************)
EXTENDS Slab, TaskResources, Numbers, TLAPS
-----------------------------------------------------------------------------
(* kmalloc.                                                                *)

(* slab_list_add puts one slab more on a list.                             *)
LEMMA ListAdd ==
    ASSUME NEW S, NEW q \in Seq(S), NEW x \in S
    PROVE  /\ slab_list_add(q, x) \in Seq(S)
           /\ Len(slab_list_add(q, x)) = Len(q) + 1
           /\ ToSet(slab_list_add(q, x)) = ToSet(q) \cup {x}
           /\ Distinct(q) /\ x \notin ToSet(q) => Distinct(slab_list_add(q, x))
<1>1. PICK r : r = slab_list_add(q, x)
  BY Zenon
<1>2. /\ r \in Seq(S) /\ Len(r) = Len(q) + 1 /\ Len(q) \in Nat
      /\ r[1] = x /\ \A i \in 1 .. Len(q) : r[i + 1] = q[i]
      /\ DOMAIN r = 1 .. Len(r) /\ DOMAIN q = 1 .. Len(q)
  BY <1>1 DEF slab_list_add
<1>3. \A i \in 1 .. Len(r) : i = 1 \/ (i - 1 \in 1 .. Len(q) /\ r[i] = q[i - 1])
  BY <1>2
<1>4. \A i \in 1 .. Len(q) : i + 1 \in 1 .. Len(r) /\ q[i] = r[i + 1]
  BY <1>2
<1>5. ToSet(r) = ToSet(q) \cup {x}
  <2>1. 1 \in 1 .. Len(r)
    BY <1>2
  <2>2. ASSUME NEW y \in ToSet(r) PROVE y \in ToSet(q) \cup {x}
    <3>1. PICK i \in 1 .. Len(r) : y = r[i]
      BY <1>2 DEF ToSet
    <3>2. CASE i = 1
      BY <1>2, <3>1, <3>2
    <3>3. CASE i - 1 \in 1 .. Len(q) /\ r[i] = q[i - 1]
      BY <1>2, <3>1, <3>3 DEF ToSet
    <3> QED  BY <1>3, <3>2, <3>3
  <2>3. ASSUME NEW y \in ToSet(q) PROVE y \in ToSet(r)
    BY <1>2, <1>4 DEF ToSet
  <2>4. x \in ToSet(r)
    BY <1>2, <2>1 DEF ToSet
  <2> QED  BY <2>2, <2>3, <2>4
<1>6. ASSUME Distinct(q), x \notin ToSet(q) PROVE Distinct(r)
  <2> SUFFICES ASSUME NEW i \in 1 .. Len(r), NEW j \in 1 .. Len(r), r[i] = r[j] PROVE i = j
    BY DEF Distinct
  <2>1. \A k \in 1 .. Len(q) : q[k] # x
    BY <1>2, <1>6 DEF ToSet
  <2> QED  BY <1>2, <1>3, <1>6, <2>1, SMTT(60) DEF Distinct
<1> QED  BY <1>1, <1>2, <1>5, <1>6, Zenon

(* slab_list_remove takes exactly the slab off the list.                   *)
LEMMA ListRemove ==
    ASSUME NEW S, NEW q \in Seq(S), NEW x \in ToSet(q), Distinct(q)
    PROVE  /\ slab_list_remove(q, x) \in Seq(S)
           /\ Len(slab_list_remove(q, x)) = Len(q) - 1
           /\ ToSet(slab_list_remove(q, x)) = ToSet(q) \ {x}
           /\ Distinct(slab_list_remove(q, x))
<1>0. Len(q) \in Nat /\ DOMAIN q = 1 .. Len(q)
  OBVIOUS
<1>1. PICK i \in 1 .. Len(q) : i = CHOOSE k \in 1 .. Len(q) : q[k] = x
  BY <1>0 DEF ToSet
<1>2. q[i] = x
  BY <1>0, <1>1 DEF ToSet
<1>3. PICK r : r = [j \in 1 .. Len(q) - 1 |-> IF j < i THEN q[j] ELSE q[j + 1]]
  BY Zenon
<1>4. slab_list_remove(q, x) = r
  BY <1>1, <1>3, Zenon DEF slab_list_remove
<1>5. \A j \in 1 .. Len(q) - 1 : j \in 1 .. Len(q) /\ j + 1 \in 1 .. Len(q)
  BY <1>0
<1>6. /\ Len(r) = Len(q) - 1 /\ r \in Seq(S) /\ DOMAIN r = 1 .. Len(q) - 1
      /\ \A j \in 1 .. Len(q) - 1 : r[j] = IF j < i THEN q[j] ELSE q[j + 1]
  <2>1. Len(q) - 1 \in Nat
    BY <1>0
  <2>2. \A j \in 1 .. Len(q) : q[j] \in S
    OBVIOUS
  <2>3. r \in [1 .. Len(q) - 1 -> S]
    BY <1>3, <1>5, <2>2
  <2> QED  BY <1>3, <2>1, <2>3
<1>7. ToSet(r) = ToSet(q) \ {x}
  <2>1. ASSUME NEW y \in ToSet(r) PROVE y \in ToSet(q) \ {x}
    <3>1. PICK j \in 1 .. Len(q) - 1 : y = r[j]
      BY <1>6 DEF ToSet
    <3>2. PICK k \in 1 .. Len(q) : y = q[k] /\ k # i
      BY <1>0, <1>5, <1>6, <3>1
    <3>3. y # x
      BY <1>2, <3>2 DEF Distinct
    <3> QED  BY <1>0, <3>2, <3>3 DEF ToSet
  <2>2. ASSUME NEW y \in ToSet(q), y # x PROVE y \in ToSet(r)
    <3>1. PICK k \in 1 .. Len(q) : y = q[k]
      BY <1>0 DEF ToSet
    <3>2. k # i
      BY <1>2, <2>2, <3>1
    <3>3. CASE k < i
      <4>1. k \in 1 .. Len(q) - 1 /\ r[k] = y
        BY <1>0, <1>6, <3>1, <3>3
      <4> QED  BY <1>6, <4>1 DEF ToSet
    <3>4. CASE k > i
      <4>1. k - 1 \in 1 .. Len(q) - 1 /\ r[k - 1] = y
        BY <1>0, <1>6, <3>1, <3>4
      <4> QED  BY <1>6, <4>1 DEF ToSet
    <3> QED  BY <1>0, <3>2, <3>3, <3>4
  <2> QED  BY <2>1, <2>2
<1>8. Distinct(r)
  <2> SUFFICES ASSUME NEW j \in 1 .. Len(r), NEW k \in 1 .. Len(r), r[j] = r[k] PROVE j = k
    BY DEF Distinct
  <2>1. \A a, b \in 1 .. Len(q) : q[a] = q[b] => a = b
    BY DEF Distinct
  <2> QED  BY <1>0, <1>5, <1>6, <2>1
<1> QED  BY <1>4, <1>6, <1>7, <1>8

(* What kmem_cache_alloc does to a free list.                              *)
LEMMA ListTail ==
    ASSUME NEW S, NEW q \in Seq(S), q # << >>, Distinct(q)
    PROVE  /\ Tail(q) \in Seq(S) /\ Len(Tail(q)) = Len(q) - 1
           /\ Head(q) \in ToSet(q)
           /\ ToSet(Tail(q)) = ToSet(q) \ {Head(q)}
           /\ Distinct(Tail(q))
<1>1. PICK r : r = Tail(q)
  BY Zenon
<1>2. /\ r \in Seq(S) /\ Len(r) = Len(q) - 1 /\ Len(q) \in Nat \ {0} /\ Head(q) = q[1]
      /\ DOMAIN q = 1 .. Len(q) /\ DOMAIN r = 1 .. Len(r)
      /\ \A i \in 1 .. Len(r) : r[i] = q[i + 1]
  BY <1>1
<1>3. \A a, b \in 1 .. Len(q) : q[a] = q[b] => a = b
  BY DEF Distinct
<1>4. ToSet(r) = ToSet(q) \ {q[1]}
  <2>1. ASSUME NEW y \in ToSet(r) PROVE y \in ToSet(q) \ {q[1]}
    <3>1. PICK j \in 1 .. Len(r) : y = r[j]
      BY <1>2 DEF ToSet
    <3>2. j + 1 \in 1 .. Len(q) /\ y = q[j + 1] /\ 1 \in 1 .. Len(q) /\ j + 1 # 1
      BY <1>2, <3>1
    <3>3. y # q[1]
      BY <1>3, <3>2
    <3> QED  BY <1>2, <3>2, <3>3 DEF ToSet
  <2>2. ASSUME NEW y \in ToSet(q), y # q[1] PROVE y \in ToSet(r)
    <3>1. PICK k \in 1 .. Len(q) : y = q[k]
      BY <1>2 DEF ToSet
    <3>2. k - 1 \in 1 .. Len(r) /\ r[k - 1] = y
      BY <1>2, <2>2, <3>1
    <3> QED  BY <1>2, <3>2 DEF ToSet
  <2> QED  BY <2>1, <2>2
<1>5. Distinct(r)
  <2> SUFFICES ASSUME NEW j \in 1 .. Len(r), NEW k \in 1 .. Len(r), r[j] = r[k] PROVE j = k
    BY DEF Distinct
  <2>1. j + 1 \in 1 .. Len(q) /\ k + 1 \in 1 .. Len(q) /\ q[j + 1] = q[k + 1]
    BY <1>2
  <2> QED  BY <1>2, <1>3, <2>1
<1>6. q[1] \in ToSet(q)
  <2>1. 1 \in 1 .. Len(q)
    BY <1>2
  <2> QED  BY <1>2, <2>1 DEF ToSet
<1> QED  BY <1>1, <1>2, <1>4, <1>5, <1>6
-----------------------------------------------------------------------------
(* Multiples of s are s apart.                                             *)
LEMMA Multiples ==
    ASSUME NEW s \in Nat, NEW a \in Nat, NEW b \in Nat, a < b
    PROVE  a * s \in Nat /\ b * s \in Nat /\ a * s + s <= b * s
<1>1. PICK d \in Nat : d = b - a - 1
  OBVIOUS
<1>2. b * s = a * s + d * s + s
  BY <1>1
<1>3. a * s \in Nat /\ b * s \in Nat /\ d * s \in Nat
  OBVIOUS
<1> QED  BY <1>2, <1>3

LEMMA Quotient ==
    ASSUME NEW u \in Nat, NEW s \in Nat \ {0}
    PROVE  u \div s \in Nat /\ (u \div s) * s <= u
OBVIOUS

LEMMA PageAddress ==
    ASSUME NEW f \in Nat, NEW x \in Nat, x < PAGE_SIZE
    PROVE  f * PAGE_SIZE + x \in Nat /\ PageOf(f * PAGE_SIZE + x) = f
<1>1. PAGE_SIZE \in Nat \ {0}
  BY SlabAssumption
<1>2. f * PAGE_SIZE \in Nat
  BY <1>1
<1>3. (f * PAGE_SIZE + x) \div PAGE_SIZE = f
  BY <1>1, <1>2
<1> QED  BY <1>2, <1>3 DEF PageOf

(* Object sizes, and where the objects of a slab lie: behind the header,   *)
(* before the end of the page, and an object size apart.                   *)
LEMMA ObjectSize ==
    ASSUME NEW c \in Nat
    PROVE  obj_size(c) \in Nat /\ obj_size(c) >= c /\ obj_size(c) >= 8
BY DEF obj_size

LEMMA Geometry ==
    ASSUME NEW c \in Caches, NEW f \in Nat, NEW i \in 1 .. objs_per_slab(c)
    PROVE  /\ Address(f, i, c) \in Nat /\ PageOf(Address(f, i, c)) = f
           /\ f * PAGE_SIZE + HEADER <= Address(f, i, c)
           /\ Address(f, i, c) + obj_size(c) <= (f + 1) * PAGE_SIZE
<1>1. PICK s \in Nat : s = obj_size(c) /\ s >= 8
  BY ObjectSize, SlabAssumption DEF Caches
<1>2. PICK u \in Nat : u = ((PAGE_SIZE - HEADER) \div 8) * 8
  BY SlabAssumption
<1>3. PICK b \in Nat : b = ((HEADER + 7) \div 8) * 8
  BY SlabAssumption
<1>4. b + u = PAGE_SIZE /\ HEADER <= b
  BY SlabAssumption, <1>2, <1>3
<1>5. PICK n \in Nat : n = objs_per_slab(c) /\ n * s <= u
  <2>1. objs_per_slab(c) = u \div s
    BY <1>1, <1>2 DEF objs_per_slab
  <2> QED  BY <1>1, <2>1, Quotient
<1>6. PICK k \in Nat : k = i - 1 /\ k < n
  BY <1>5
<1>7. k * s \in Nat /\ k * s + s <= n * s
  BY <1>6, <1>1, <1>5, Multiples
<1>8. PICK x \in Nat : x = b + k * s
  BY <1>7
<1>9. HEADER <= x /\ x + s <= PAGE_SIZE /\ HEADER \in Nat /\ PAGE_SIZE \in Nat
  <2>1. n * s \in Nat
    BY <1>1, <1>5
  <2> QED  BY <1>4, <1>5, <1>7, <1>8, <2>1, SlabAssumption
<1>10. f * PAGE_SIZE + x \in Nat /\ PageOf(f * PAGE_SIZE + x) = f /\ f * PAGE_SIZE \in Nat
  BY <1>1, <1>9, PageAddress, SlabAssumption
<1>11. Address(f, i, c) = f * PAGE_SIZE + x
  BY <1>1, <1>3, <1>6, <1>7, <1>8, <1>10 DEF Address
<1>12. (f + 1) * PAGE_SIZE = f * PAGE_SIZE + PAGE_SIZE
  BY <1>9
<1> QED  BY <1>1, <1>9, <1>10, <1>11, <1>12

LEMMA ObjectsSpaced ==
    ASSUME NEW c \in Caches, NEW f \in Nat,
           NEW i \in 1 .. objs_per_slab(c), NEW j \in 1 .. objs_per_slab(c), i < j
    PROVE  Address(f, i, c) + obj_size(c) <= Address(f, j, c)
<1>1. PICK s \in Nat : s = obj_size(c)
  BY ObjectSize, SlabAssumption DEF Caches
<1>2. PICK b \in Nat : b = ((HEADER + 7) \div 8) * 8
  BY SlabAssumption
<1>3. PICK p \in Nat : p = f * PAGE_SIZE
  BY SlabAssumption
<1>4. i \in Nat /\ j \in Nat /\ 1 <= i
  OBVIOUS
<1>5. PICK k \in Nat, l \in Nat : k = i - 1 /\ l = j - 1 /\ k < l
  BY <1>4
<1>6. k * s \in Nat /\ l * s \in Nat /\ k * s + s <= l * s
  BY <1>1, <1>5, Multiples
<1>7. Address(f, i, c) = p + b + k * s /\ Address(f, j, c) = p + b + l * s
  BY <1>1, <1>2, <1>3, <1>5 DEF Address
<1> QED  BY <1>1, <1>6, <1>7

(* kmalloc_index returns a class the request fits in.                      *)
LEMMA ClassFits ==
    ASSUME WellOrdered, NEW n \in Nat, \E size \in KmallocSizes : n <= size
    PROVE  kmalloc_index(n) \in KmallocSizes /\ n <= kmalloc_index(n)
<1>1. PICK T : T = {size \in KmallocSizes : n <= size}
  BY Zenon
<1>2. T \in SUBSET Nat /\ T # {}
  BY <1>1, SlabAssumption, Zenon
<1>3. \E x \in T : \A y \in T : x <= y
  BY <1>2 DEF WellOrdered
<1>4. \E size \in KmallocSizes : n <= size /\ \A k \in KmallocSizes : n <= k => size <= k
  BY <1>1, <1>3
<1> QED  BY <1>4, Zenon DEF kmalloc_index
-----------------------------------------------------------------------------
Header == [cache : Caches \cup {0}, free_list : Seq(Nat), inuse : Nat, total : Nat]
Objects(f, c) == {Address(f, i, c) : i \in 1 .. objs_per_slab(c)}
Out(objs, f) == {o[1] : o \in {q \in objs : PageOf(q[1]) = f}}

(* Header h fits the slab f of cache c when the objects `out' are out.     *)
Consistent(h, c, f, out) ==
    /\ h.cache = c /\ h.total = objs_per_slab(c)
    /\ Distinct(h.free_list)
    /\ ToSet(h.free_list) = Objects(f, c) \ out
    /\ out \subseteq Objects(f, c)
    /\ Len(h.free_list) = h.total - h.inuse
    /\ IsFiniteSet(out) /\ Cardinality(out) = h.inuse

ListsOK(c) ==
    /\ Distinct(slabs_partial[c]) /\ Distinct(slabs_full[c]) /\ Distinct(slabs_empty[c])
    /\ ToSet(slabs_partial[c]) \cap ToSet(slabs_full[c]) = {}
    /\ ToSet(slabs_partial[c]) \cap ToSet(slabs_empty[c]) = {}
    /\ ToSet(slabs_full[c]) \cap ToSet(slabs_empty[c]) = {}
    /\ \A f \in ToSet(slabs_partial[c]) : header[f].inuse < header[f].total
    /\ \A f \in ToSet(slabs_full[c]) : header[f].inuse = header[f].total
    /\ \A f \in ToSet(slabs_empty[c]) : header[f].inuse = 0

HeldOK ==
    /\ \A o \in held : \E c \in Caches : PageOf(o[1]) \in Slabs(c) /\ o[2] <= obj_size(c)
    /\ \A o, q \in held : o[1] = q[1] => o = q

SlabsOK ==
    \A c \in Caches : /\ ListsOK(c) /\ IsFiniteSet(Slabs(c))
                      /\ \A f \in Slabs(c) : Consistent(header[f], c, f, Out(held, f))

IInv == TypeOK /\ HeldOK /\ PagesAccounted /\ SlabsOK
-----------------------------------------------------------------------------
(* A step changes the header of one page f, of cache c, to h, and leaves f *)
(* on the list `on' names, or with the page allocator.                     *)
Relists(c, f, on) ==
    /\ slabs_partial' \in [Caches -> Seq(Frames)]
    /\ slabs_full' \in [Caches -> Seq(Frames)]
    /\ slabs_empty' \in [Caches -> Seq(Frames)]
    /\ \A d \in Caches \ {c} : /\ slabs_partial'[d] = slabs_partial[d]
                               /\ slabs_full'[d] = slabs_full[d]
                               /\ slabs_empty'[d] = slabs_empty[d]
    /\ Distinct(slabs_partial'[c]) /\ Distinct(slabs_full'[c]) /\ Distinct(slabs_empty'[c])
    /\ \A g : /\ g \in ToSet(slabs_partial'[c])
                 <=> IF g = f THEN on = "partial" ELSE g \in ToSet(slabs_partial[c])
              /\ g \in ToSet(slabs_full'[c])
                 <=> IF g = f THEN on = "full" ELSE g \in ToSet(slabs_full[c])
              /\ g \in ToSet(slabs_empty'[c])
                 <=> IF g = f THEN on = "empty" ELSE g \in ToSet(slabs_empty[c])
    /\ Len(slabs_empty'[c]) <= 1

Repages(c, f, on) ==
    /\ f \in Slabs(c) \/ f \in free_pages
    /\ \A g : g \in free_pages' <=> IF g = f THEN on = "none" ELSE g \in free_pages
    /\ others' = others
    /\ slab_count' = [slab_count EXCEPT ![c] = @ + (IF f \in Slabs(c) THEN 0 ELSE 1)
                                                 - (IF on = "none" THEN 1 ELSE 0)]

Reheads(c, f, h, on) ==
    /\ header' = [header EXCEPT ![f] = h] /\ h \in Header /\ h.inuse <= h.total
    /\ on = "partial" => h.inuse < h.total
    /\ on = "full" => h.inuse = h.total
    /\ on = "empty" => h.inuse = 0
    /\ IF on = "none" THEN Out(held', f) = {} ELSE Consistent(h, c, f, Out(held', f))

Reholds(c, f) ==
    /\ held' \subseteq Nat \X Requests
    /\ \A g \in Frames \ {f} : Out(held', g) = Out(held, g)
    /\ \A o \in held' : o \in held \/ (PageOf(o[1]) = f /\ o[2] <= obj_size(c))
    /\ \A o, q \in held' : o[1] = q[1] => o = q

LEMMA OneSlab ==
    ASSUME SetsCount, SetsGrow, IInv,
           NEW c \in Caches, NEW f \in Frames, NEW h,
           NEW on \in {"partial", "full", "empty", "none"},
           Relists(c, f, on), Repages(c, f, on), Reheads(c, f, h, on), Reholds(c, f)
    PROVE  IInv'
<1>a. PICK S : S = [d \in Caches |-> Slabs(d)]
  BY Zenon
<1>b. PICK T : T = [d \in Caches |-> Slabs(d)']
  BY Zenon
<1>c. \A d \in Caches : S[d] = Slabs(d)
  BY <1>a, Zenon
<1>d. \A d \in Caches : T[d] = Slabs(d)'
  BY <1>b, Zenon
<1>e. /\ slab_count \in [Caches -> Nat] /\ free_pages \cap others = {}
      /\ \A d \in Caches : /\ slab_count[d] = Cardinality(S[d]) /\ IsFiniteSet(S[d])
                           /\ S[d] \cap (free_pages \cup others) = {}
      /\ \A d, e \in Caches : d # e => S[d] \cap S[e] = {}
      /\ Frames = free_pages \cup others \cup UNION {S[d] : d \in Caches}
  <2>1. TypeOK /\ PagesAccounted /\ SlabsOK
    BY DEF IInv
  <2>2. \A d \in Caches : /\ slab_count[d] = Cardinality(S[d]) /\ IsFiniteSet(S[d])
                          /\ S[d] \cap (free_pages \cup others) = {}
    BY <1>c, <2>1, Zenon DEF PagesAccounted, SlabsOK
  <2>3. \A d, e \in Caches : d # e => S[d] \cap S[e] = {}
    BY <1>c, <2>1, Zenon DEF PagesAccounted
  <2>4. {S[d] : d \in Caches} = {Slabs(d) : d \in Caches}
    BY <1>c, Zenon
  <2> QED  BY <2>1, <2>2, <2>3, <2>4, Zenon DEF PagesAccounted, TypeOK
<1>1. /\ \A d \in Caches \ {c} : T[d] = S[d]
      /\ \A g : g \in T[c] <=> IF g = f THEN on # "none" ELSE g \in S[c]
  <2>1. \A d \in Caches \ {c} : Slabs(d)' = Slabs(d)
    BY Zenon DEF Slabs, Relists
  <2>2. ASSUME NEW g PROVE g \in Slabs(c)' <=> IF g = f THEN on # "none" ELSE g \in Slabs(c)
    BY Zenon DEF Slabs, Relists
  <2> QED  BY <1>c, <1>d, <2>1, <2>2, Zenon
<1>2. /\ \A g \in Frames \ {f} : header'[g] = header[g]
      /\ header'[f] = h /\ header' \in [Frames -> Header]
  BY Zenon DEF IInv, TypeOK, Header, Reheads
<1>3. \A d \in Caches : S[d] \subseteq Frames
  BY <1>e, Zenon
<1>4. /\ \A d \in Caches \ {c} : f \notin S[d]
      /\ f \notin others /\ (f \in S[c] \/ f \in free_pages)
  <2>1. f \in S[c] \/ f \in free_pages
    BY <1>c, Zenon DEF Repages
  <2> QED  BY <1>e, <2>1
<1>5. /\ Cardinality(T[c]) = slab_count'[c] /\ IsFiniteSet(T[c]) /\ slab_count'[c] \in Nat
      /\ \A d \in Caches \ {c} : slab_count'[d] = slab_count[d]
      /\ slab_count' \in [Caches -> Nat]
  <2>0. /\ slab_count'[c] = slab_count[c] + (IF f \in S[c] THEN 0 ELSE 1)
                                          - (IF on = "none" THEN 1 ELSE 0)
        /\ \A d \in Caches \ {c} : slab_count'[d] = slab_count[d]
        /\ DOMAIN slab_count' = Caches
        /\ slab_count' = [d \in Caches |-> slab_count'[d]]
    BY <1>c, <1>e, Zenon DEF Repages
  <2>1. /\ IsFiniteSet(S[c]) /\ slab_count[c] = Cardinality(S[c])
        /\ IsFiniteSet(S[c] \cup {f}) /\ IsFiniteSet(S[c] \ {f})
        /\ Cardinality(S[c]) \in Nat
        /\ Cardinality(S[c] \cup {f}) \in Nat /\ Cardinality(S[c] \ {f}) \in Nat
        /\ f \notin S[c] => Cardinality(S[c] \cup {f}) = Cardinality(S[c]) + 1
        /\ f \in S[c] => Cardinality(S[c] \ {f}) = Cardinality(S[c]) - 1
    BY <1>e, Zenon DEF SetsCount, SetsGrow
  <2>2. /\ f \in S[c] /\ on # "none" => T[c] = S[c]
        /\ f \notin S[c] /\ on # "none" => T[c] = S[c] \cup {f}
        /\ f \in S[c] /\ on = "none" => T[c] = S[c] \ {f}
        /\ f \notin S[c] /\ on = "none" => T[c] = S[c]
    BY <1>1, Zenon
  <2>3. Cardinality(T[c]) = slab_count'[c] /\ IsFiniteSet(T[c]) /\ slab_count'[c] \in Nat
    <3>1. CASE f \in S[c] /\ on # "none"
      BY <2>0, <2>1, <2>2, <3>1
    <3>2. CASE f \notin S[c] /\ on # "none"
      <4>1. /\ IsFiniteSet(T[c]) /\ Cardinality(T[c]) = Cardinality(S[c]) + 1
            /\ Cardinality(T[c]) \in Nat
        BY <2>1, <2>2, <3>2, Zenon
      <4>2. slab_count'[c] = slab_count[c] + 1 - 0
        BY <2>0, <3>2, Zenon
      <4>3. slab_count[c] = Cardinality(S[c]) /\ Cardinality(S[c]) \in Nat
        BY <2>1, Zenon
      <4> QED  BY <4>1, <4>2, <4>3, SMTT(60)
    <3>3. CASE f \in S[c] /\ on = "none"
      <4>1. /\ IsFiniteSet(T[c]) /\ Cardinality(T[c]) = Cardinality(S[c]) - 1
            /\ Cardinality(T[c]) \in Nat
        BY <2>1, <2>2, <3>3, Zenon
      <4>2. slab_count'[c] = slab_count[c] + 0 - 1
        BY <2>0, <3>3, Zenon
      <4>3. slab_count[c] = Cardinality(S[c]) /\ Cardinality(S[c]) \in Nat
        BY <2>1, Zenon
      <4> QED  BY <4>1, <4>2, <4>3
    <3>4. CASE f \notin S[c] /\ on = "none"
      BY <2>0, <2>1, <2>2, <3>4
    <3> QED  BY <3>1, <3>2, <3>3, <3>4
  <2> QED  BY <1>e, <2>0, <2>3
<1>6. TypeOK'
  <2>2. \A g \in Frames : header'[g].inuse <= header'[g].total
    BY <1>2 DEF IInv, TypeOK, Reheads
  <2>3. free_pages' \subseteq Frames /\ others' \subseteq Frames
    BY DEF IInv, TypeOK, Repages
  <2> QED  BY <1>2, <1>5, <2>2, <2>3, Zenon DEF TypeOK, Header, Relists, Reholds
<1>7. HeldOK'
  <2>1. ASSUME NEW o \in held'
        PROVE  \E d \in Caches : PageOf(o[1]) \in Slabs(d)' /\ o[2] <= obj_size(d)
    <3>0. o \in held => \E d \in Caches : PageOf(o[1]) \in S[d] /\ o[2] <= obj_size(d)
      BY <1>c, Zenon DEF IInv, HeldOK
    <3>1. CASE PageOf(o[1]) = f
      <4>1. o[1] \in Out(held', f)
        BY <3>1, Zenon DEF Out
      <4>2. f \in T[c]
        BY <1>1, <4>1, Zenon DEF Reheads
      <4>3. o[2] <= obj_size(c)
        <5>1. CASE o \in held
          BY <1>4, <3>0, <3>1, <5>1, Zenon
        <5> QED  BY <5>1, Zenon DEF Reholds
      <4> QED  BY <1>d, <3>1, <4>2, <4>3, Zenon
    <3>2. CASE PageOf(o[1]) # f
      <4>1. o \in held
        BY <3>2, Zenon DEF Reholds
      <4>2. PICK d \in Caches : PageOf(o[1]) \in S[d] /\ o[2] <= obj_size(d)
        BY <3>0, <4>1, Zenon
      <4>3. PageOf(o[1]) \in T[d]
        BY <1>1, <3>2, <4>2, Zenon
      <4> QED  BY <1>d, <4>2, <4>3, Zenon
    <3> QED  BY <3>1, <3>2, Zenon
  <2> QED  BY <2>1, Zenon DEF HeldOK, Reholds
<1>8. PagesAccounted'
  <2>0. \A g : g \in free_pages' <=> IF g = f THEN on = "none" ELSE g \in free_pages
    BY Zenon DEF Repages
  <2>a. others' = others
    BY Zenon DEF Repages
  <2>1. free_pages' \cap others' = {}
    BY <1>e, <1>4, <2>0, <2>a
  <2>2. \A d \in Caches : slab_count'[d] = Cardinality(T[d])
    BY <1>e, <1>1, <1>5, Zenon
  <2>3. ASSUME NEW d \in Caches PROVE T[d] \cap (free_pages' \cup others') = {}
    <3>1. S[d] \cap (free_pages \cup others) = {}
      BY <1>e, Zenon
    <3>2. CASE d = c
      BY <1>1, <1>4, <2>0, <2>a, <3>1, <3>2, Zenon
    <3>3. CASE d # c
      BY <1>1, <1>4, <2>0, <2>a, <3>1, <3>3, Zenon
    <3> QED  BY <3>2, <3>3, Zenon
  <2>4. ASSUME NEW d \in Caches, NEW e \in Caches, d # e PROVE T[d] \cap T[e] = {}
    <3>1. S[d] \cap S[e] = {}
      BY <1>e, <2>4, Zenon
    <3>2. CASE d = c
      BY <1>1, <1>4, <2>4, <3>1, <3>2
    <3>3. CASE d # c
      BY <1>1, <1>4, <2>4, <3>1, <3>3
    <3> QED  BY <3>2, <3>3, Zenon
  <2>5. \A d \in Caches : Len(slabs_empty'[d]) <= 1
    BY Zenon DEF IInv, PagesAccounted, Relists
  <2>6. Frames = free_pages' \cup others' \cup UNION {T[d] : d \in Caches}
    <3>1. ASSUME NEW g \in Frames
          PROVE  g \in free_pages' \/ g \in others' \/ \E d \in Caches : g \in T[d]
      <4>1. g \in free_pages \/ g \in others \/ \E d \in Caches : g \in S[d]
        BY <1>e, SMTT(60)
      <4> QED  BY <1>1, <2>0, <2>a, <4>1
    <3>2. ASSUME NEW d \in Caches PROVE T[d] \subseteq Frames
      BY <1>1, <1>3
    <3>3. free_pages' \subseteq Frames /\ others' \subseteq Frames
      BY <2>0, <2>a DEF IInv, TypeOK
    <3> QED  BY <3>1, <3>2, <3>3, Zenon
  <2>7. {T[d] : d \in Caches} = {Slabs(d)' : d \in Caches}
    BY <1>d, Zenon
  <2> QED  BY <1>d, <2>1, <2>2, <2>3, <2>4, <2>5, <2>6, <2>7, Zenon DEF PagesAccounted
<1>9. SlabsOK'
  <2>1. ASSUME NEW d \in Caches PROVE ListsOK(d)'
    <3>0. ListsOK(d)
      BY Zenon DEF IInv, SlabsOK
    <3>1. CASE d = c
      <4>2. \A g \in S[c] : g # f => header'[g] = header[g]
        BY <1>2, <1>3
      <4>3. /\ Distinct(slabs_partial'[c]) /\ Distinct(slabs_full'[c]) /\ Distinct(slabs_empty'[c])
            /\ ToSet(slabs_partial'[c]) \cap ToSet(slabs_full'[c]) = {}
            /\ ToSet(slabs_partial'[c]) \cap ToSet(slabs_empty'[c]) = {}
            /\ ToSet(slabs_full'[c]) \cap ToSet(slabs_empty'[c]) = {}
        BY <3>0, <3>1, Zenon DEF ListsOK, Relists
      <4>b. /\ ToSet(slabs_partial[c]) \subseteq S[c] /\ ToSet(slabs_full[c]) \subseteq S[c]
            /\ ToSet(slabs_empty[c]) \subseteq S[c]
        BY <1>c, Zenon DEF Slabs
      <4>c. /\ \A g \in ToSet(slabs_partial'[c]) :
                  IF g = f THEN on = "partial" ELSE g \in ToSet(slabs_partial[c])
            /\ \A g \in ToSet(slabs_full'[c]) :
                  IF g = f THEN on = "full" ELSE g \in ToSet(slabs_full[c])
            /\ \A g \in ToSet(slabs_empty'[c]) :
                  IF g = f THEN on = "empty" ELSE g \in ToSet(slabs_empty[c])
        BY Zenon DEF Relists
      <4>d. /\ on = "partial" => h.inuse < h.total
            /\ on = "full" => h.inuse = h.total
            /\ on = "empty" => h.inuse = 0
        BY Zenon DEF Reheads
      <4>e. /\ \A g \in ToSet(slabs_partial[c]) : header[g].inuse < header[g].total
            /\ \A g \in ToSet(slabs_full[c]) : header[g].inuse = header[g].total
            /\ \A g \in ToSet(slabs_empty[c]) : header[g].inuse = 0
        BY <3>0, <3>1, Zenon DEF ListsOK
      <4>4. \A g \in ToSet(slabs_partial'[c]) : header'[g].inuse < header'[g].total
        BY <1>2, <4>2, <4>b, <4>c, <4>d, <4>e, Zenon
      <4>5. \A g \in ToSet(slabs_full'[c]) : header'[g].inuse = header'[g].total
        BY <1>2, <4>2, <4>b, <4>c, <4>d, <4>e, Zenon
      <4>6. \A g \in ToSet(slabs_empty'[c]) : header'[g].inuse = 0
        BY <1>2, <4>2, <4>b, <4>c, <4>d, <4>e, Zenon
      <4> QED  BY <3>1, <4>3, <4>4, <4>5, <4>6, Zenon DEF ListsOK
    <3>2. CASE d # c
      <4>2. \A g \in S[d] : header'[g] = header[g]
        BY <1>2, <1>3, <1>4, <3>2, Zenon
      <4>3. \A g \in Slabs(d) : header'[g] = header[g]
        BY <1>c, <4>2, Zenon
      <4> QED  BY <3>0, <3>2, <4>3, Zenon DEF ListsOK, Slabs, Relists
    <3> QED  BY <3>1, <3>2
  <2>2. \A d \in Caches : IsFiniteSet(T[d])
    BY <1>e, <1>1, <1>5, Zenon
  <2>3. ASSUME NEW d \in Caches, NEW g \in T[d]
        PROVE  Consistent(header'[g], d, g, Out(held', g))
    <3>1. CASE g = f
      <4>1. d = c /\ on # "none"
        BY <1>1, <1>4, <2>3, <3>1, Zenon
      <4> QED  BY <1>2, <3>1, <4>1, Zenon DEF Reheads
    <3>2. CASE g # f
      <4>1. g \in S[d] /\ g \in Frames
        BY <1>1, <1>3, <2>3, <3>2, Zenon
      <4>2. Consistent(header[g], d, g, Out(held, g))
        BY <1>c, <4>1, Zenon DEF IInv, SlabsOK
      <4>3. header'[g] = header[g] /\ Out(held', g) = Out(held, g)
        BY <1>2, <3>2, <4>1, Zenon DEF Reholds
      <4> QED  BY <4>2, <4>3, Zenon
    <3> QED  BY <3>1, <3>2, Zenon
  <2> QED  BY <1>d, <2>1, <2>2, <2>3, Zenon DEF SlabsOK
<1> QED  BY <1>6, <1>7, <1>8, <1>9 DEF IInv
-----------------------------------------------------------------------------
(* One object more, and one object less, is out.                           *)
Gains(H, H2, a) ==
    /\ Out(H2, PageOf(a)) = Out(H, PageOf(a)) \cup {a}
    /\ \A g : g # PageOf(a) => Out(H2, g) = Out(H, g)

Loses(H, H2, a) ==
    /\ Out(H2, PageOf(a)) = Out(H, PageOf(a)) \ {a}
    /\ \A g : g # PageOf(a) => Out(H2, g) = Out(H, g)

LEMMA OutTake ==
    ASSUME NEW H, NEW H2, NEW a, NEW n, H2 = H \cup {<<a, n>>}
    PROVE  Gains(H, H2, a)
<1>1. PICK x : x = <<a, n>>
  BY Zenon
<1>2. x[1] = a /\ H2 = H \cup {x}
  BY <1>1
<1>3. PICK f : f = PageOf(a)
  BY Zenon
<1>4. Out(H2, f) = Out(H, f) \cup {a}
  <2>1. ASSUME NEW y \in Out(H2, f) PROVE y \in Out(H, f) \cup {a}
    BY <1>2, <2>1, Zenon DEF Out
  <2>2. ASSUME NEW y \in Out(H, f) PROVE y \in Out(H2, f)
    BY <1>2, <2>2, Zenon DEF Out
  <2>3. a \in Out(H2, f)
    BY <1>2, <1>3, Zenon DEF Out
  <2> QED  BY <2>1, <2>2, <2>3, Zenon
<1>5. ASSUME NEW g, g # f PROVE Out(H2, g) = Out(H, g)
  <2>1. {q \in H2 : PageOf(q[1]) = g} = {q \in H : PageOf(q[1]) = g}
    BY <1>2, <1>3, <1>5, Zenon
  <2> QED  BY <2>1, Zenon DEF Out
<1> QED  BY <1>3, <1>4, <1>5, Zenon DEF Gains

LEMMA OutPut ==
    ASSUME NEW H, NEW o \in H, \A q \in H : q[1] = o[1] => q = o, NEW H2, H2 = H \ {o}
    PROVE  Loses(H, H2, o[1])
<1>3. PICK f : f = PageOf(o[1])
  BY Zenon
<1>4. Out(H2, f) = Out(H, f) \ {o[1]}
  <2>1. ASSUME NEW y \in Out(H2, f) PROVE y \in Out(H, f) \ {o[1]}
    <3>1. PICK q \in H \ {o} : PageOf(q[1]) = f /\ y = q[1]
      BY <2>1, Zenon DEF Out
    <3>2. y # o[1]
      BY <3>1, Zenon
    <3> QED  BY <3>1, <3>2, Zenon DEF Out
  <2>2. ASSUME NEW y \in Out(H, f), y # o[1] PROVE y \in Out(H2, f)
    <3>1. PICK q \in H : PageOf(q[1]) = f /\ y = q[1]
      BY <2>2, Zenon DEF Out
    <3> QED  BY <2>2, <3>1, Zenon DEF Out
  <2> QED  BY <2>1, <2>2, Zenon
<1>5. ASSUME NEW g, g # f PROVE Out(H2, g) = Out(H, g)
  <2>1. {q \in H2 : PageOf(q[1]) = g} = {q \in H : PageOf(q[1]) = g}
    BY <1>3, <1>5
  <2> QED  BY <2>1, Zenon DEF Out
<1> QED  BY <1>3, <1>4, <1>5, Zenon DEF Loses

LEMMA ObjectsInPage ==
    ASSUME NEW c \in Caches, NEW f \in Nat, NEW a \in Objects(f, c)
    PROVE  a \in Nat /\ PageOf(a) = f
<1>1. PICK i \in 1 .. objs_per_slab(c) : a = Address(f, i, c)
  BY Zenon DEF Objects
<1> QED  BY <1>1, Geometry, Zenon

(* An object taken from the free list, and one put back on it.             *)
Take(h) == [h EXCEPT !.free_list = Tail(@), !.inuse = @ + 1]
Put(h, a) == [h EXCEPT !.free_list = <<a>> \o @, !.inuse = @ - 1]

LEMMA HeaderTake ==
    ASSUME SetsCount, SetsGrow, NEW c \in Caches, NEW f, NEW h \in Header, NEW out,
           Consistent(h, c, f, out), h.inuse < h.total
    PROVE  /\ Head(h.free_list) \in Objects(f, c) /\ Head(h.free_list) \notin out
           /\ Take(h) \in Header /\ Take(h).inuse = h.inuse + 1 /\ Take(h).total = h.total
           /\ Consistent(Take(h), c, f, out \cup {Head(h.free_list)})
<1>a. PICK h2 : h2 = Take(h)
  BY Zenon
<1>b. PICK a : a = Head(h.free_list)
  BY Zenon
<1>1. /\ h.free_list \in Seq(Nat) /\ h.inuse \in Nat /\ h.total \in Nat
      /\ h2 \in [cache : Caches \cup {0}, free_list : {Tail(h.free_list)}, inuse : {h.inuse + 1}, total : Nat]
      /\ h2.cache = h.cache /\ h2.total = h.total /\ h2.inuse = h.inuse + 1
      /\ h2.free_list = Tail(h.free_list)
  BY <1>a, Zenon DEF Header, Take
<1>2. Len(h.free_list) = h.total - h.inuse /\ h.free_list # << >>
  <2>1. Len(h.free_list) = h.total - h.inuse
    BY Zenon DEF Consistent
  <2> QED  BY <1>1, <2>1
<1>3. PICK q \in Seq(Nat) : q = h.free_list /\ q # << >> /\ Distinct(q)
  BY <1>1, <1>2, Zenon DEF Consistent
<1>4. /\ Tail(q) \in Seq(Nat) /\ Len(Tail(q)) = Len(q) - 1
      /\ Head(q) \in ToSet(q)
      /\ ToSet(Tail(q)) = ToSet(q) \ {Head(q)}
      /\ Distinct(Tail(q))
  BY <1>3, ListTail, Zenon
<1>5. /\ ToSet(q) = Objects(f, c) \ out /\ out \subseteq Objects(f, c)
      /\ IsFiniteSet(out) /\ Cardinality(out) = h.inuse
      /\ h.cache = c /\ h.total = objs_per_slab(c)
  BY <1>3, Zenon DEF Consistent
<1>6. a \in Objects(f, c) /\ a \notin out
  BY <1>b, <1>3, <1>4, <1>5, Zenon
<1>7. IsFiniteSet(out \cup {a}) /\ Cardinality(out \cup {a}) = h.inuse + 1
  BY <1>5, <1>6, Zenon DEF SetsCount, SetsGrow
<1>8. ToSet(Tail(q)) = Objects(f, c) \ (out \cup {a}) /\ out \cup {a} \subseteq Objects(f, c)
  BY <1>b, <1>3, <1>4, <1>5, <1>6, Zenon
<1>9. Len(Tail(q)) = h2.total - h2.inuse
  <2>1. Len(q) = h.total - h.inuse /\ Len(Tail(q)) = Len(q) - 1
    BY <1>2, <1>3, <1>4, Zenon
  <2> QED  BY <1>1, <2>1
<1>10. h2 \in Header
  <2>1. h.inuse + 1 \in Nat
    BY <1>1
  <2> QED  BY <1>1, <1>3, <1>4, <2>1, Zenon DEF Header
<1>11. Consistent(h2, c, f, out \cup {a})
  BY <1>1, <1>3, <1>4, <1>5, <1>7, <1>8, <1>9, Zenon DEF Consistent
<1> QED  BY <1>a, <1>b, <1>1, <1>6, <1>10, <1>11, Zenon

LEMMA HeaderPut ==
    ASSUME SetsCount, SetsGrow, NEW c \in Caches, NEW f, NEW h \in Header, NEW out,
           Consistent(h, c, f, out), NEW a \in out, a \in Nat
    PROVE  /\ h.inuse > 0 /\ Put(h, a) \in Header
           /\ Put(h, a).inuse = h.inuse - 1 /\ Put(h, a).total = h.total
           /\ Consistent(Put(h, a), c, f, out \ {a})
<1>a. PICK h2 : h2 = Put(h, a)
  BY Zenon
<1>1. /\ h.free_list \in Seq(Nat) /\ h.inuse \in Nat /\ h.total \in Nat
      /\ h2 \in [cache : Caches \cup {0}, free_list : {<<a>> \o h.free_list}, inuse : {h.inuse - 1}, total : Nat]
      /\ h2.cache = h.cache /\ h2.total = h.total /\ h2.inuse = h.inuse - 1
      /\ h2.free_list = <<a>> \o h.free_list
  BY <1>a, Zenon DEF Header, Put
<1>2. PICK q \in Seq(Nat) : q = h.free_list /\ Distinct(q)
  BY <1>1, Zenon DEF Consistent
<1>3. /\ ToSet(q) = Objects(f, c) \ out /\ out \subseteq Objects(f, c)
      /\ IsFiniteSet(out) /\ Cardinality(out) = h.inuse
      /\ h.cache = c /\ h.total = objs_per_slab(c)
      /\ Len(q) = h.total - h.inuse
  BY <1>2, Zenon DEF Consistent
<1>4. PICK r : r = <<a>> \o q
  BY Zenon
<1>5. /\ r \in Seq(Nat) /\ Len(r) = Len(q) + 1
      /\ ToSet(r) = ToSet(q) \cup {a}
      /\ Distinct(r)
  <2>1. a \notin ToSet(q)
    BY <1>3, Zenon
  <2>2. slab_list_add(q, a) = r
    BY <1>4, Zenon DEF slab_list_add
  <2>3. /\ slab_list_add(q, a) \in Seq(Nat)
        /\ Len(slab_list_add(q, a)) = Len(q) + 1
        /\ ToSet(slab_list_add(q, a)) = ToSet(q) \cup {a}
        /\ Distinct(q) /\ a \notin ToSet(q) => Distinct(slab_list_add(q, a))
    BY ListAdd, Zenon
  <2> QED  BY <1>2, <2>1, <2>2, <2>3, Zenon
<1>6. ToSet(r) = Objects(f, c) \ (out \ {a}) /\ out \ {a} \subseteq Objects(f, c)
  BY <1>3, <1>5
<1>7. /\ IsFiniteSet(out \ {a}) /\ Cardinality(out \ {a}) = h.inuse - 1
      /\ Cardinality(out \ {a}) \in Nat
  <2>1. IsFiniteSet(out \ {a})
    BY <1>3, Zenon DEF SetsGrow
  <2>2. Cardinality(out \ {a}) = Cardinality(out) - 1 /\ Cardinality(out \ {a}) \in Nat
    BY <1>3, <2>1, Zenon DEF SetsCount
  <2> QED  BY <1>3, <2>1, <2>2, Zenon
<1>8. h.inuse > 0 /\ h.inuse - 1 \in Nat
  <2>1. h.inuse - 1 \in Nat
    BY <1>7, Zenon
  <2> QED  BY <1>1, <2>1
<1>9. h2 \in Header
  BY <1>1, <1>2, <1>4, <1>5, <1>8, Zenon DEF Header
<1>10. Len(r) = h2.total - h2.inuse
  <2>1. Len(q) = h.total - h.inuse /\ Len(r) = Len(q) + 1
    BY <1>3, <1>5, Zenon
  <2> QED  BY <1>1, <2>1
<1>11. Consistent(h2, c, f, out \ {a})
  BY <1>1, <1>2, <1>3, <1>4, <1>5, <1>6, <1>7, <1>10, Zenon DEF Consistent
<1> QED  BY <1>a, <1>1, <1>8, <1>9, <1>11, Zenon
-----------------------------------------------------------------------------
(* kmem_cache_alloc, once it has a slab f with header h at the front of    *)
(* the partial list.                                                       *)
LEMMA Takes ==
    ASSUME SetsCount, SetsGrow, IInv,
           NEW c \in Caches, NEW n \in Requests, n <= obj_size(c), NEW f \in Frames,
           NEW h \in Header, Consistent(h, c, f, Out(held, f)), h.inuse < h.total,
           NEW partial \in Seq(Frames), Distinct(partial),
           ToSet(partial) = ToSet(slabs_partial[c]) \cup {f}, f \notin ToSet(slabs_full[c]),
           slabs_empty' \in [Caches -> Seq(Frames)],
           \A d \in Caches \ {c} : slabs_empty'[d] = slabs_empty[d],
           Distinct(slabs_empty'[c]), Len(slabs_empty'[c]) <= 1,
           ToSet(slabs_empty'[c]) = ToSet(slabs_empty[c]) \ {f},
           f \in Slabs(c) \/ f \in free_pages,
           free_pages' = free_pages \ {f}, others' = others,
           slab_count' = IF f \in Slabs(c) THEN slab_count
                         ELSE [slab_count EXCEPT ![c] = @ + 1],
           TakeObject(c, n, f, h, partial)
    PROVE  IInv'
<1>0. /\ f \in Nat /\ c \in Nat /\ held \subseteq Nat \X Requests
      /\ slabs_partial \in [Caches -> Seq(Frames)] /\ slabs_full \in [Caches -> Seq(Frames)]
      /\ slab_count \in [Caches -> Nat] /\ ListsOK(c)
  BY SlabAssumption, Zenon DEF IInv, TypeOK, Caches, SlabsOK
<1>1. PICK a : a = Head(h.free_list)
  BY Zenon
<1>2. PICK h2 : h2 = Take(h)
  BY Zenon
<1>3. PICK out : out = Out(held, f)
  BY Zenon
<1>4. /\ a \in Objects(f, c) /\ a \notin out
      /\ h2 \in Header /\ h2.inuse = h.inuse + 1 /\ h2.total = h.total
      /\ Consistent(h2, c, f, out \cup {a})
  <2>1. Consistent(h, c, f, out) /\ h.inuse < h.total
    BY <1>3, Zenon
  <2> QED  BY <1>1, <1>2, <2>1, HeaderTake, Zenon
<1>5. a \in Nat /\ PageOf(a) = f
  BY <1>0, <1>4, ObjectsInPage, Zenon
<1>6. header' = [header EXCEPT ![f] = h2] /\ held' = held \cup {<<a, n>>}
  BY <1>1, <1>2, Zenon DEF TakeObject, Take
<1>7. Out(held', f) = out \cup {a} /\ \A g \in Frames \ {f} : Out(held', g) = Out(held, g)
  <2>1. Gains(held, held', a)
    BY <1>6, OutTake, Zenon
  <2> QED  BY <1>3, <1>5, <2>1, Zenon DEF Gains
<1>8. Reholds(c, f)
  <2>1. <<a, n>> \in Nat \X Requests /\ <<a, n>>[1] = a /\ <<a, n>>[2] = n
    BY <1>5, Zenon
  <2>2. PICK x : x = <<a, n>>
    BY Zenon
  <2>3. held' \subseteq Nat \X Requests
    BY <1>0, <1>6, <2>1, Zenon
  <2>4. \A o \in held' : o \in held \/ (PageOf(o[1]) = f /\ o[2] <= obj_size(c))
    BY <1>5, <1>6, <2>1, <2>2, Zenon
  <2>5. \A q \in held : q[1] # a
    BY <1>3, <1>4, <1>5, Zenon DEF Out
  <2>6. \A o, q \in held' : o[1] = q[1] => o = q
    <3>1. \A o, q \in held : o[1] = q[1] => o = q
      BY Zenon DEF IInv, HeldOK
    <3> QED  BY <1>6, <2>1, <2>2, <2>5, <3>1, Zenon
  <2> QED  BY <1>7, <2>3, <2>4, <2>6, Zenon DEF Reholds
<1>9. /\ h.inuse \in Nat /\ h.total \in Nat
  BY Zenon DEF Header
<1>10. Repages(c, f, "partial") /\ Repages(c, f, "full")
  <2>1. /\ slab_count[c] + 0 - 0 = slab_count[c] /\ slab_count[c] + 1 - 0 = slab_count[c] + 1
    BY <1>0
  <2>2. slab_count' = [slab_count EXCEPT ![c] = @ + (IF f \in Slabs(c) THEN 0 ELSE 1) - 0]
    <3>1. CASE f \in Slabs(c)
      <4>1. slab_count = [slab_count EXCEPT ![c] = @ + 0 - 0]
        BY <1>0, <2>1, Zenon
      <4> QED  BY <3>1, <4>1, Zenon
    <3>2. CASE f \notin Slabs(c)
      <4>1. [slab_count EXCEPT ![c] = @ + 1] = [slab_count EXCEPT ![c] = @ + 1 - 0]
        BY <1>0, <2>1, Zenon
      <4> QED  BY <3>2, <4>1, Zenon
    <3> QED  BY <3>1, <3>2, Zenon
  <2>3. \A g : g \in free_pages' <=> IF g = f THEN FALSE ELSE g \in free_pages
    BY Zenon
  <2>4. "partial" # "none" /\ "full" # "none"
    BY Zenon
  <2> QED  BY <2>2, <2>3, <2>4, Zenon DEF Repages
<1>11. CASE h.inuse + 1 = h.total
  <2>1. /\ slabs_partial' = [slabs_partial EXCEPT ![c] = slab_list_remove(partial, f)]
        /\ slabs_full' = [slabs_full EXCEPT ![c] = slab_list_add(slabs_full[c], f)]
    BY <1>11, Zenon DEF TakeObject
  <2>2. PICK p : p = slab_list_remove(partial, f)
    BY Zenon
  <2>3. f \in ToSet(partial)
    BY Zenon
  <2>4. /\ p \in Seq(Frames) /\ Distinct(p) /\ ToSet(p) = ToSet(partial) \ {f}
    BY <2>2, <2>3, ListRemove, ZenonT(60)
  <2>5. PICK q : q = slab_list_add(slabs_full[c], f)
    BY Zenon
  <2>6. PICK full \in Seq(Frames) : full = slabs_full[c] /\ Distinct(full) /\ f \notin ToSet(full)
    BY <1>0, Zenon DEF ListsOK
  <2>7. /\ q \in Seq(Frames) /\ Distinct(q) /\ ToSet(q) = ToSet(slabs_full[c]) \cup {f}
    <3>1. /\ slab_list_add(full, f) \in Seq(Frames)
          /\ Len(slab_list_add(full, f)) = Len(full) + 1
          /\ ToSet(slab_list_add(full, f)) = ToSet(full) \cup {f}
          /\ Distinct(full) /\ f \notin ToSet(full) => Distinct(slab_list_add(full, f))
      BY ListAdd, Zenon
    <3> QED  BY <2>5, <2>6, <3>1, Zenon
  <2>8. /\ slabs_partial' \in [Caches -> Seq(Frames)] /\ slabs_full' \in [Caches -> Seq(Frames)]
        /\ slabs_partial'[c] = p /\ slabs_full'[c] = q
        /\ \A d \in Caches \ {c} : slabs_partial'[d] = slabs_partial[d] /\ slabs_full'[d] = slabs_full[d]
    BY <1>0, <2>1, <2>2, <2>4, <2>5, <2>7, Zenon
  <2>9. Relists(c, f, "full")
    <3>1. "full" # "partial" /\ "full" # "empty"
      BY Zenon
    <3>2. ASSUME NEW g
          PROVE  /\ g \in ToSet(slabs_partial'[c])
                    <=> IF g = f THEN FALSE ELSE g \in ToSet(slabs_partial[c])
                 /\ g \in ToSet(slabs_full'[c])
                    <=> IF g = f THEN TRUE ELSE g \in ToSet(slabs_full[c])
                 /\ g \in ToSet(slabs_empty'[c])
                    <=> IF g = f THEN FALSE ELSE g \in ToSet(slabs_empty[c])
      BY <2>4, <2>7, <2>8, Zenon
    <3> QED  BY <2>4, <2>7, <2>8, <3>1, <3>2, Zenon DEF Relists
  <2>10. Reheads(c, f, h2, "full")
    <3>1. h2.inuse = h2.total /\ h2.inuse <= h2.total
      BY <1>4, <1>9, <1>11, SMTT(60)
    <3>2. "full" # "partial" /\ "full" # "empty" /\ "full" # "none"
      BY Zenon
    <3> QED  BY <1>4, <1>6, <1>7, <3>1, <3>2, Zenon DEF Reheads
  <2> QED  BY <1>8, <1>10, <2>9, <2>10, OneSlab, Zenon
<1>12. CASE h.inuse + 1 # h.total
  <2>1. slabs_partial' = [slabs_partial EXCEPT ![c] = partial] /\ slabs_full' = slabs_full
    BY <1>12, Zenon DEF TakeObject
  <2>2. /\ slabs_partial' \in [Caches -> Seq(Frames)] /\ slabs_full' \in [Caches -> Seq(Frames)]
        /\ slabs_partial'[c] = partial /\ slabs_full'[c] = slabs_full[c]
        /\ \A d \in Caches \ {c} : slabs_partial'[d] = slabs_partial[d] /\ slabs_full'[d] = slabs_full[d]
    BY <1>0, <2>1
  <2>3. Relists(c, f, "partial")
    <3>1. "partial" # "full" /\ "partial" # "empty"
      BY Zenon
    <3>2. ASSUME NEW g
          PROVE  /\ g \in ToSet(slabs_partial'[c])
                    <=> IF g = f THEN TRUE ELSE g \in ToSet(slabs_partial[c])
                 /\ g \in ToSet(slabs_full'[c])
                    <=> IF g = f THEN FALSE ELSE g \in ToSet(slabs_full[c])
                 /\ g \in ToSet(slabs_empty'[c])
                    <=> IF g = f THEN FALSE ELSE g \in ToSet(slabs_empty[c])
      BY <2>2, Zenon
    <3>3. Distinct(slabs_full[c])
      BY <1>0, Zenon DEF ListsOK
    <3> QED  BY <2>2, <3>1, <3>2, <3>3, Zenon DEF Relists
  <2>4. Reheads(c, f, h2, "partial")
    <3>1. h2.inuse < h2.total /\ h2.inuse <= h2.total
      BY <1>4, <1>9, <1>12, SMTT(60)
    <3>2. "partial" # "full" /\ "partial" # "empty" /\ "partial" # "none"
      BY Zenon
    <3> QED  BY <1>4, <1>6, <1>7, <3>1, <3>2, Zenon DEF Reheads
  <2> QED  BY <1>8, <1>10, <2>3, <2>4, OneSlab, Zenon
<1> QED  BY <1>11, <1>12, Zenon

LEMMA ListHead ==
    ASSUME NEW S, NEW q \in Seq(S), q # << >>
    PROVE  Head(q) \in S /\ Head(q) \in ToSet(q)
<1>1. Len(q) \in Nat \ {0} /\ Head(q) = q[1] /\ 1 \in 1 .. Len(q)
  OBVIOUS
<1>2. \A i \in 1 .. Len(q) : q[i] \in S
  OBVIOUS
<1> QED  BY <1>1, <1>2 DEF ToSet

(* What the invariant says of a slab f of cache c.                         *)
LEMMA SlabFacts ==
    ASSUME IInv, NEW c \in Caches, NEW f \in Slabs(c)
    PROVE  /\ f \in Frames /\ header[f] \in Header
           /\ Consistent(header[f], c, f, Out(held, f)) /\ ListsOK(c)
           /\ f \notin free_pages /\ header[f].inuse <= header[f].total
<1>1. f \in Frames /\ f \notin free_pages
  BY DEF IInv, PagesAccounted
<1>2. header[f] \in Header /\ header[f].inuse <= header[f].total
  BY <1>1, Zenon DEF IInv, TypeOK, Header
<1> QED  BY <1>1, <1>2, Zenon DEF IInv, SlabsOK

LEMMA FromPartialOK ==
    ASSUME SetsCount, SetsGrow, IInv, NEW c \in Caches, NEW n \in Requests, n <= obj_size(c),
           FromPartial(c, n)
    PROVE  IInv'
<1>1. PICK f : f = Head(slabs_partial[c])
  BY Zenon
<1>2. PICK q \in Seq(Frames) : q = slabs_partial[c] /\ q # << >>
  BY Zenon DEF FromPartial, IInv, TypeOK
<1>3. f \in ToSet(slabs_partial[c]) /\ f \in Slabs(c)
  BY <1>1, <1>2, ListHead, Zenon DEF Slabs
<1>4. /\ f \in Frames /\ header[f] \in Header
      /\ Consistent(header[f], c, f, Out(held, f)) /\ ListsOK(c)
      /\ f \notin free_pages /\ header[f].inuse <= header[f].total
  BY <1>3, SlabFacts, Zenon
<1>5. /\ header[f].inuse < header[f].total /\ Distinct(q) /\ Distinct(slabs_empty[c])
      /\ f \notin ToSet(slabs_full[c]) /\ f \notin ToSet(slabs_empty[c])
  BY <1>2, <1>3, <1>4, Zenon DEF ListsOK
<1>6. ToSet(q) = ToSet(slabs_partial[c]) \cup {f}
  BY <1>2, <1>3, Zenon
<1>7. /\ slabs_empty' = slabs_empty /\ slab_count' = slab_count /\ free_pages' = free_pages
      /\ others' = others /\ TakeObject(c, n, f, header[f], q)
  BY <1>1, <1>2, Zenon DEF FromPartial
<1>8. /\ slabs_empty' \in [Caches -> Seq(Frames)] /\ Len(slabs_empty'[c]) <= 1
      /\ \A d \in Caches \ {c} : slabs_empty'[d] = slabs_empty[d]
  BY <1>7, Zenon DEF IInv, TypeOK, PagesAccounted
<1>9. ToSet(slabs_empty'[c]) = ToSet(slabs_empty[c]) \ {f} /\ Distinct(slabs_empty'[c])
  BY <1>5, <1>7, Zenon
<1>10. free_pages' = free_pages \ {f}
  BY <1>4, <1>7, Zenon
<1>11. slab_count' = IF f \in Slabs(c) THEN slab_count ELSE [slab_count EXCEPT ![c] = @ + 1]
  BY <1>3, <1>7, Zenon
<1> QED  BY <1>2, <1>3, <1>4, <1>5, <1>6, <1>7, <1>8, <1>9, <1>10, <1>11, Takes, Zenon

LEMMA FromEmptyOK ==
    ASSUME SetsCount, SetsGrow, IInv, NEW c \in Caches, NEW n \in Requests, n <= obj_size(c),
           FromEmpty(c, n)
    PROVE  IInv'
<1>1. PICK f : f = Head(slabs_empty[c])
  BY Zenon
<1>2. PICK e \in Seq(Frames) : e = slabs_empty[c] /\ e # << >>
  BY Zenon DEF FromEmpty, IInv, TypeOK
<1>3. f \in ToSet(slabs_empty[c]) /\ f \in Slabs(c)
  BY <1>1, <1>2, ListHead, Zenon DEF Slabs
<1>4. /\ f \in Frames /\ header[f] \in Header
      /\ Consistent(header[f], c, f, Out(held, f)) /\ ListsOK(c)
      /\ f \notin free_pages /\ header[f].inuse <= header[f].total
  BY <1>3, SlabFacts, Zenon
<1>5. /\ header[f].inuse = 0 /\ Distinct(e)
      /\ f \notin ToSet(slabs_full[c]) /\ f \notin ToSet(slabs_partial[c])
  BY <1>2, <1>3, <1>4, Zenon DEF ListsOK
<1>6. header[f].inuse < header[f].total
  <2>1. header[f].total = objs_per_slab(c)
    BY <1>4, Zenon DEF Consistent
  <2>2. objs_per_slab(c) > 0
    BY Zenon DEF Caches
  <2> QED  BY <1>5, <2>1, <2>2
<1>7. PICK p : p = slab_list_add(slabs_partial[c], f)
  BY Zenon
<1>8. PICK old \in Seq(Frames) : old = slabs_partial[c] /\ Distinct(old)
  BY <1>4, Zenon DEF IInv, TypeOK, ListsOK
<1>9. p \in Seq(Frames) /\ Distinct(p) /\ ToSet(p) = ToSet(slabs_partial[c]) \cup {f}
  <2>1. /\ slab_list_add(old, f) \in Seq(Frames)
        /\ Len(slab_list_add(old, f)) = Len(old) + 1
        /\ ToSet(slab_list_add(old, f)) = ToSet(old) \cup {f}
        /\ Distinct(old) /\ f \notin ToSet(old) => Distinct(slab_list_add(old, f))
    BY <1>4, ListAdd, Zenon
  <2> QED  BY <1>5, <1>7, <1>8, <2>1, Zenon
<1>10. /\ slabs_empty' = [slabs_empty EXCEPT ![c] = slab_list_remove(slabs_empty[c], f)]
       /\ slab_count' = slab_count /\ free_pages' = free_pages
       /\ others' = others /\ TakeObject(c, n, f, header[f], p)
  BY <1>1, <1>7, Zenon DEF FromEmpty
<1>11. PICK r : r = slab_list_remove(e, f)
  BY Zenon
<1>12. r \in Seq(Frames) /\ Distinct(r) /\ ToSet(r) = ToSet(e) \ {f} /\ Len(r) = Len(e) - 1
  BY <1>2, <1>3, <1>5, <1>11, ListRemove, Zenon
<1>13. /\ slabs_empty' \in [Caches -> Seq(Frames)] /\ slabs_empty'[c] = r
       /\ \A d \in Caches \ {c} : slabs_empty'[d] = slabs_empty[d]
  BY <1>2, <1>10, <1>11, <1>12, Zenon DEF IInv, TypeOK
<1>14. Len(slabs_empty'[c]) <= 1
  <2>1. Len(e) <= 1 /\ Len(e) \in Nat
    BY <1>2 DEF IInv, PagesAccounted
  <2> QED  BY <1>12, <1>13, <2>1
<1>15. ToSet(slabs_empty'[c]) = ToSet(slabs_empty[c]) \ {f} /\ Distinct(slabs_empty'[c])
  BY <1>2, <1>12, <1>13, Zenon
<1>16. free_pages' = free_pages \ {f}
  BY <1>4, <1>10, Zenon
<1>17. slab_count' = IF f \in Slabs(c) THEN slab_count ELSE [slab_count EXCEPT ![c] = @ + 1]
  BY <1>3, <1>10, Zenon
<1> QED  BY <1>3, <1>4, <1>5, <1>6, <1>9, <1>10, <1>13, <1>14, <1>15, <1>16, <1>17, Takes, Zenon

(* slab_init_objs threads every object of the page on the free list, once. *)
LEMMA NewSlab ==
    ASSUME SetsCount, SetsGrow, NEW c \in Caches, NEW f \in Nat
    PROVE  new_slab(f, c) \in Header /\ Consistent(new_slab(f, c), c, f, {})
           /\ new_slab(f, c).inuse = 0 /\ new_slab(f, c).total > 0
<1>1. PICK n \in Nat : n = objs_per_slab(c) /\ n > 0
  <2>1. obj_size(c) \in Nat \ {0}
    BY ObjectSize, SlabAssumption DEF Caches
  <2>2. ((PAGE_SIZE - HEADER) \div 8) * 8 \in Nat
    BY SlabAssumption
  <2>3. objs_per_slab(c) \in Nat
    BY <2>1, <2>2, Quotient DEF objs_per_slab
  <2> QED  BY <2>3 DEF Caches
<1>2. PICK q : q = [i \in 1 .. n |-> Address(f, i, c)]
  BY Zenon
<1>3. \A i \in 1 .. n : Address(f, i, c) \in Nat
  BY <1>1, Geometry, Zenon
<1>4. q \in Seq(Nat) /\ Len(q) = n /\ \A i \in 1 .. n : q[i] = Address(f, i, c)
  BY <1>2, <1>3
<1>5. Distinct(q)
  <2> SUFFICES ASSUME NEW i \in 1 .. n, NEW j \in 1 .. n, q[i] = q[j] PROVE i = j
    BY <1>4, Zenon DEF Distinct
  <2>1. \A k, l \in 1 .. n : k < l => Address(f, k, c) + obj_size(c) <= Address(f, l, c)
    BY <1>1, ObjectsSpaced, Zenon
  <2>2. obj_size(c) \in Nat /\ obj_size(c) >= 8
    BY ObjectSize, SlabAssumption DEF Caches
  <2> QED  BY <1>1, <1>3, <1>4, <2>1, <2>2
<1>6. ToSet(q) = Objects(f, c) \ {}
  <2>1. ASSUME NEW y \in ToSet(q) PROVE y \in Objects(f, c)
    BY <1>1, <1>4, <2>1, Zenon DEF ToSet, Objects
  <2>2. ASSUME NEW y \in Objects(f, c) PROVE y \in ToSet(q)
    BY <1>1, <1>4, <2>2, Zenon DEF ToSet, Objects
  <2> QED  BY <2>1, <2>2, Zenon
<1>7. PICK h : h = new_slab(f, c)
  BY Zenon
<1>8. h.cache = c /\ h.free_list = q /\ h.inuse = 0 /\ h.total = n /\ h \in Header
  BY <1>1, <1>2, <1>4, <1>7, Zenon DEF new_slab, Header
<1>9. IsFiniteSet({}) /\ Cardinality({}) = 0
  BY Zenon DEF SetsCount, SetsGrow
<1>10. Len(q) = h.total - h.inuse
  BY <1>1, <1>4, <1>8
<1>11. Consistent(h, c, f, {})
  BY <1>1, <1>4, <1>5, <1>6, <1>8, <1>9, <1>10, Zenon DEF Consistent
<1> QED  BY <1>1, <1>7, <1>8, <1>11, Zenon

LEMMA FromNewPageOK ==
    ASSUME SetsCount, SetsGrow, IInv, NEW c \in Caches, NEW n \in Requests, n <= obj_size(c),
           FromNewPage(c, n)
    PROVE  IInv'
<1>1. PICK f \in free_pages :
          /\ free_pages' = free_pages \ {f}
          /\ slab_count' = [slab_count EXCEPT ![c] = @ + 1]
          /\ TakeObject(c, n, f, new_slab(f, c), slab_list_add(slabs_partial[c], f))
  BY Zenon DEF FromNewPage
<1>2. f \in Frames /\ f \in Nat /\ \A d \in Caches : f \notin Slabs(d)
  <2>1. f \in Frames
    BY Zenon DEF IInv, TypeOK
  <2>2. \A d \in Caches : f \notin Slabs(d)
    BY DEF IInv, PagesAccounted
  <2> QED  BY <2>1, <2>2, SlabAssumption, Zenon
<1>3. /\ f \notin ToSet(slabs_partial[c]) /\ f \notin ToSet(slabs_full[c])
      /\ f \notin ToSet(slabs_empty[c])
  BY <1>2, Zenon DEF Slabs
<1>4. Out(held, f) = {}
  <2>1. \A o \in held : PageOf(o[1]) # f
    BY <1>2, Zenon DEF IInv, HeldOK
  <2> QED  BY <2>1, Zenon DEF Out
<1>5. PICK h : h = new_slab(f, c)
  BY Zenon
<1>6. h \in Header /\ Consistent(h, c, f, Out(held, f)) /\ h.inuse = 0 /\ h.total > 0
  BY <1>2, <1>4, <1>5, NewSlab, Zenon
<1>7. h.inuse < h.total
  BY <1>6
<1>8. ListsOK(c)
  BY Zenon DEF IInv, SlabsOK
<1>9. PICK p : p = slab_list_add(slabs_partial[c], f)
  BY Zenon
<1>10. PICK old \in Seq(Frames) : old = slabs_partial[c] /\ Distinct(old)
  BY <1>8, Zenon DEF IInv, TypeOK, ListsOK
<1>11. p \in Seq(Frames) /\ Distinct(p) /\ ToSet(p) = ToSet(slabs_partial[c]) \cup {f}
  <2>1. /\ slab_list_add(old, f) \in Seq(Frames)
        /\ Len(slab_list_add(old, f)) = Len(old) + 1
        /\ ToSet(slab_list_add(old, f)) = ToSet(old) \cup {f}
        /\ Distinct(old) /\ f \notin ToSet(old) => Distinct(slab_list_add(old, f))
    BY <1>2, ListAdd, Zenon
  <2> QED  BY <1>3, <1>9, <1>10, <2>1, Zenon
<1>12. slabs_empty' = slabs_empty /\ others' = others /\ TakeObject(c, n, f, h, p)
  BY <1>1, <1>5, <1>9, Zenon DEF FromNewPage
<1>13. /\ slabs_empty' \in [Caches -> Seq(Frames)] /\ Len(slabs_empty'[c]) <= 1
       /\ \A d \in Caches \ {c} : slabs_empty'[d] = slabs_empty[d]
  BY <1>12, Zenon DEF IInv, TypeOK, PagesAccounted
<1>14. ToSet(slabs_empty'[c]) = ToSet(slabs_empty[c]) \ {f} /\ Distinct(slabs_empty'[c])
  BY <1>3, <1>8, <1>12, Zenon DEF ListsOK
<1>15. slab_count' = IF f \in Slabs(c) THEN slab_count ELSE [slab_count EXCEPT ![c] = @ + 1]
  BY <1>1, <1>2, Zenon
<1>16. free_pages' = free_pages \ {f} /\ f \in free_pages
  BY <1>1, Zenon
<1> QED  BY <1>2, <1>3, <1>6, <1>7, <1>11, <1>12, <1>13, <1>14, <1>15, <1>16, Takes, Zenon

(* kfree finds the slab of an object, and its cache.                       *)
LEMMA KfreeFinds ==
    ASSUME SetsCount, SetsGrow, IInv, NEW o \in held,
           NEW f, f = PageOf(o[1]), NEW c, c = header[f].cache, Kfree(o)
    PROVE  /\ c \in Caches /\ f \in Slabs(c) /\ o[1] \in Nat /\ o[1] \in Out(held, f)
           /\ header' = [header EXCEPT ![f] = Put(header[f], o[1])]
           /\ Reholds(c, f) /\ Out(held', f) = Out(held, f) \ {o[1]}
           /\ MoveSlab(c, f, header[f]) /\ others' = others
<1>1. PICK d \in Caches : f \in Slabs(d)
  BY Zenon DEF IInv, HeldOK
<1>2. /\ f \in Frames /\ header[f] \in Header
      /\ Consistent(header[f], d, f, Out(held, f))
  BY <1>1, SlabFacts, Zenon
<1>3. c = d
  BY <1>2, Zenon DEF Consistent
<1>4. /\ header' = [header EXCEPT ![f].free_list = <<o[1]>> \o @, ![f].inuse = @ - 1]
      /\ held' = held \ {o} /\ MoveSlab(c, f, header[f]) /\ others' = others
  BY Zenon DEF Kfree
<1>5. header' = [header EXCEPT ![f] = Put(header[f], o[1])]
  <2>1. header \in [Frames -> Header]
    BY Zenon DEF IInv, TypeOK, Header
  <2>2. [header EXCEPT ![f].free_list = <<o[1]>> \o @, ![f].inuse = @ - 1]
          = [header EXCEPT ![f] = [header[f] EXCEPT !.free_list = <<o[1]>> \o @, !.inuse = @ - 1]]
    BY <1>2, <2>1, Zenon DEF Header
  <2> QED  BY <1>4, <2>2, Zenon DEF Put
<1>6. o[1] \in Nat /\ o[1] \in Out(held, f) /\ held \subseteq Nat \X Requests
  <2>1. held \subseteq Nat \X Requests
    BY Zenon DEF IInv, TypeOK
  <2>2. o[1] \in Nat
    BY <2>1
  <2>3. o[1] \in Out(held, f)
    BY Zenon DEF Out
  <2> QED  BY <2>1, <2>2, <2>3
<1>7. \A p, q \in held : p[1] = q[1] => p = q
  BY Zenon DEF IInv, HeldOK
<1>8. Loses(held, held', o[1])
  <2>1. \A q \in held : q[1] = o[1] => q = o
    BY <1>7, Zenon
  <2> QED  BY <1>4, <2>1, OutPut, Zenon
<1>9. Out(held', f) = Out(held, f) \ {o[1]} /\ \A g : g # f => Out(held', g) = Out(held, g)
  BY <1>8, Zenon DEF Loses
<1>10. Reholds(c, f)
  <2>1. held' \subseteq held
    BY <1>4, Zenon
  <2> QED  BY <1>6, <1>7, <1>9, <2>1, Zenon DEF Reholds
<1> QED  BY <1>1, <1>3, <1>4, <1>5, <1>6, <1>9, <1>10, Zenon

LEMMA KfreeOK ==
    ASSUME SetsCount, SetsGrow, IInv, NEW o \in held, Kfree(o)
    PROVE  IInv'
<1>0. PICK f : f = PageOf(o[1])
  BY Zenon
<1>a. PICK c : c = header[f].cache
  BY Zenon
<1>b. PICK h : h = header[f]
  BY Zenon
<1>1. /\ c \in Caches /\ f \in Slabs(c) /\ o[1] \in Nat /\ o[1] \in Out(held, f)
      /\ header' = [header EXCEPT ![f] = Put(h, o[1])]
      /\ Reholds(c, f) /\ Out(held', f) = Out(held, f) \ {o[1]}
      /\ MoveSlab(c, f, h) /\ others' = others
  BY <1>0, <1>a, <1>b, KfreeFinds, Zenon
<1>2. /\ f \in Frames /\ h \in Header /\ Consistent(h, c, f, Out(held, f)) /\ ListsOK(c)
      /\ f \notin free_pages /\ h.inuse <= h.total
  BY <1>1, <1>b, SlabFacts, Zenon
<1>3. PICK h2 : h2 = Put(h, o[1])
  BY Zenon
<1>4. /\ h.inuse > 0 /\ h2 \in Header /\ h2.inuse = h.inuse - 1 /\ h2.total = h.total
      /\ Consistent(h2, c, f, Out(held', f))
  <2>1. PICK out, a : out = Out(held, f) /\ a = o[1]
    BY Zenon
  <2>2. a \in out /\ a \in Nat /\ Consistent(h, c, f, out) /\ h \in Header /\ c \in Caches
    BY <1>1, <1>2, <2>1, Zenon
  <2>3. /\ h.inuse > 0 /\ Put(h, a) \in Header
        /\ Put(h, a).inuse = h.inuse - 1 /\ Put(h, a).total = h.total
        /\ Consistent(Put(h, a), c, f, out \ {a})
    BY <2>2, HeaderPut, Zenon
  <2> QED  BY <1>1, <1>3, <2>1, <2>3, Zenon
<1>5. h.inuse \in Nat /\ h.total \in Nat /\ h2.inuse <= h2.total
  BY <1>2, <1>4, SMTT(60) DEF Header
<1>6. PICK partial \in Seq(Frames), full \in Seq(Frames), empty \in Seq(Frames) :
         /\ partial = slabs_partial[c] /\ full = slabs_full[c] /\ empty = slabs_empty[c]
  BY <1>1, Zenon DEF IInv, TypeOK
<1>7. /\ Distinct(partial) /\ Distinct(full) /\ Distinct(empty)
      /\ ToSet(partial) \cap ToSet(full) = {} /\ ToSet(partial) \cap ToSet(empty) = {}
      /\ ToSet(full) \cap ToSet(empty) = {}
      /\ f \in ToSet(partial) => h.inuse < h.total
      /\ f \in ToSet(full) => h.inuse = h.total
      /\ f \in ToSet(empty) => h.inuse = 0
      /\ f \in ToSet(partial) \/ f \in ToSet(full) \/ f \in ToSet(empty)
      /\ Len(empty) <= 1
  <2>1. f \in ToSet(partial) \/ f \in ToSet(full) \/ f \in ToSet(empty)
    BY <1>1, <1>6, Zenon DEF Slabs
  <2>2. Len(empty) <= 1
    BY <1>1, <1>6, Zenon DEF IInv, PagesAccounted
  <2> QED  BY <1>b, <1>2, <1>6, <2>1, <2>2, Zenon DEF ListsOK
<1>8. f \notin ToSet(empty) /\ (h.inuse = h.total <=> f \in ToSet(full))
      /\ (h.inuse # h.total <=> f \in ToSet(partial))
  BY <1>4, <1>5, <1>7
<1>9. /\ slabs_partial \in [Caches -> Seq(Frames)] /\ slabs_full \in [Caches -> Seq(Frames)]
      /\ slabs_empty \in [Caches -> Seq(Frames)] /\ slab_count \in [Caches -> Nat]
  BY Zenon DEF IInv, TypeOK
<1>s. /\ "partial" # "full" /\ "partial" # "empty" /\ "partial" # "none"
      /\ "full" # "empty" /\ "full" # "none" /\ "empty" # "none"
  OBVIOUS
<1>10. ASSUME free_pages' = free_pages, slab_count' = slab_count
       PROVE  Repages(c, f, "partial") /\ Repages(c, f, "empty")
  <2>1. slab_count[c] + 0 - 0 = slab_count[c]
    BY <1>1, <1>9
  <2>2. slab_count = [slab_count EXCEPT ![c] = @ + 0 - 0]
    BY <1>9, <2>1, Zenon
  <2>3. slab_count' = [slab_count EXCEPT ![c] = @ + (IF f \in Slabs(c) THEN 0 ELSE 1) - 0]
    BY <1>1, <1>10, <2>2, Zenon
  <2>4. \A g : g \in free_pages' <=> IF g = f THEN FALSE ELSE g \in free_pages
    BY <1>2, <1>10, Zenon
  <2> QED  BY <1>1, <1>s, <2>3, <2>4, Zenon DEF Repages
<1>11. CASE h.inuse = h.total
  <2>1. /\ slabs_full' = [slabs_full EXCEPT ![c] = slab_list_remove(full, f)]
        /\ slabs_partial' = [slabs_partial EXCEPT ![c] = slab_list_add(partial, f)]
        /\ slabs_empty' = slabs_empty /\ slab_count' = slab_count /\ free_pages' = free_pages
    BY <1>1, <1>6, <1>11, Zenon DEF MoveSlab
  <2>2. PICK p, q : p = slab_list_add(partial, f) /\ q = slab_list_remove(full, f)
    BY Zenon
  <2>3. f \notin ToSet(partial) /\ f \in ToSet(full)
    BY <1>8, <1>11, Zenon
  <2>4. p \in Seq(Frames) /\ Distinct(p) /\ ToSet(p) = ToSet(partial) \cup {f}
    <3>1. /\ slab_list_add(partial, f) \in Seq(Frames)
          /\ Len(slab_list_add(partial, f)) = Len(partial) + 1
          /\ ToSet(slab_list_add(partial, f)) = ToSet(partial) \cup {f}
          /\ Distinct(partial) /\ f \notin ToSet(partial) => Distinct(slab_list_add(partial, f))
      BY <1>2, ListAdd, Zenon
    <3> QED  BY <1>7, <2>2, <2>3, <3>1, Zenon
  <2>5. q \in Seq(Frames) /\ Distinct(q) /\ ToSet(q) = ToSet(full) \ {f}
    BY <1>7, <2>2, <2>3, ListRemove, Zenon
  <2>6. /\ slabs_partial' \in [Caches -> Seq(Frames)] /\ slabs_full' \in [Caches -> Seq(Frames)]
        /\ slabs_partial'[c] = p /\ slabs_full'[c] = q
        /\ \A d \in Caches \ {c} : slabs_partial'[d] = slabs_partial[d] /\ slabs_full'[d] = slabs_full[d]
    BY <1>1, <1>9, <2>1, <2>2, <2>4, <2>5, Zenon
  <2>7. Relists(c, f, "partial")
    <3>1. ASSUME NEW g
          PROVE  /\ g \in ToSet(slabs_partial'[c])
                    <=> IF g = f THEN TRUE ELSE g \in ToSet(slabs_partial[c])
                 /\ g \in ToSet(slabs_full'[c])
                    <=> IF g = f THEN FALSE ELSE g \in ToSet(slabs_full[c])
                 /\ g \in ToSet(slabs_empty'[c])
                    <=> IF g = f THEN FALSE ELSE g \in ToSet(slabs_empty[c])
      BY <1>6, <1>8, <2>1, <2>4, <2>5, <2>6, Zenon
    <3> QED  BY <1>6, <1>7, <1>9, <1>s, <2>1, <2>4, <2>5, <2>6, <3>1, Zenon DEF Relists
  <2>8. Reheads(c, f, h2, "partial")
    <3>1. h2.inuse < h2.total
      BY <1>4, <1>5, <1>11
    <3> QED  BY <1>1, <1>3, <1>4, <1>5, <1>s, <3>1, Zenon DEF Reheads
  <2> QED  BY <1>1, <1>2, <1>10, <2>1, <2>7, <2>8, OneSlab, Zenon
<1>12. CASE h.inuse # h.total /\ h.inuse # 1
  <2>1. /\ slabs_full' = slabs_full /\ slabs_partial' = slabs_partial /\ slabs_empty' = slabs_empty
        /\ slab_count' = slab_count /\ free_pages' = free_pages
    BY <1>1, <1>12, Zenon DEF MoveSlab, lists
  <2>2. f \in ToSet(partial) /\ f \notin ToSet(full)
    BY <1>8, <1>12, Zenon
  <2>3. Relists(c, f, "partial")
    <3>1. ASSUME NEW g
          PROVE  /\ g \in ToSet(slabs_partial'[c])
                    <=> IF g = f THEN TRUE ELSE g \in ToSet(slabs_partial[c])
                 /\ g \in ToSet(slabs_full'[c])
                    <=> IF g = f THEN FALSE ELSE g \in ToSet(slabs_full[c])
                 /\ g \in ToSet(slabs_empty'[c])
                    <=> IF g = f THEN FALSE ELSE g \in ToSet(slabs_empty[c])
      BY <1>6, <1>8, <2>1, <2>2, Zenon
    <3> QED  BY <1>6, <1>7, <1>9, <1>s, <2>1, <3>1, Zenon DEF Relists
  <2>4. Reheads(c, f, h2, "partial")
    <3>1. h2.inuse < h2.total
      BY <1>2, <1>4, <1>5
    <3> QED  BY <1>1, <1>3, <1>4, <1>5, <1>s, <3>1, Zenon DEF Reheads
  <2> QED  BY <1>1, <1>2, <1>10, <2>1, <2>3, <2>4, OneSlab, Zenon
<1>13. CASE h.inuse # h.total /\ h.inuse = 1
  <2>1. /\ slabs_partial' = [slabs_partial EXCEPT ![c] = slab_list_remove(partial, f)]
        /\ slabs_full' = slabs_full /\ GiveUpSlab(c, f)
    BY <1>1, <1>6, <1>13, Zenon DEF MoveSlab
  <2>2. f \in ToSet(partial) /\ f \notin ToSet(full)
    BY <1>8, <1>13, Zenon
  <2>3. PICK p : p = slab_list_remove(partial, f)
    BY Zenon
  <2>4. p \in Seq(Frames) /\ Distinct(p) /\ ToSet(p) = ToSet(partial) \ {f}
    BY <1>7, <2>2, <2>3, ListRemove, Zenon
  <2>5. /\ slabs_partial' \in [Caches -> Seq(Frames)] /\ slabs_full' \in [Caches -> Seq(Frames)]
        /\ slabs_partial'[c] = p /\ slabs_full'[c] = full
        /\ \A d \in Caches \ {c} : slabs_partial'[d] = slabs_partial[d] /\ slabs_full'[d] = slabs_full[d]
    BY <1>1, <1>6, <1>9, <2>1, <2>3, <2>4, Zenon
  <2>6. h2.inuse = 0
    BY <1>4, <1>13
  <2>7. CASE empty = << >>
    <3>1. /\ slabs_empty' = [slabs_empty EXCEPT ![c] = slab_list_add(empty, f)]
          /\ slab_count' = slab_count /\ free_pages' = free_pages
      BY <1>6, <2>1, <2>7, Zenon DEF GiveUpSlab
    <3>2. PICK e : e = slab_list_add(empty, f)
      BY Zenon
    <3>3. /\ e \in Seq(Frames) /\ Distinct(e) /\ ToSet(e) = ToSet(empty) \cup {f}
          /\ Len(e) = Len(empty) + 1
      <4>1. /\ slab_list_add(empty, f) \in Seq(Frames)
            /\ Len(slab_list_add(empty, f)) = Len(empty) + 1
            /\ ToSet(slab_list_add(empty, f)) = ToSet(empty) \cup {f}
            /\ Distinct(empty) /\ f \notin ToSet(empty) => Distinct(slab_list_add(empty, f))
        BY <1>2, ListAdd, Zenon
      <4> QED  BY <1>7, <1>8, <3>2, <4>1, Zenon
    <3>4. /\ slabs_empty' \in [Caches -> Seq(Frames)] /\ slabs_empty'[c] = e
          /\ \A d \in Caches \ {c} : slabs_empty'[d] = slabs_empty[d]
      BY <1>1, <1>9, <3>1, <3>2, <3>3
    <3>5. Len(e) <= 1
      BY <2>7, <3>3
    <3>6. Relists(c, f, "empty")
      <4>1. ASSUME NEW g
            PROVE  /\ g \in ToSet(slabs_partial'[c])
                      <=> IF g = f THEN FALSE ELSE g \in ToSet(slabs_partial[c])
                   /\ g \in ToSet(slabs_full'[c])
                      <=> IF g = f THEN FALSE ELSE g \in ToSet(slabs_full[c])
                   /\ g \in ToSet(slabs_empty'[c])
                      <=> IF g = f THEN TRUE ELSE g \in ToSet(slabs_empty[c])
        BY <1>6, <2>2, <2>4, <2>5, <3>3, <3>4, Zenon
      <4> QED  BY <1>7, <1>s, <2>4, <2>5, <3>3, <3>4, <3>5, <4>1, Zenon DEF Relists
    <3>7. Reheads(c, f, h2, "empty")
      BY <1>1, <1>3, <1>4, <1>5, <1>s, <2>6, Zenon DEF Reheads
    <3> QED  BY <1>1, <1>2, <1>10, <3>1, <3>6, <3>7, OneSlab, Zenon
  <2>8. CASE empty # << >>
    <3>1. /\ slabs_empty' = slabs_empty
          /\ slab_count' = [slab_count EXCEPT ![c] = @ - 1] /\ free_pages' = free_pages \cup {f}
      BY <1>6, <2>1, <2>8, Zenon DEF GiveUpSlab
    <3>2. Out(held', f) = {}
      <4>1. IsFiniteSet(Out(held, f)) /\ Cardinality(Out(held, f)) = 1
        BY <1>2, <1>13, Zenon DEF Consistent
      <4>2. PICK x : Out(held, f) = {x}
        BY <4>1, Zenon DEF SetsGrow
      <4> QED  BY <1>1, <4>2, Zenon
    <3>3. Relists(c, f, "none")
      <4>0. "none" # "partial" /\ "none" # "full" /\ "none" # "empty"
        OBVIOUS
      <4>1. ASSUME NEW g
            PROVE  /\ g \in ToSet(slabs_partial'[c])
                      <=> IF g = f THEN FALSE ELSE g \in ToSet(slabs_partial[c])
                   /\ g \in ToSet(slabs_full'[c])
                      <=> IF g = f THEN FALSE ELSE g \in ToSet(slabs_full[c])
                   /\ g \in ToSet(slabs_empty'[c])
                      <=> IF g = f THEN FALSE ELSE g \in ToSet(slabs_empty[c])
        BY <1>6, <1>8, <2>2, <2>4, <2>5, <3>1, Zenon
      <4> QED  BY <1>6, <1>7, <1>9, <2>4, <2>5, <3>1, <4>0, <4>1, Zenon DEF Relists
    <3>4. Repages(c, f, "none")
      <4>1. slab_count[c] + 0 - 1 = slab_count[c] - 1
        BY <1>1, <1>9
      <4>2. slab_count' = [slab_count EXCEPT ![c] = @ + 0 - 1]
        BY <1>9, <3>1, <4>1, Zenon
      <4>3. slab_count' = [slab_count EXCEPT ![c] = @ + (IF f \in Slabs(c) THEN 0 ELSE 1) - 1]
        BY <1>1, <4>2, Zenon
      <4>4. \A g : g \in free_pages' <=> IF g = f THEN TRUE ELSE g \in free_pages
        BY <3>1, Zenon
      <4> QED  BY <1>1, <4>3, <4>4, Zenon DEF Repages
    <3>5. Reheads(c, f, h2, "none")
      BY <1>1, <1>3, <1>4, <1>5, <1>s, <3>2, Zenon DEF Reheads
    <3> QED  BY <1>1, <1>2, <3>3, <3>4, <3>5, OneSlab, Zenon
  <2> QED  BY <2>7, <2>8, Zenon
<1> QED  BY <1>11, <1>12, <1>13, Zenon

LEMMA KmallocOK ==
    ASSUME WellOrdered, SetsCount, SetsGrow, IInv, NEW n \in Requests, Kmalloc(n)
    PROVE  IInv'
<1>1. PICK c : c = kmalloc_index(n)
  BY Zenon
<1>2. /\ c \in Caches /\ \E size \in KmallocSizes : n <= size
      /\ FromPartial(c, n) \/ FromEmpty(c, n) \/ FromNewPage(c, n)
  BY <1>1, Zenon DEF Kmalloc
<1>3. n \in Nat
  BY SlabAssumption
<1>4. kmalloc_index(n) \in KmallocSizes /\ n <= kmalloc_index(n)
  BY <1>2, <1>3, ClassFits, Zenon
<1>5. n <= c /\ c \in Nat
  BY <1>1, <1>4, SlabAssumption, Zenon
<1>6. obj_size(c) \in Nat /\ obj_size(c) >= c
  BY <1>5, ObjectSize, Zenon
<1>7. n <= obj_size(c)
  BY <1>3, <1>5, <1>6
<1> QED  BY <1>2, <1>7, FromPartialOK, FromEmptyOK, FromNewPageOK, Zenon

(* kmem_cache_destroy returns every page of the cache, and no other.       *)
LEMMA DestroyOK ==
    ASSUME SetsCount, SetsGrow, IInv, NEW c \in Caches, Destroy(c)
    PROVE  IInv'
<1>a. PICK S : S = [d \in Caches |-> Slabs(d)]
  BY Zenon
<1>b. PICK T : T = [d \in Caches |-> Slabs(d)']
  BY Zenon
<1>c. \A d \in Caches : S[d] = Slabs(d)
  BY <1>a, Zenon
<1>d. \A d \in Caches : T[d] = Slabs(d)'
  BY <1>b, Zenon
<1>1. /\ slabs_partial \in [Caches -> Seq(Frames)] /\ slabs_full \in [Caches -> Seq(Frames)]
      /\ slabs_empty \in [Caches -> Seq(Frames)] /\ slab_count \in [Caches -> Nat]
  BY Zenon DEF IInv, TypeOK
<1>2. /\ header' = header /\ others' = others /\ held' = held
      /\ \A o \in held : header[PageOf(o[1])].cache # c
      /\ free_pages' = free_pages \cup S[c]
      /\ slab_count' = [slab_count EXCEPT ![c] = @ - Cardinality(S[c])]
      /\ slabs_partial' = [slabs_partial EXCEPT ![c] = << >>]
      /\ slabs_full' = [slabs_full EXCEPT ![c] = << >>]
      /\ slabs_empty' = [slabs_empty EXCEPT ![c] = << >>]
  BY <1>c, Zenon DEF Destroy
<1>3. << >> \in Seq(Frames) /\ Len(<< >>) = 0 /\ ToSet(<< >>) = {} /\ Distinct(<< >>)
  BY DEF ToSet, Distinct
<1>4. /\ slabs_partial' \in [Caches -> Seq(Frames)] /\ slabs_full' \in [Caches -> Seq(Frames)]
      /\ slabs_empty' \in [Caches -> Seq(Frames)]
      /\ slabs_partial'[c] = << >> /\ slabs_full'[c] = << >> /\ slabs_empty'[c] = << >>
      /\ \A d \in Caches \ {c} : /\ slabs_partial'[d] = slabs_partial[d]
                                 /\ slabs_full'[d] = slabs_full[d]
                                 /\ slabs_empty'[d] = slabs_empty[d]
  BY <1>1, <1>2, <1>3, Zenon
<1>5. T[c] = {} /\ \A d \in Caches \ {c} : T[d] = S[d]
  <2>1. Slabs(c)' = {}
    BY <1>3, <1>4, Zenon DEF Slabs
  <2>2. \A d \in Caches \ {c} : Slabs(d)' = Slabs(d)
    BY <1>4, Zenon DEF Slabs
  <2> QED  BY <1>c, <1>d, <2>1, <2>2, Zenon
<1>6. /\ free_pages \cap others = {}
      /\ \A d \in Caches : /\ slab_count[d] = Cardinality(S[d]) /\ IsFiniteSet(S[d])
                           /\ S[d] \cap (free_pages \cup others) = {}
                           /\ Len(slabs_empty[d]) <= 1
      /\ \A d, e \in Caches : d # e => S[d] \cap S[e] = {}
      /\ Frames = free_pages \cup others \cup UNION {S[d] : d \in Caches}
  <2>1. PagesAccounted /\ SlabsOK
    BY Zenon DEF IInv
  <2>2. \A d \in Caches : /\ slab_count[d] = Cardinality(S[d]) /\ IsFiniteSet(S[d])
                          /\ S[d] \cap (free_pages \cup others) = {}
                          /\ Len(slabs_empty[d]) <= 1
    BY <1>c, <2>1, Zenon DEF PagesAccounted, SlabsOK
  <2>3. \A d, e \in Caches : d # e => S[d] \cap S[e] = {}
    BY <1>c, <2>1, Zenon DEF PagesAccounted
  <2>4. {S[d] : d \in Caches} = {Slabs(d) : d \in Caches}
    BY <1>c, Zenon
  <2> QED  BY <2>1, <2>2, <2>3, <2>4, Zenon DEF PagesAccounted
<1>7. /\ slab_count' \in [Caches -> Nat] /\ slab_count'[c] = 0
      /\ \A d \in Caches \ {c} : slab_count'[d] = slab_count[d]
  <2>1. slab_count[c] - Cardinality(S[c]) = 0
    BY <1>1, <1>6, SMTT(60)
  <2>2. slab_count' = [slab_count EXCEPT ![c] = 0]
    BY <1>1, <1>2, <2>1, Zenon
  <2> QED  BY <1>1, <2>2
<1>8. TypeOK'
  <2>1. free_pages' \subseteq Frames
    BY <1>2, <1>6, Zenon
  <2> QED  BY <1>2, <1>4, <1>7, <2>1, Zenon DEF IInv, TypeOK
<1>9. HeldOK'
  <2>1. ASSUME NEW o \in held PROVE \E d \in Caches : PageOf(o[1]) \in T[d] /\ o[2] <= obj_size(d)
    <3>1. PICK d \in Caches : PageOf(o[1]) \in Slabs(d) /\ o[2] <= obj_size(d)
      BY Zenon DEF IInv, HeldOK
    <3>2. header[PageOf(o[1])].cache = d
      BY <3>1, Zenon DEF IInv, SlabsOK, Consistent
    <3>3. d # c
      BY <1>2, <3>2, Zenon
    <3> QED  BY <1>c, <1>5, <3>1, <3>3, Zenon
  <2>2. \A o \in held' : \E d \in Caches : PageOf(o[1]) \in Slabs(d)' /\ o[2] <= obj_size(d)
    BY <1>d, <1>2, <2>1, Zenon
  <2>3. \A o, q \in held' : o[1] = q[1] => o = q
    BY <1>2, Zenon DEF IInv, HeldOK
  <2> QED  BY <2>2, <2>3, Zenon DEF HeldOK
<1>10. PagesAccounted'
  <2>1. free_pages' \cap others' = {}
    BY <1>2, <1>6, Zenon
  <2>2. ASSUME NEW d \in Caches
        PROVE  /\ slab_count'[d] = Cardinality(T[d])
               /\ T[d] \cap (free_pages' \cup others') = {}
               /\ \A e \in Caches : e # d => T[d] \cap T[e] = {}
               /\ Len(slabs_empty'[d]) <= 1
    <3>1. CASE d = c
      <4>1. 0 <= 1
        OBVIOUS
      <4>2. slab_count'[d] = Cardinality(T[d])
        BY <1>5, <1>7, <3>1, Zenon DEF SetsCount
      <4> QED  BY <1>3, <1>4, <1>5, <3>1, <4>1, <4>2, Zenon
    <3>2. CASE d # c
      <4>1. T[d] \cap S[c] = {}
        BY <1>5, <1>6, <3>2, Zenon
      <4>2. T[d] \cap (free_pages' \cup others') = {}
        BY <1>2, <1>5, <1>6, <3>2, <4>1, Zenon
      <4>3. \A e \in Caches : e # d => T[d] \cap T[e] = {}
        BY <1>5, <1>6, <3>2, Zenon
      <4> QED  BY <1>4, <1>5, <1>6, <1>7, <3>2, <4>2, <4>3, Zenon
    <3> QED  BY <3>1, <3>2, Zenon
  <2>3. Frames = free_pages' \cup others' \cup UNION {T[d] : d \in Caches}
    <3>1. ASSUME NEW g \in Frames PROVE g \in free_pages' \cup others' \cup UNION {T[d] : d \in Caches}
      <4>1. CASE g \in free_pages \cup others
        BY <1>2, <4>1, Zenon
      <4>2. ASSUME NEW d \in Caches, g \in S[d]
            PROVE  g \in free_pages' \cup others' \cup UNION {T[e] : e \in Caches}
        <5>1. CASE d = c
          BY <1>2, <4>2, <5>1, Zenon
        <5>2. CASE d # c
          BY <1>5, <4>2, <5>2, Zenon
        <5> QED  BY <5>1, <5>2, Zenon
      <4> QED  BY <1>6, <4>1, <4>2, Zenon
    <3>2. ASSUME NEW g \in free_pages' \cup others' \cup UNION {T[d] : d \in Caches} PROVE g \in Frames
      <4>1. CASE g \in free_pages' \cup others'
        BY <1>2, <1>6, <4>1, Zenon
      <4>2. ASSUME NEW d \in Caches, g \in T[d] PROVE g \in Frames
        BY <1>5, <1>6, <4>2, Zenon
      <4> QED  BY <3>2, <4>1, <4>2, Zenon
    <3> QED  BY <3>1, <3>2, Zenon
  <2>4. {T[d] : d \in Caches} = {Slabs(d)' : d \in Caches}
    BY <1>d, Zenon
  <2> QED  BY <1>d, <2>1, <2>2, <2>3, <2>4, Zenon DEF PagesAccounted
<1>11. SlabsOK'
  <2> SUFFICES ASSUME NEW d \in Caches
               PROVE  /\ ListsOK(d)' /\ IsFiniteSet(T[d])
                      /\ \A f \in T[d] : Consistent(header[f], d, f, Out(held, f))
    BY <1>d, <1>2, Zenon DEF SlabsOK
  <2>1. CASE d = c
    <3>1. IsFiniteSet(T[d])
      BY <1>5, <2>1, Zenon DEF SetsGrow
    <3>2. ListsOK(d)'
      BY <1>3, <1>4, <2>1, Zenon DEF ListsOK
    <3> QED  BY <1>5, <2>1, <3>1, <3>2, Zenon
  <2>2. CASE d # c
    <3>1. ListsOK(d)'
      BY <1>2, <1>4, <2>2, Zenon DEF IInv, SlabsOK, ListsOK
    <3>2. \A f \in T[d] : Consistent(header[f], d, f, Out(held, f))
      BY <1>c, <1>5, <2>2, Zenon DEF IInv, SlabsOK
    <3> QED  BY <1>5, <1>6, <2>2, <3>1, <3>2, Zenon
  <2> QED  BY <2>1, <2>2, Zenon
<1> QED  BY <1>8, <1>9, <1>10, <1>11, Zenon DEF IInv

(* The rest of the kernel takes and returns pages that are no slabs; a     *)
(* step that changes neither slabs nor objects needs no other argument.    *)
LEMMA OtherOK ==
    ASSUME IInv, UNCHANGED <<header, lists, slab_count, held>>,
           free_pages' \cup others' = free_pages \cup others, free_pages' \cap others' = {}
    PROVE  IInv'
<1>1. /\ header' = header /\ slabs_partial' = slabs_partial /\ slabs_full' = slabs_full
      /\ slabs_empty' = slabs_empty /\ slab_count' = slab_count /\ held' = held
  BY Zenon DEF lists
<1>2. \A d \in Caches : Slabs(d)' = Slabs(d)
  BY <1>1, Zenon DEF Slabs
<1>3. TypeOK'
  <2>1. free_pages' \subseteq Frames /\ others' \subseteq Frames
    BY Zenon DEF IInv, TypeOK
  <2> QED  BY <1>1, <2>1, Zenon DEF IInv, TypeOK
<1>4. HeldOK'
  BY <1>1, <1>2, Zenon DEF IInv, HeldOK
<1>5. PagesAccounted'
  <2>1. {Slabs(d)' : d \in Caches} = {Slabs(d) : d \in Caches}
    BY <1>2, Zenon
  <2>2. ASSUME NEW d \in Caches
        PROVE  /\ slab_count'[d] = Cardinality(Slabs(d)')
               /\ Slabs(d)' \cap (free_pages' \cup others') = {}
               /\ \A e \in Caches : e # d => Slabs(d)' \cap Slabs(e)' = {}
               /\ Len(slabs_empty'[d]) <= 1
    BY <1>1, <1>2, Zenon DEF IInv, PagesAccounted
  <2>3. Frames = free_pages' \cup others' \cup UNION {Slabs(d)' : d \in Caches}
    BY <2>1, Zenon DEF IInv, PagesAccounted
  <2> QED  BY <2>2, <2>3, Zenon DEF PagesAccounted
<1>6. SlabsOK'
  BY <1>1, <1>2, Zenon DEF IInv, SlabsOK, ListsOK
<1> QED  BY <1>3, <1>4, <1>5, <1>6, Zenon DEF IInv

LEMMA InitIInv ==
    ASSUME SetsCount, SetsGrow, Init
    PROVE  IInv
<1>1. /\ header = [f \in Frames |-> NoSlab]
      /\ slabs_partial = [c \in Caches |-> << >>] /\ slabs_full = [c \in Caches |-> << >>]
      /\ slabs_empty = [c \in Caches |-> << >>] /\ slab_count = [c \in Caches |-> 0]
      /\ free_pages = Frames /\ others = {} /\ held = {}
  BY Zenon DEF Init
<1>2. << >> \in Seq(Frames) /\ Len(<< >>) = 0 /\ ToSet(<< >>) = {} /\ Distinct(<< >>) /\ 0 <= 1
  BY DEF ToSet, Distinct
<1>3. \A c \in Caches : Slabs(c) = {}
  BY <1>1, <1>2, Zenon DEF Slabs
<1>4. TypeOK
  <2>1. NoSlab \in Header /\ NoSlab.inuse <= NoSlab.total /\ 0 \in Nat
    BY DEF NoSlab, Header
  <2>2. header \in [Frames -> Header] /\ \A f \in Frames : header[f].inuse <= header[f].total
    BY <1>1, <2>1, Zenon
  <2> QED  BY <1>1, <1>2, <2>1, <2>2, Zenon DEF TypeOK, Header
<1>5. HeldOK
  BY <1>1, Zenon DEF HeldOK
<1>6. PagesAccounted
  <2>1. \A c \in Caches : /\ slab_count[c] = Cardinality(Slabs(c))
                          /\ Slabs(c) \cap (free_pages \cup others) = {}
                          /\ \A d \in Caches : d # c => Slabs(c) \cap Slabs(d) = {}
                          /\ Len(slabs_empty[c]) <= 1
    BY <1>1, <1>2, <1>3, Zenon DEF SetsCount
  <2>2. UNION {Slabs(c) : c \in Caches} = {}
    BY <1>3, Zenon
  <2> QED  BY <1>1, <2>1, <2>2, Zenon DEF PagesAccounted
<1>7. SlabsOK
  BY <1>1, <1>2, <1>3, Zenon DEF SlabsOK, ListsOK, SetsGrow
<1> QED  BY <1>4, <1>5, <1>6, <1>7, Zenon DEF IInv

LEMMA NextIInv ==
    ASSUME WellOrdered, SetsCount, SetsGrow, IInv, [Next]_vars
    PROVE  IInv'
<1>0. free_pages \cap others = {}
  BY Zenon DEF IInv, PagesAccounted
<1>1. ASSUME NEW n \in Requests, Kmalloc(n) PROVE IInv'
  BY <1>1, KmallocOK, Zenon
<1>2. ASSUME NEW o \in held, Kfree(o) PROVE IInv'
  BY <1>2, KfreeOK, Zenon
<1>3. ASSUME NEW c \in Caches, Destroy(c) PROVE IInv'
  BY <1>3, DestroyOK, Zenon
<1>4. ASSUME NEW f \in Frames, OtherAlloc(f) PROVE IInv'
  <2>1. /\ UNCHANGED <<header, lists, slab_count, held>>
        /\ f \in free_pages /\ free_pages' = free_pages \ {f} /\ others' = others \cup {f}
    BY <1>4, Zenon DEF OtherAlloc
  <2>2. free_pages' \cup others' = free_pages \cup others
    BY <2>1, Zenon
  <2>3. free_pages' \cap others' = {}
    BY <1>0, <2>1, Zenon
  <2> QED  BY <2>1, <2>2, <2>3, OtherOK, Zenon
<1>5. ASSUME NEW f \in Frames, OtherFree(f) PROVE IInv'
  <2>1. /\ UNCHANGED <<header, lists, slab_count, held>>
        /\ f \in others /\ free_pages' = free_pages \cup {f} /\ others' = others \ {f}
    BY <1>5, Zenon DEF OtherFree
  <2>2. free_pages' \cup others' = free_pages \cup others
    BY <2>1, Zenon
  <2>3. free_pages' \cap others' = {}
    BY <1>0, <2>1, Zenon
  <2> QED  BY <2>1, <2>2, <2>3, OtherOK, Zenon
<1>6. CASE UNCHANGED vars
  <2>1. /\ UNCHANGED <<header, lists, slab_count, held>>
        /\ free_pages' = free_pages /\ others' = others
    BY <1>6, Zenon DEF vars
  <2>2. free_pages' \cup others' = free_pages \cup others /\ free_pages' \cap others' = {}
    BY <1>0, <2>1, Zenon
  <2> QED  BY <2>1, <2>2, OtherOK, Zenon
<1> QED  BY <1>1, <1>2, <1>3, <1>4, <1>5, <1>6, Zenon DEF Next
-----------------------------------------------------------------------------
(* An object that is out is one of the objects of its slab.                *)
LEMMA WhereItLies ==
    ASSUME IInv, NEW o \in held, NEW f, f = PageOf(o[1])
    PROVE  /\ o[1] \in Nat /\ o[2] \in Nat /\ o[2] > 0 /\ f \in Nat
           /\ \E c \in Caches : /\ f \in Slabs(c) /\ header[f].cache = c /\ o[2] <= obj_size(c)
                                /\ \E i \in 1 .. objs_per_slab(c) : o[1] = Address(f, i, c)
<1>1. PICK c \in Caches : f \in Slabs(c) /\ o[2] <= obj_size(c)
  BY Zenon DEF IInv, HeldOK
<1>2. f \in Frames /\ Consistent(header[f], c, f, Out(held, f))
  BY <1>1, SlabFacts, Zenon
<1>3. o[1] \in Out(held, f)
  BY Zenon DEF Out
<1>4. o[1] \in Objects(f, c) /\ header[f].cache = c
  BY <1>2, <1>3, Zenon DEF Consistent
<1>5. \E i \in 1 .. objs_per_slab(c) : o[1] = Address(f, i, c)
  BY <1>4, Zenon DEF Objects
<1>6. o[1] \in Nat /\ o[2] \in Nat /\ o[2] > 0 /\ f \in Nat
  <2>1. held \subseteq Nat \X Requests
    BY Zenon DEF IInv, TypeOK
  <2>2. o[1] \in Nat /\ o[2] \in Requests
    BY <2>1
  <2>3. f \in Nat /\ o[2] \in Nat \ {0}
    BY <1>2, <2>2, SlabAssumption, Zenon
  <2>4. \A m \in Nat \ {0} : m \in Nat /\ m > 0
    OBVIOUS
  <2> QED  BY <2>2, <2>3, <2>4, Zenon
<1> QED  BY <1>1, <1>4, <1>5, <1>6, Zenon

LEMMA Apartness ==
    ASSUME IInv
    PROVE  ObjectsApart
<1>1. ASSUME NEW o \in held, NEW f, f = PageOf(o[1])
      PROVE  /\ f * PAGE_SIZE + HEADER <= o[1]
             /\ o[1] + o[2] - 1 < (f + 1) * PAGE_SIZE
             /\ \E c \in Caches : f \in Slabs(c)
  <2>1. /\ o[1] \in Nat /\ o[2] \in Nat /\ o[2] > 0 /\ f \in Nat
        /\ \E c \in Caches : /\ f \in Slabs(c) /\ header[f].cache = c /\ o[2] <= obj_size(c)
                             /\ \E i \in 1 .. objs_per_slab(c) : o[1] = Address(f, i, c)
    BY <1>1, WhereItLies, Zenon
  <2>2. PICK c \in Caches : /\ f \in Slabs(c) /\ o[2] <= obj_size(c)
                            /\ \E i \in 1 .. objs_per_slab(c) : o[1] = Address(f, i, c)
    BY <2>1, Zenon
  <2>3. f * PAGE_SIZE + HEADER <= o[1] /\ o[1] + obj_size(c) <= (f + 1) * PAGE_SIZE
    BY <2>1, <2>2, Geometry, ZenonT(60)
  <2>4. obj_size(c) \in Nat /\ (f + 1) * PAGE_SIZE \in Nat
    BY <2>1, ObjectSize, SlabAssumption DEF Caches
  <2>5. o[1] + o[2] - 1 < (f + 1) * PAGE_SIZE
    BY <2>1, <2>2, <2>3, <2>4
  <2> QED  BY <2>2, <2>3, <2>5, Zenon
<1>2. ASSUME NEW o \in held, NEW q \in held, o # q,
             NEW f, f = PageOf(o[1]), NEW g, g = PageOf(q[1])
      PROVE  o[1] + o[2] - 1 < q[1] \/ q[1] + q[2] - 1 < o[1]
  <2>1. /\ o[1] \in Nat /\ o[2] \in Nat /\ o[2] > 0 /\ f \in Nat
        /\ \E c \in Caches : /\ f \in Slabs(c) /\ header[f].cache = c /\ o[2] <= obj_size(c)
                             /\ \E i \in 1 .. objs_per_slab(c) : o[1] = Address(f, i, c)
    BY <1>2, WhereItLies, Zenon
  <2>2. /\ q[1] \in Nat /\ q[2] \in Nat /\ q[2] > 0 /\ g \in Nat
        /\ \E c \in Caches : /\ g \in Slabs(c) /\ header[g].cache = c /\ q[2] <= obj_size(c)
                             /\ \E i \in 1 .. objs_per_slab(c) : q[1] = Address(g, i, c)
    BY <1>2, WhereItLies, Zenon
  <2>3. PICK a \in Nat, m \in Nat, b \in Nat, n \in Nat :
           a = o[1] /\ m = o[2] /\ b = q[1] /\ n = q[2]
    BY <2>1, <2>2, Zenon
  <2>4. PICK x \in Nat, y \in Nat : x = f * PAGE_SIZE /\ y = g * PAGE_SIZE
    BY <2>1, <2>2, SlabAssumption
  <2>5. /\ x + HEADER <= a /\ a + m - 1 < x + PAGE_SIZE
        /\ y + HEADER <= b /\ b + n - 1 < y + PAGE_SIZE
    <3>1. (f + 1) * PAGE_SIZE = x + PAGE_SIZE /\ (g + 1) * PAGE_SIZE = y + PAGE_SIZE
      BY <2>1, <2>2, <2>4, SlabAssumption
    <3>2. /\ f * PAGE_SIZE + HEADER <= o[1] /\ o[1] + o[2] - 1 < (f + 1) * PAGE_SIZE
          /\ g * PAGE_SIZE + HEADER <= q[1] /\ q[1] + q[2] - 1 < (g + 1) * PAGE_SIZE
      BY <1>1, <1>2, Zenon
    <3> QED  BY <2>3, <2>4, <3>1, <3>2, Zenon
  <2>6. CASE f < g
    <3>1. x + PAGE_SIZE <= y
      BY <2>1, <2>2, <2>4, <2>6, Multiples, SlabAssumption
    <3>2. a + m - 1 < b
      BY <2>3, <2>4, <2>5, <3>1, SlabAssumption
    <3> QED  BY <2>3, <3>2, Zenon
  <2>7. CASE g < f
    <3>1. y + PAGE_SIZE <= x
      BY <2>1, <2>2, <2>4, <2>7, Multiples, SlabAssumption
    <3>2. b + n - 1 < a
      BY <2>3, <2>4, <2>5, <3>1, SlabAssumption
    <3> QED  BY <2>3, <3>2, Zenon
  <2>8. CASE f = g
    <3>1. PICK c \in Caches : /\ header[f].cache = c /\ o[2] <= obj_size(c)
                              /\ \E i \in 1 .. objs_per_slab(c) : o[1] = Address(f, i, c)
      BY <2>1, Zenon
    <3>2. q[2] <= obj_size(c) /\ \E j \in 1 .. objs_per_slab(c) : q[1] = Address(f, j, c)
      BY <2>2, <2>8, <3>1, Zenon
    <3>3. PICK i \in 1 .. objs_per_slab(c) : o[1] = Address(f, i, c)
      BY <3>1, Zenon
    <3>4. PICK j \in 1 .. objs_per_slab(c) : q[1] = Address(f, j, c)
      BY <3>2, Zenon
    <3>5. i # j
      <4>1. o[1] # q[1]
        BY <1>2, Zenon DEF IInv, HeldOK
      <4> QED  BY <3>3, <3>4, <4>1, Zenon
    <3>6. PICK s \in Nat : s = obj_size(c)
      BY ObjectSize, SlabAssumption DEF Caches
    <3>7. m <= s /\ n <= s
      BY <2>3, <3>1, <3>2, <3>6, Zenon
    <3>8. (i < j => a + s <= b) /\ (j < i => b + s <= a)
      BY <2>1, <2>3, <3>3, <3>4, <3>6, ObjectsSpaced, Zenon
    <3>9. i < j \/ j < i
      BY <3>5
    <3>10. a + m - 1 < b \/ b + n - 1 < a
      BY <3>7, <3>8, <3>9
    <3> QED  BY <2>3, <3>10, Zenon
  <2>9. f < g \/ g < f \/ f = g
    BY <2>1, <2>2
  <2> QED  BY <2>6, <2>7, <2>8, <2>9, Zenon
<1>3. \A o \in held : Bytes(o)[1] = o[1] /\ Bytes(o)[2] = o[1] + o[2] - 1
  BY DEF Bytes
<1>4. ASSUME NEW o \in held, NEW q \in held, o # q PROVE Apart(Bytes(o), Bytes(q))
  BY <1>2, <1>3, <1>4, Zenon DEF Apart
<1> QED  BY <1>1, <1>3, <1>4, Zenon DEF ObjectsApart

(* Three lists without a slab twice and without a common slab make one     *)
(* without a slab twice.                                                   *)
LEMMA JoinDistinct ==
    ASSUME NEW S, NEW p \in Seq(S), NEW q \in Seq(S),
           Distinct(p), Distinct(q), ToSet(p) \cap ToSet(q) = {}
    PROVE  /\ p \o q \in Seq(S) /\ Distinct(p \o q)
           /\ \A x \in ToSet(p \o q) : x \in ToSet(p) \/ x \in ToSet(q)
<1>1. PICK r : r = p \o q
  BY Zenon
<1>2. PICK m \in Nat, n \in Nat : m = Len(p) /\ n = Len(q)
  OBVIOUS
<1>3. /\ r \in Seq(S) /\ Len(r) = m + n
      /\ \A i \in 1 .. m + n : r[i] = IF i <= m THEN p[i] ELSE q[i - m]
  BY <1>1, <1>2
<1>4. ASSUME NEW i \in 1 .. m + n
      PROVE  \/ i \in 1 .. m /\ r[i] = p[i] /\ r[i] \in ToSet(p)
             \/ i - m \in 1 .. n /\ r[i] = q[i - m] /\ r[i] \in ToSet(q) /\ i > m
  <2>1. CASE i <= m
    <3>1. i \in 1 .. m /\ r[i] = p[i]
      BY <1>3, <2>1
    <3> QED  BY <1>2, <3>1, Zenon DEF ToSet
  <2>2. CASE ~(i <= m)
    <3>1. i - m \in 1 .. n /\ r[i] = q[i - m] /\ i > m
      BY <1>3, <2>2
    <3> QED  BY <1>2, <3>1, Zenon DEF ToSet
  <2> QED  BY <2>1, <2>2, Zenon
<1>5. Distinct(r)
  <2> SUFFICES ASSUME NEW i \in 1 .. m + n, NEW j \in 1 .. m + n, r[i] = r[j] PROVE i = j
    BY <1>3, Zenon DEF Distinct
  <2>1. CASE r[i] \in ToSet(p)
    <3>1. i \in 1 .. m /\ r[i] = p[i] /\ j \in 1 .. m /\ r[j] = p[j]
      BY <1>4, <2>1, Zenon
    <3> QED  BY <1>2, <3>1, Zenon DEF Distinct
  <2>2. CASE r[i] \notin ToSet(p)
    <3>1. /\ i - m \in 1 .. n /\ r[i] = q[i - m] /\ j - m \in 1 .. n /\ r[j] = q[j - m]
      BY <1>4, <2>2, Zenon
    <3>2. i - m = j - m
      BY <1>2, <3>1, Zenon DEF Distinct
    <3> QED  BY <3>2
  <2> QED  BY <2>1, <2>2, Zenon
<1>6. \A x \in ToSet(r) : x \in ToSet(p) \/ x \in ToSet(q)
  BY <1>3, <1>4, Zenon DEF ToSet
<1> QED  BY <1>1, <1>3, <1>5, <1>6, Zenon

LEMMA Exactness ==
    ASSUME IInv
    PROVE  FreeListExact
<1> SUFFICES ASSUME NEW c \in Caches
             PROVE  /\ \A f \in Slabs(c) :
                          LET h == header[f]
                              all == {Address(f, i, c) : i \in 1 .. h.total}
                              out == {o[1] : o \in {q \in held : PageOf(q[1]) = f}}
                          IN  /\ h.cache = c
                              /\ ToSet(h.free_list) = all \ out
                              /\ out \subseteq all
                              /\ Len(h.free_list) = h.total - h.inuse
                              /\ Cardinality(out) = h.inuse
                    /\ Distinct(slabs_partial[c] \o slabs_full[c] \o slabs_empty[c])
                    /\ ListsOK(c)
  BY Zenon DEF FreeListExact, ListsOK
<1>1. ListsOK(c)
  BY Zenon DEF IInv, SlabsOK
<1>2. Distinct(slabs_partial[c] \o slabs_full[c] \o slabs_empty[c])
  <2>1. PICK p \in Seq(Frames), q \in Seq(Frames), r \in Seq(Frames) :
           p = slabs_partial[c] /\ q = slabs_full[c] /\ r = slabs_empty[c]
    BY Zenon DEF IInv, TypeOK
  <2>2. /\ Distinct(p) /\ Distinct(q) /\ Distinct(r) /\ ToSet(p) \cap ToSet(q) = {}
        /\ ToSet(p) \cap ToSet(r) = {} /\ ToSet(q) \cap ToSet(r) = {}
    BY <1>1, <2>1, Zenon DEF ListsOK
  <2>3. /\ p \o q \in Seq(Frames) /\ Distinct(p \o q)
        /\ \A x \in ToSet(p \o q) : x \in ToSet(p) \/ x \in ToSet(q)
    BY <2>2, JoinDistinct, Zenon
  <2>4. PICK t \in Seq(Frames) : t = p \o q /\ Distinct(t) /\ ToSet(t) \cap ToSet(r) = {}
    BY <2>2, <2>3, Zenon
  <2>5. /\ t \o r \in Seq(Frames) /\ Distinct(t \o r)
        /\ \A x \in ToSet(t \o r) : x \in ToSet(t) \/ x \in ToSet(r)
    BY <2>2, <2>4, JoinDistinct, Zenon
  <2> QED  BY <2>1, <2>4, <2>5, Zenon
<1>3. ASSUME NEW f \in Slabs(c)
      PROVE  /\ header[f].cache = c /\ header[f].total = objs_per_slab(c)
             /\ ToSet(header[f].free_list) = Objects(f, c) \ Out(held, f)
             /\ Out(held, f) \subseteq Objects(f, c)
             /\ Len(header[f].free_list) = header[f].total - header[f].inuse
             /\ Cardinality(Out(held, f)) = header[f].inuse
  BY SlabFacts, Zenon DEF Consistent
<1> QED  BY <1>1, <1>2, <1>3, Zenon DEF Objects, Out
-----------------------------------------------------------------------------
(* What tasks hold.                                                        *)

(* A task that is not there, or has exited, has no address space; the task *)
(* that runs is there, and if it has an address space, that is active.     *)
Vacant ==
    /\ \A t \in All : state[t] # "live" => mm[t] = NULL
    /\ state[current] = "live"
    /\ mm[current] # NULL => active_mm[current] = mm[current]

HeldInv ==
    /\ ResourcesTyped /\ SpaceOutlivesUsers /\ StalePointerConfined /\ FilesHeldOnce /\ Vacant
    /\ SetsCount /\ SetsGrow
-----------------------------------------------------------------------------
(* The tasks are finitely many, so users(m) has a size.                    *)
LEMMA UsersFinite ==
    ASSUME SetsCount, SetsGrow
    PROVE  \A S \in SUBSET All : IsFiniteSet(S) /\ Cardinality(S) \in Nat
<1>1. IsFiniteSet(All)
  BY ResourcesAssumption, Zenon DEF All, SetsGrow
<1>2. ASSUME NEW S \in SUBSET All PROVE IsFiniteSet(S) /\ Cardinality(S) \in Nat
  BY <1>1, Zenon DEF SetsCount
<1> QED BY <1>2

(* Giving task t the address space v adds t to the users of v and takes it *)
(* away from the users of what it had.                                     *)
LEMMA OneUserMore ==
    ASSUME SetsCount, SetsGrow, ResourcesTyped, NEW t \in All, NEW v,
           mm' = [mm EXCEPT ![t] = v], NEW m \in Mms
    PROVE  /\ Cardinality(users(m)) \in Nat /\ Cardinality(users(m)') \in Nat
           /\ v = m => Cardinality(users(m)') <= Cardinality(users(m)) + 1
           /\ v # m => Cardinality(users(m)') <= Cardinality(users(m))
           /\ v # m /\ mm[t] = m => Cardinality(users(m)') = Cardinality(users(m)) - 1
<1> DEFINE S == users(m)
<1>1. S \in SUBSET All /\ (S)' \in SUBSET All BY DEF users
<1>2. IsFiniteSet(S) /\ Cardinality(S) \in Nat /\ Cardinality((S)') \in Nat
  BY <1>1, UsersFinite
<1>3. v = m => (S)' = S \cup {t} BY DEF users, ResourcesTyped
<1>4. v # m => (S)' = S \ {t} BY DEF users, ResourcesTyped
<1>5. mm[t] = m => t \in S BY DEF users
<1> HIDE DEF S
<1>6. Cardinality(S \cup {t}) = IF t \in S THEN Cardinality(S) ELSE Cardinality(S) + 1
  <2>1. CASE t \in S
    <3>1. S \cup {t} = S BY <2>1
    <3> QED BY <2>1, <3>1, Zenon
  <2>2. CASE t \notin S BY <1>2, <2>2, Zenon DEF SetsCount
  <2> QED BY <2>1, <2>2, Zenon
<1>7. Cardinality(S \ {t}) = IF t \in S THEN Cardinality(S) - 1 ELSE Cardinality(S)
  <2>1. CASE t \in S BY <1>2, <2>1, Zenon DEF SetsCount
  <2>2. CASE t \notin S
    <3>1. S \ {t} = S BY <2>2
    <3> QED BY <2>2, <3>1, Zenon
  <2> QED BY <2>1, <2>2, Zenon
<1>8. v = m => Cardinality((S)') <= Cardinality(S) + 1
  BY <1>2, <1>3, <1>6
<1>9. v # m => Cardinality((S)') <= Cardinality(S)
  BY <1>2, <1>4, <1>7
<1>10. v # m /\ mm[t] = m => Cardinality((S)') = Cardinality(S) - 1
  BY <1>4, <1>5, <1>7
<1> QED BY <1>2, <1>8, <1>9, <1>10 DEF S

(* When mm and mm_users do not change, the count stays right.              *)
LEMMA UsersUnchanged ==
    ASSUME SpaceOutlivesUsers, UNCHANGED <<mm, mm_users>>
    PROVE  SpaceOutlivesUsers'
<1>1. \A m \in Mms : users(m)' = users(m) BY DEF users
<1> QED BY <1>1 DEF SpaceOutlivesUsers

(* A task that has no address space gets none.                             *)
LEMMA NoSpace ==
    ASSUME SetsCount, SetsGrow, ResourcesTyped, SpaceOutlivesUsers, NEW p \in All,
           mm' = [mm EXCEPT ![p] = NULL], UNCHANGED mm_users
    PROVE  SpaceOutlivesUsers'
<1> SUFFICES ASSUME NEW m \in Mms
             PROVE  mm_users[m] >= Cardinality(users(m)')
  BY DEF SpaceOutlivesUsers
<1>1. NULL # m BY ResourcesAssumption
<1>2. Cardinality(users(m)') <= Cardinality(users(m))
      /\ Cardinality(users(m)) \in Nat /\ Cardinality(users(m)') \in Nat
  BY <1>1, OneUserMore, Zenon
<1>3. mm_users[m] \in Nat /\ mm_users[m] >= Cardinality(users(m))
  BY DEF ResourcesTyped, SpaceOutlivesUsers
<1> QED BY <1>2, <1>3

(* mm_alloc: the address space a task gets is new.                         *)
LEMMA NewSpace ==
    ASSUME SetsCount, SetsGrow, ResourcesTyped, SpaceOutlivesUsers, NEW p \in All,
           NEW m \in Mms, mm_users[m] = 0, mm_users' = [mm_users EXCEPT ![m] = 1], mm' = [mm EXCEPT ![p] = m]
    PROVE  SpaceOutlivesUsers'
<1> SUFFICES ASSUME NEW q \in Mms
             PROVE  mm_users'[q] >= Cardinality(users(q)')
  BY DEF SpaceOutlivesUsers
<1>1. /\ Cardinality(users(q)) \in Nat /\ Cardinality(users(q)') \in Nat
      /\ m = q => Cardinality(users(q)') <= Cardinality(users(q)) + 1
      /\ m # q => Cardinality(users(q)') <= Cardinality(users(q))
  BY OneUserMore, Zenon
<1>2. mm_users[q] \in Nat /\ mm_users[q] >= Cardinality(users(q))
  BY DEF ResourcesTyped, SpaceOutlivesUsers
<1>3. mm_users'[q] = IF q = m THEN 1 ELSE mm_users[q]
  BY DEF ResourcesTyped
<1>4. CASE q = m BY <1>1, <1>2, <1>3, <1>4
<1>5. CASE q # m BY <1>1, <1>2, <1>3, <1>5
<1> QED BY <1>4, <1>5

(* CLONE_VM: one user more, counted.                                       *)
LEMMA SharedSpace ==
    ASSUME SetsCount, SetsGrow, ResourcesTyped, SpaceOutlivesUsers, NEW p \in All, NEW m \in Mms,
           mm_users' = [mm_users EXCEPT ![m] = @ + 1], mm' = [mm EXCEPT ![p] = m]
    PROVE  SpaceOutlivesUsers'
<1> SUFFICES ASSUME NEW q \in Mms
             PROVE  mm_users'[q] >= Cardinality(users(q)')
  BY DEF SpaceOutlivesUsers
<1>1. /\ Cardinality(users(q)) \in Nat /\ Cardinality(users(q)') \in Nat
      /\ m = q => Cardinality(users(q)') <= Cardinality(users(q)) + 1
      /\ m # q => Cardinality(users(q)') <= Cardinality(users(q))
  BY OneUserMore, Zenon
<1>2. mm_users[q] \in Nat /\ mm_users[q] >= Cardinality(users(q))
  BY DEF ResourcesTyped, SpaceOutlivesUsers
<1>3. mm_users'[q] = IF q = m THEN mm_users[q] + 1 ELSE mm_users[q]
  BY DEF ResourcesTyped
<1>4. CASE q = m BY <1>1, <1>2, <1>3, <1>4
<1>5. CASE q # m BY <1>1, <1>2, <1>3, <1>5
<1> QED BY <1>4, <1>5

(* exit_mm: one user fewer, and mm_users was at least one before.          *)
LEMMA LeftSpace ==
    ASSUME SetsCount, SetsGrow, ResourcesTyped, SpaceOutlivesUsers, NEW p \in All, mm[p] # NULL,
           mm_users' = [mm_users EXCEPT ![mm[p]] = @ - 1], mm' = [mm EXCEPT ![p] = NULL]
    PROVE  SpaceOutlivesUsers' /\ mm_users[mm[p]] >= 1
<1>1. mm[p] \in Mms BY DEF ResourcesTyped
<1>2. ASSUME NEW q \in Mms
      PROVE  /\ Cardinality(users(q)) \in Nat /\ Cardinality(users(q)') \in Nat
             /\ Cardinality(users(q)') <= Cardinality(users(q))
             /\ mm[p] = q => Cardinality(users(q)') = Cardinality(users(q)) - 1
  <2>1. NULL # q BY ResourcesAssumption
  <2> QED BY <2>1, OneUserMore, Zenon
<1>3. ASSUME NEW q \in Mms
      PROVE  mm_users[q] \in Nat /\ mm_users[q] >= Cardinality(users(q))
  BY DEF ResourcesTyped, SpaceOutlivesUsers
<1>4. mm_users[mm[p]] >= 1
  BY <1>1, <1>2, <1>3
<1>5. ASSUME NEW q \in Mms PROVE mm_users'[q] >= Cardinality(users(q)')
  <2>1. mm_users'[q] = IF q = mm[p] THEN mm_users[q] - 1 ELSE mm_users[q]
    BY DEF ResourcesTyped
  <2>2. CASE q = mm[p] BY <1>2, <1>3, <2>1, <2>2
  <2>3. CASE q # mm[p] BY <1>2, <1>3, <2>1, <2>3
  <2> QED BY <2>2, <2>3
<1> QED BY <1>4, <1>5 DEF SpaceOutlivesUsers
-----------------------------------------------------------------------------
(* At boot there is init_task, without an address space or a file.         *)
LEMMA HeldInit == SetsCount /\ SetsGrow /\ ResourcesInit => HeldInv
<1> SUFFICES ASSUME SetsCount, SetsGrow, ResourcesInit PROVE HeldInv OBVIOUS
<1>1. ResourcesTyped
  BY ResourcesAssumption DEF ResourcesInit, ResourcesTyped, All, NoFiles
<1>2. SpaceOutlivesUsers
  <2> SUFFICES ASSUME NEW m \in Mms PROVE mm_users[m] >= Cardinality(users(m))
    BY DEF SpaceOutlivesUsers
  <2>1. users(m) = {} BY ResourcesAssumption DEF users, ResourcesInit
  <2>2. Cardinality({}) = 0 BY Zenon DEF SetsCount
  <2>3. mm_users[m] = 0 BY DEF ResourcesInit
  <2> QED BY <2>1, <2>2, <2>3
<1>3. StalePointerConfined BY DEF ResourcesInit, StalePointerConfined
<1>4. FilesHeldOnce BY DEF ResourcesInit, FilesHeldOnce
<1>5. Vacant BY DEF ResourcesInit, Vacant, All
<1> QED BY <1>1, <1>2, <1>3, <1>4, <1>5 DEF HeldInv

(* What context_switch leaves behind, space being the mm after the step    *)
(* and next a task that is not the running one.                            *)
LEMMA SwitchConfines ==
    ASSUME ResourcesTyped, StalePointerConfined, Vacant,
           NEW next \in All, next # current, NEW space \in [All -> Mms \cup {NULL}],
           \A t \in All \ {current} : space[t] = mm[t],
           space[current] # NULL => space[current] = mm[current]
    PROVE  /\ context_switch(current, next, space) \in [All -> Mms \cup {NULL}]
           /\ \A t \in All \ {next} : context_switch(current, next, space)[t] = space[t]
           /\ space[next] # NULL => context_switch(current, next, space)[next] = space[next]
<1>1. current \in All /\ active_mm \in [All -> Mms \cup {NULL}] BY DEF ResourcesTyped
<1>2. context_switch(current, next, space) \in [All -> Mms \cup {NULL}]
  BY <1>1 DEF context_switch
<1>3. ASSUME NEW t \in All \ {next}
      PROVE  context_switch(current, next, space)[t] = space[t]
  <2>1. CASE t = current BY <1>1, <2>1 DEF context_switch, Vacant
  <2>2. CASE t # current BY <1>1, <2>2 DEF context_switch, StalePointerConfined
  <2> QED BY <2>1, <2>2
<1>4. space[next] # NULL => context_switch(current, next, space)[next] = space[next]
  BY <1>1 DEF context_switch, StalePointerConfined
<1> QED BY <1>2, <1>3, <1>4

LEMMA ScheduleKeeps ==
    ASSUME HeldInv, NEW next \in All, schedule(next)
    PROVE  HeldInv'
<1> USE DEF HeldInv
<1>1. /\ next # current /\ state[next] = "live" /\ current' = next
      /\ active_mm' = context_switch(current, next, mm)
      /\ UNCHANGED <<state, mm, mm_users, ofile, desc, opened>>
  BY DEF schedule, tables
<1>2. mm \in [All -> Mms \cup {NULL}] BY DEF ResourcesTyped
<1>3. /\ active_mm' \in [All -> Mms \cup {NULL}]
      /\ \A t \in All \ {next} : active_mm'[t] = mm[t]
      /\ mm[next] # NULL => active_mm'[next] = mm[next]
  BY <1>1, <1>2, SwitchConfines
<1>4. ResourcesTyped' BY <1>1, <1>3 DEF ResourcesTyped
<1>5. SpaceOutlivesUsers' BY <1>1, UsersUnchanged
<1>6. StalePointerConfined' BY <1>1, <1>3, Zenon DEF StalePointerConfined
<1>7. FilesHeldOnce' BY <1>1, Zenon DEF FilesHeldOnce
<1>8. Vacant' BY <1>1, <1>3 DEF Vacant
<1> QED BY <1>4, <1>5, <1>6, <1>7, <1>8

LEMMA LoadKeeps ==
    ASSUME HeldInv, NEW t \in Tasks, load_elf_from_memory(t)
    PROVE  HeldInv'
<1> USE DEF HeldInv
<1>1. PICK m \in Mms :
         /\ mm_users[m] = 0
         /\ mm_users' = [mm_users EXCEPT ![m] = 1]
         /\ mm' = [mm EXCEPT ![t] = m]
         /\ active_mm' = [active_mm EXCEPT ![t] = m]
  BY Zenon DEF load_elf_from_memory, mm_alloc
<1>2. state[t] = "live" /\ UNCHANGED <<state, current, ofile, desc, opened>> /\ t \in All
  BY DEF load_elf_from_memory, tables, All
<1>3. ResourcesTyped' BY <1>1, <1>2, ResourcesAssumption DEF ResourcesTyped
<1>4. SpaceOutlivesUsers' BY <1>1, <1>2, NewSpace, Zenon
<1>5. StalePointerConfined' BY <1>1, <1>2 DEF StalePointerConfined, ResourcesTyped
<1>6. FilesHeldOnce' BY <1>2 DEF FilesHeldOnce
<1>7. Vacant' BY <1>1, <1>2 DEF Vacant, ResourcesTyped
<1> QED BY <1>3, <1>4, <1>5, <1>6, <1>7

(* copy_mm keeps the counts, and gives p an mm that is its active_mm.      *)
LEMMA CopyMmKeeps ==
    ASSUME SetsCount, SetsGrow, ResourcesTyped, SpaceOutlivesUsers, NEW p \in All,
           NEW clone_vm \in BOOLEAN, copy_mm(p, clone_vm)
    PROVE  /\ SpaceOutlivesUsers'
           /\ mm_users' \in [Mms -> 0 .. MaxUsers]
           /\ \E v \in Mms \cup {NULL} : /\ mm' = [mm EXCEPT ![p] = v]
                                         /\ active_mm' = [active_mm EXCEPT ![p] = v]
<1>1. CASE /\ mm' = [mm EXCEPT ![p] = NULL] /\ active_mm' = [active_mm EXCEPT ![p] = NULL]
           /\ UNCHANGED mm_users
  <2>1. SpaceOutlivesUsers' BY <1>1, NoSpace, Zenon
  <2> QED BY <1>1, <2>1, Zenon DEF ResourcesTyped
<1>2. CASE /\ mm[current] # NULL /\ mm_users[mm[current]] < MaxUsers
           /\ mm_users' = [mm_users EXCEPT ![mm[current]] = @ + 1]
           /\ mm' = [mm EXCEPT ![p] = mm[current]]
           /\ active_mm' = [active_mm EXCEPT ![p] = mm[current]]
  <2>1. mm[current] \in Mms BY <1>2 DEF ResourcesTyped
  <2>2. SpaceOutlivesUsers' BY <1>2, <2>1, SharedSpace, Zenon
  <2>3. mm_users' \in [Mms -> 0 .. MaxUsers]
    BY <1>2, <2>1, ResourcesAssumption DEF ResourcesTyped
  <2> QED BY <1>2, <2>1, <2>2, <2>3, Zenon
<1>3. ASSUME NEW m \in Mms, mm_users[m] = 0,
             mm_users' = [mm_users EXCEPT ![m] = 1],
             mm' = [mm EXCEPT ![p] = m], active_mm' = [active_mm EXCEPT ![p] = m]
      PROVE  /\ SpaceOutlivesUsers'
             /\ mm_users' \in [Mms -> 0 .. MaxUsers]
  <2>1. SpaceOutlivesUsers' BY <1>3, NewSpace, Zenon
  <2> QED BY <1>3, <2>1, ResourcesAssumption DEF ResourcesTyped
<1> QED BY <1>1, <1>2, <1>3 DEF copy_mm, mm_alloc

(* The child has a table of its own, with the parent's pointers in it.     *)
LEMMA ForkKeeps ==
    ASSUME HeldInv, NEW p \in Tasks, NEW clone_vm \in BOOLEAN, NEW clone_files \in BOOLEAN,
           do_fork(p, clone_vm, clone_files)
    PROVE  HeldInv'
<1> USE DEF HeldInv
<1>1. /\ state[p] = "none" /\ copy_mm(p, clone_vm)
      /\ ofile' = [ofile EXCEPT ![p] = copy_files(clone_files)]
      /\ state' = [state EXCEPT ![p] = "live"]
      /\ UNCHANGED <<current, desc, opened>> /\ p \in All
  BY DEF do_fork, All
<1>2. PICK v \in Mms \cup {NULL} : /\ mm' = [mm EXCEPT ![p] = v]
                                   /\ active_mm' = [active_mm EXCEPT ![p] = v]
  BY <1>1, CopyMmKeeps
<1>3. SpaceOutlivesUsers' /\ mm_users' \in [Mms -> 0 .. MaxUsers]
  BY <1>1, CopyMmKeeps
<1>4. copy_files(clone_files) \in [fds -> Descs \cup {NULL}]
  BY DEF copy_files, NoFiles, ResourcesTyped
<1>5. p # current BY <1>1, Zenon DEF Vacant
<1>6. ResourcesTyped' BY <1>1, <1>2, <1>3, <1>4 DEF ResourcesTyped
<1>7. StalePointerConfined' BY <1>1, <1>2 DEF StalePointerConfined, ResourcesTyped
<1>8. FilesHeldOnce' BY <1>1, Zenon DEF FilesHeldOnce
<1>9. Vacant' BY <1>1, <1>2, <1>5 DEF Vacant, ResourcesTyped
<1> QED BY <1>3, <1>6, <1>7, <1>8, <1>9

LEMMA ThreadKeeps ==
    ASSUME HeldInv, NEW p \in Tasks, kernel_thread(p)
    PROVE  HeldInv'
<1> USE DEF HeldInv
<1>1. /\ state[p] = "none" /\ state' = [state EXCEPT ![p] = "live"]
      /\ mm' = [mm EXCEPT ![p] = NULL] /\ active_mm' = [active_mm EXCEPT ![p] = NULL]
      /\ ofile' = [ofile EXCEPT ![p] = NoFiles]
      /\ UNCHANGED <<current, mm_users, desc, opened>> /\ p \in All
  BY DEF kernel_thread, All
<1>2. p # current BY <1>1 DEF Vacant
<1>3. NoFiles \in [fds -> Descs \cup {NULL}] BY DEF NoFiles
<1>4. ResourcesTyped' BY <1>1, <1>3 DEF ResourcesTyped
<1>5. SpaceOutlivesUsers' BY <1>1, NoSpace, Zenon
<1>6. StalePointerConfined' BY <1>1 DEF StalePointerConfined, ResourcesTyped
<1>7. FilesHeldOnce' BY <1>1, Zenon DEF FilesHeldOnce
<1>8. Vacant' BY <1>1, <1>2 DEF Vacant, ResourcesTyped
<1> QED BY <1>4, <1>5, <1>6, <1>7, <1>8

LEMMA ExitKeeps ==
    ASSUME HeldInv, NEW next \in All, do_exit(next)
    PROVE  HeldInv'
<1> USE DEF HeldInv
<1>1. /\ next # current /\ state[next] = "live"
      /\ mm_users' = exit_mm_users(current)
      /\ mm' = [mm EXCEPT ![current] = NULL]
      /\ ofile' = [ofile EXCEPT ![current] = NoFiles]
      /\ state' = [state EXCEPT ![current] = "zombie"]
      /\ current' = next
      /\ active_mm' = context_switch(current, next, mm')
      /\ UNCHANGED <<desc, opened>>
  BY DEF do_exit
<1>2. current \in All /\ mm' \in [All -> Mms \cup {NULL}] BY <1>1 DEF ResourcesTyped
<1>3. /\ \A t \in All \ {current} : mm'[t] = mm[t]
      /\ mm'[current] # NULL => mm'[current] = mm[current]
      /\ mm'[current] = NULL
  BY <1>1, <1>2 DEF ResourcesTyped
<1>4. /\ active_mm' \in [All -> Mms \cup {NULL}]
      /\ \A t \in All \ {next} : active_mm'[t] = mm'[t]
      /\ mm'[next] # NULL => active_mm'[next] = mm'[next]
  <2>1. ResourcesTyped /\ StalePointerConfined /\ Vacant OBVIOUS
  <2> HIDE DEF HeldInv
  <2>2. PICK space : space = mm' OBVIOUS
  <2>3. /\ space \in [All -> Mms \cup {NULL}] /\ next # current
        /\ \A t \in All \ {current} : space[t] = mm[t]
        /\ space[current] # NULL => space[current] = mm[current]
    BY <1>1, <1>2, <1>3, <2>2
  <2>4. /\ context_switch(current, next, space) \in [All -> Mms \cup {NULL}]
        /\ \A t \in All \ {next} : context_switch(current, next, space)[t] = space[t]
        /\ space[next] # NULL => context_switch(current, next, space)[next] = space[next]
    BY <2>1, <2>3, SwitchConfines
  <2>5. active_mm' = context_switch(current, next, space) BY <1>1, <2>2
  <2> QED BY <2>2, <2>4, <2>5
<1>5. SpaceOutlivesUsers' /\ mm_users' \in [Mms -> 0 .. MaxUsers]
  <2>1. CASE mm[current] = NULL
    <3>1. mm_users' = mm_users BY <1>1, <2>1 DEF exit_mm_users
    <3>2. SpaceOutlivesUsers' BY <1>1, <1>2, <3>1, NoSpace, Zenon
    <3> QED BY <3>1, <3>2 DEF ResourcesTyped
  <2>2. CASE mm[current] # NULL
    <3>1. mm_users' = [mm_users EXCEPT ![mm[current]] = @ - 1]
      BY <1>1, <2>2 DEF exit_mm_users
    <3>2. SpaceOutlivesUsers' /\ mm_users[mm[current]] >= 1
      BY <1>1, <1>2, <2>2, <3>1, LeftSpace, Zenon
    <3>3. mm[current] \in Mms BY <1>2, <2>2 DEF ResourcesTyped
    <3>4. mm_users[mm[current]] \in 0 .. MaxUsers BY <3>3 DEF ResourcesTyped
    <3>5. mm_users[mm[current]] - 1 \in 0 .. MaxUsers
      BY <3>2, <3>4, ResourcesAssumption
    <3> QED BY <3>1, <3>2, <3>3, <3>5 DEF ResourcesTyped
  <2> QED BY <2>1, <2>2
<1>6. NoFiles \in [fds -> Descs \cup {NULL}] BY DEF NoFiles
<1>7. ResourcesTyped' BY <1>1, <1>2, <1>4, <1>5, <1>6, Zenon DEF ResourcesTyped
<1>8. StalePointerConfined' BY <1>1, <1>4, Zenon DEF StalePointerConfined
<1>9. FilesHeldOnce' BY <1>1, Zenon DEF FilesHeldOnce
<1>10. Vacant' BY <1>1, <1>2, <1>3, <1>4 DEF Vacant, ResourcesTyped
<1> QED BY <1>5, <1>7, <1>8, <1>9, <1>10

LEMMA ReleaseKeeps ==
    ASSUME HeldInv, NEW p \in Tasks, release_task(p)
    PROVE  HeldInv'
<1> USE DEF HeldInv
<1>1. /\ state[p] = "zombie" /\ state' = [state EXCEPT ![p] = "none"]
      /\ UNCHANGED <<current, mm, active_mm, mm_users, ofile, desc, opened>> /\ p \in All
  BY DEF release_task, tables, All
<1>2. p # current BY <1>1, Zenon DEF Vacant
<1>3. ResourcesTyped' BY <1>1 DEF ResourcesTyped
<1>4. SpaceOutlivesUsers' BY <1>1, UsersUnchanged
<1>5. StalePointerConfined' BY <1>1 DEF StalePointerConfined
<1>6. FilesHeldOnce' BY <1>1, Zenon DEF FilesHeldOnce
<1>7. Vacant' BY <1>1, <1>2 DEF Vacant, ResourcesTyped
<1> QED BY <1>3, <1>4, <1>5, <1>6, <1>7

LEMMA OpenKeeps ==
    ASSUME HeldInv, NEW d \in Descs, NEW f \in Files, sys_open(d, f)
    PROVE  HeldInv'
<1> USE DEF HeldInv
<1>1. /\ desc[d] = NULL /\ f \notin opened
      /\ UNCHANGED <<state, current, mm, active_mm, mm_users>>
  BY DEF sys_open, spaces
<1>2. SpaceOutlivesUsers' BY <1>1, UsersUnchanged
<1>3. StalePointerConfined' BY <1>1 DEF StalePointerConfined
<1>4. Vacant' BY <1>1 DEF Vacant
<1>5. CASE UNCHANGED tables
  <2>1. ResourcesTyped' BY <1>1, <1>5 DEF ResourcesTyped, tables
  <2>2. FilesHeldOnce' BY <1>5 DEF FilesHeldOnce, tables
  <2> QED BY <1>2, <1>3, <1>4, <2>1, <2>2
<1>6. CASE /\ opened' = opened \cup {f}
           /\ desc' = [desc EXCEPT ![d] = f]
           /\ ofile' = [ofile EXCEPT ![current][fdalloc(current)] = d]
  <2>1. \A e \in Descs : desc'[e] = IF e = d THEN f ELSE desc[e]
    BY <1>6 DEF ResourcesTyped
  <2>2. f # NULL BY ResourcesAssumption
  <2>3. opened' = {desc'[e] : e \in Descs} \ {NULL}
    BY <1>1, <1>6, <2>1, <2>2 DEF FilesHeldOnce
  <2>4. ASSUME NEW e \in Descs, NEW g \in Descs, desc'[e] = desc'[g], desc'[e] # NULL
        PROVE  e = g
    <3>1. \A c \in Descs : desc[c] # f BY <1>1, <2>2 DEF FilesHeldOnce
    <3> QED BY <2>1, <2>4, <3>1 DEF FilesHeldOnce
  <2>5. FilesHeldOnce' BY <2>3, <2>4 DEF FilesHeldOnce
  <2>6. desc' \in [Descs -> Files \cup {NULL}] /\ opened' \subseteq Files
    BY <1>6 DEF ResourcesTyped
  <2>7. ofile' \in [All -> [fds -> Descs \cup {NULL}]]
    BY <1>6, Zenon DEF ResourcesTyped
  <2>8. ResourcesTyped' BY <1>1, <2>6, <2>7 DEF ResourcesTyped
  <2> QED BY <1>2, <1>3, <1>4, <2>5, <2>8
<1> QED BY <1>5, <1>6 DEF sys_open

LEMMA CloseKeeps ==
    ASSUME HeldInv, NEW fd \in fds, sys_close(fd)
    PROVE  HeldInv'
<1> USE DEF HeldInv
<1> DEFINE d == ofile[current][fd]
<1>1. /\ d # NULL /\ desc[d] # NULL
      /\ opened' = opened \ {desc[d]}
      /\ desc' = [desc EXCEPT ![d] = NULL]
      /\ ofile' = [ofile EXCEPT ![current][fd] = NULL]
      /\ UNCHANGED <<state, current, mm, active_mm, mm_users>>
  BY DEF sys_close, spaces
<1>2. d \in Descs BY <1>1 DEF ResourcesTyped
<1> HIDE DEF d
<1>3. SpaceOutlivesUsers' BY <1>1, UsersUnchanged
<1>4. StalePointerConfined' BY <1>1 DEF StalePointerConfined
<1>5. Vacant' BY <1>1 DEF Vacant
<1>6. \A e \in Descs : desc'[e] = IF e = d THEN NULL ELSE desc[e]
  BY <1>1 DEF ResourcesTyped
<1>7. opened' = {desc'[e] : e \in Descs} \ {NULL}
  BY <1>1, <1>2, <1>6 DEF FilesHeldOnce
<1>8. \A e, g \in Descs : desc'[e] = desc'[g] /\ desc'[e] # NULL => e = g
  BY <1>6, Zenon DEF FilesHeldOnce
<1>9. FilesHeldOnce' BY <1>7, <1>8, Zenon DEF FilesHeldOnce
<1>10. desc' \in [Descs -> Files \cup {NULL}] /\ opened' \subseteq Files
  BY <1>1, Zenon DEF ResourcesTyped
<1>11. ofile' \in [All -> [fds -> Descs \cup {NULL}]]
  BY <1>1 DEF ResourcesTyped
<1>12. ResourcesTyped' BY <1>1, <1>10, <1>11 DEF ResourcesTyped
<1> QED BY <1>3, <1>4, <1>5, <1>9, <1>12
-----------------------------------------------------------------------------
LEMMA HeldStutters == ASSUME HeldInv, UNCHANGED resourceVars PROVE HeldInv'
<1>1. SpaceOutlivesUsers' BY UsersUnchanged DEF HeldInv, resourceVars
<1>2. ResourcesTyped' BY DEF HeldInv, resourceVars, ResourcesTyped
<1>3. StalePointerConfined' /\ FilesHeldOnce' /\ Vacant'
  BY DEF HeldInv, resourceVars, StalePointerConfined, FilesHeldOnce, Vacant
<1> QED BY <1>1, <1>2, <1>3 DEF HeldInv

(* HeldInv is inductive.                                                   *)
LEMMA HeldStepKeeps == HeldInv /\ [ResourcesNext]_resourceVars => HeldInv'
<1> SUFFICES ASSUME HeldInv, [ResourcesNext]_resourceVars PROVE HeldInv' OBVIOUS
<1>1. ASSUME NEW t \in All, schedule(t) PROVE HeldInv' BY <1>1, ScheduleKeeps
<1>2. ASSUME NEW t \in Tasks, load_elf_from_memory(t) PROVE HeldInv' BY <1>2, LoadKeeps
<1>3. ASSUME NEW p \in Tasks, NEW v \in BOOLEAN, NEW f \in BOOLEAN, do_fork(p, v, f)
      PROVE  HeldInv'
  BY <1>3, ForkKeeps
<1>4. ASSUME NEW p \in Tasks, kernel_thread(p) PROVE HeldInv' BY <1>4, ThreadKeeps
<1>5. ASSUME NEW t \in All, do_exit(t) PROVE HeldInv' BY <1>5, ExitKeeps
<1>6. ASSUME NEW p \in Tasks, release_task(p) PROVE HeldInv' BY <1>6, ReleaseKeeps
<1>7. ASSUME NEW d \in Descs, NEW f \in Files, sys_open(d, f) PROVE HeldInv'
  BY <1>7, OpenKeeps
<1>8. ASSUME NEW fd \in fds, sys_close(fd) PROVE HeldInv' BY <1>8, CloseKeeps
<1>9. CASE UNCHANGED resourceVars BY <1>9, HeldStutters
<1> QED BY <1>1, <1>2, <1>3, <1>4, <1>5, <1>6, <1>7, <1>8, <1>9 DEF ResourcesNext
-----------------------------------------------------------------------------
INSTANCE NumbersProofs

(* kmalloc_index, kmem_cache_alloc and kmem_cache_free keep IInv.          *)
LEMMA Invariance == Spec => []IInv
<1>1. Init => IInv
  BY InitIInv, ArithmeticHolds, SetsGrowHolds, Zenon DEF Arithmetic
<1>2. IInv /\ [Next]_vars => IInv'
  BY NextIInv, ArithmeticHolds, SetsGrowHolds, Zenon DEF Arithmetic
<1> QED  BY <1>1, <1>2, PTL DEF Spec

(* For any page size, header size, object sizes and page frames: headers,  *)
(* lists and counters of slab.c keep their types; slab_count and inuse     *)
(* never go below zero.                                                    *)
THEOREM SlabTypes == Spec => []TypeOK
<1>1. IInv => TypeOK
  BY Zenon DEF IInv
<1> QED  BY <1>1, Invariance, PTL

(* ... what kmalloc returns lies behind the header and inside its page and *)
(* overlaps no other object, in whatever order objects are freed.          *)
THEOREM KmallocObjectsApart == Spec => []ObjectsApart
<1>1. IInv => ObjectsApart
  BY Apartness, Zenon
<1> QED  BY <1>1, Invariance, PTL

(* ... the free list of a slab is exactly its objects that are not out,    *)
(* inuse counts those that are, and a slab is on the one list of its cache *)
(* that says how full it is.                                               *)
THEOREM SlabListsExact == Spec => []FreeListExact
<1>1. IInv => FreeListExact
  BY Exactness, Zenon
<1> QED  BY <1>1, Invariance, PTL

(* ... every page is with the page allocator, with other code or a slab of *)
(* one cache; slab_count counts them, and one empty slab is kept.          *)
THEOREM SlabPagesAccounted == Spec => []PagesAccounted
<1>1. IInv => PagesAccounted
  BY Zenon DEF IInv
<1> QED  BY <1>1, Invariance, PTL

LEMMA HeldInvariance == ResourcesSpec => []HeldInv
<1>1. ResourcesInit => HeldInv
  BY SetsCountHolds, SetsGrowHolds, HeldInit, Zenon
<1> QED BY <1>1, HeldStepKeeps, PTL DEF ResourcesSpec

(* Fork, exec, exit, open and close keep pointers to address spaces and    *)
(* descriptors, and the counts of users, well typed.                       *)
THEOREM ResourceTypes == ResourcesSpec => []ResourcesTyped
<1>1. HeldInv => ResourcesTyped BY DEF HeldInv
<1> QED BY <1>1, HeldInvariance, PTL

(* mm_users counts at least the tasks that have the mm: however many tasks *)
(* fork, share, replace and leave address spaces, copy_mm and exit_mm free *)
(* none that a task still has.                                             *)
THEOREM NoSpaceFreedInUse == ResourcesSpec => []SpaceOutlivesUsers
<1>1. HeldInv => SpaceOutlivesUsers BY DEF HeldInv
<1> QED BY <1>1, HeldInvariance, PTL

(* context_switch confines the pointer that exit_mm leaves in active_mm to *)
(* the task that is running.                                               *)
THEOREM NoStaleSpaceActive == ResourcesSpec => []StalePointerConfined
<1>1. HeldInv => StalePointerConfined BY DEF HeldInv
<1> QED BY <1>1, HeldInvariance, PTL

(* sys_open and sys_close keep files and descriptors in one to one         *)
(* correspondence, whatever pointers fork has copied.                      *)
THEOREM OneDescriptorPerFile == ResourcesSpec => []FilesHeldOnce
<1>1. HeldInv => FilesHeldOnce BY DEF HeldInv
<1> QED BY <1>1, HeldInvariance, PTL
-----------------------------------------------------------------------------
(* The region of vmalloc.c, whose promise AddressSpace states.             *)

CONSTANTS Places, Region, Nowhere
VARIABLES map, areas

Space == INSTANCE AddressSpace

AreasApart == \A a, b \in areas : a # b => Space!Span(a) \cap Space!Span(b) = {}

MappedHasArea ==
    \A p \in Region : map[p] # Nowhere => \E a \in areas : p \in Space!Pages(a)

SpaceInv == AreasApart /\ MappedHasArea

LEMMA SpaceInit == Space!Init => SpaceInv
<1> QED BY DEF Space!Init, SpaceInv, AreasApart, MappedHasArea

LEMMA SpaceStep ==
    ASSUME Region \subseteq Places
    PROVE  SpaceInv /\ [Space!Next]_Space!vars => SpaceInv'
<1> SUFFICES ASSUME SpaceInv, [Space!Next]_Space!vars PROVE SpaceInv' OBVIOUS
<1> USE DEF SpaceInv
<1>1. ASSUME NEW a \in areas' \ areas, Space!Make(a) PROVE SpaceInv'
  <2>1. /\ \A b \in areas : Space!Span(a) \cap Space!Span(b) = {}
        /\ areas' = areas \cup {a}
        /\ \A p \in Places \ Space!Pages(a) : map'[p] = map[p]
    BY <1>1, Zenon DEF Space!Make, Space!OnlyChanges
  <2>2. AreasApart'
    <3> SUFFICES ASSUME NEW b \in areas', NEW c \in areas', b # c
                 PROVE  Space!Span(b) \cap Space!Span(c) = {}
      BY DEF AreasApart, Space!Span
    <3>1. CASE b \in areas /\ c \in areas BY <3>1 DEF AreasApart
    <3>2. CASE b = a \/ c = a BY <2>1, <3>2, Zenon
    <3> QED BY <2>1, <3>1, <3>2, Zenon
  <2>3. MappedHasArea'
    <3> SUFFICES ASSUME NEW p \in Region, map'[p] # Nowhere
                 PROVE  \E b \in areas' : p \in Space!Pages(b)
      BY DEF MappedHasArea, Space!Pages
    <3>1. CASE p \in Space!Pages(a) BY <2>1, <3>1, Zenon
    <3>2. CASE p \notin Space!Pages(a) BY <2>1, <3>2, Zenon DEF MappedHasArea
    <3> QED BY <3>1, <3>2
  <2> QED BY <2>2, <2>3
<1>2. ASSUME NEW a \in areas, Space!GiveBack(a) PROVE SpaceInv'
  <2>1. /\ areas' = areas \ {a}
        /\ \A p \in Places \ Space!Pages(a) : map'[p] = map[p]
        /\ \A p \in Space!Pages(a) : map'[p] = Nowhere
    BY <1>2 DEF Space!GiveBack, Space!OnlyChanges
  <2>2. AreasApart' BY <2>1, Zenon DEF AreasApart, Space!Span
  <2>3. MappedHasArea'
    <3> SUFFICES ASSUME NEW p \in Region, map'[p] # Nowhere
                 PROVE  \E b \in areas' : p \in Space!Pages(b)
      BY DEF MappedHasArea, Space!Pages
    <3>1. p \notin Space!Pages(a) /\ map[p] # Nowhere BY <2>1
    <3>2. PICK b \in areas : p \in Space!Pages(b) BY <3>1 DEF MappedHasArea
    <3> QED BY <2>1, <3>1, <3>2, Zenon
  <2> QED BY <2>2, <2>3
<1>3. ASSUME NEW q \in Region, Space!Protect(q) PROVE SpaceInv'
  <2>1. areas' = areas /\ map[q] # Nowhere /\ \A p \in Places \ {q} : map'[p] = map[p]
    BY <1>3 DEF Space!Protect, Space!OnlyChanges
  <2>2. AreasApart' BY <2>1 DEF AreasApart, Space!Span
  <2>3. MappedHasArea'
    <3> SUFFICES ASSUME NEW p \in Region, map'[p] # Nowhere
                 PROVE  \E b \in areas : p \in Space!Pages(b)
      BY <2>1, Zenon DEF MappedHasArea, Space!Pages
    <3>1. map[p] # Nowhere BY <2>1, Zenon
    <3> QED BY <3>1 DEF MappedHasArea
  <2> QED BY <2>2, <2>3
<1>4. CASE Space!MapOutside
  <2>1. areas' = areas /\ \A p \in Region : map'[p] = map[p]
    BY <1>4, Zenon DEF Space!MapOutside, Space!OnlyChanges
  <2>2. AreasApart' BY <2>1 DEF AreasApart, Space!Span
  <2>3. MappedHasArea' BY <2>1 DEF MappedHasArea, Space!Pages
  <2> QED BY <2>2, <2>3
<1>5. CASE UNCHANGED Space!vars
  BY <1>5 DEF Space!vars, AreasApart, MappedHasArea, Space!Span, Space!Pages
<1> QED BY <1>1, <1>2, <1>3, <1>4, <1>5 DEF Space!Next

(* Areas, guard addresses included, never overlap, and an address of the   *)
(* region is mapped only while it belongs to an area: vfree, vunmap and    *)
(* iounmap leave no mapping behind, and neither does a request that fails. *)
THEOREM AreasOwnTheirAddresses ==
    ASSUME Region \subseteq Places
    PROVE  Space!Spec => [](AreasApart /\ MappedHasArea)
<1>1. SpaceInv /\ [Space!Next]_Space!vars => SpaceInv' BY SpaceStep
<1>2. SpaceInv => AreasApart /\ MappedHasArea BY DEF SpaceInv
<1> QED BY <1>1, <1>2, SpaceInit, PTL DEF Space!Spec
=============================================================================
