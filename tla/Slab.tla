-------------------------------- MODULE Slab --------------------------------
(***************************************************************************)
(* The slab allocator behind kmalloc, arch/riscv64/mm/slab.c.              *)
(*                                                                         *)
(* Addresses are numbers: page frame f occupies PAGE_SIZE bytes from       *)
(* f * PAGE_SIZE, its slab header the first HEADER of them.  The header of *)
(* every frame is kept, that of a page that is no slab (any more) being    *)
(* what the last slab left there.  A free list threaded through the free   *)
(* objects is a sequence of their addresses: callers leave free objects    *)
(* alone.  The page allocator and its other users are external: alloc_page *)
(* returns any free frame, or 0 when there is none.  No call is            *)
(* interrupted by another, so each is one step.                            *)
(***************************************************************************)
EXTENDS Integers, Sequences, FiniteSets

CONSTANTS PAGE_SIZE,
          HEADER,         \* sizeof(struct slab)
          KmallocSizes,   \* the object sizes of kmem_init
          Requests,       \* sizes callers ask for
          Frames          \* frame numbers

ASSUME SlabAssumption ==
    /\ PAGE_SIZE \in Nat /\ HEADER \in Nat /\ HEADER < PAGE_SIZE /\ PAGE_SIZE % 8 = 0
    /\ KmallocSizes \subseteq Nat /\ Requests \subseteq Nat \ {0}
    /\ Frames \subseteq Nat \ {0}

VARIABLES header,            \* [cache, free_list, inuse, total] of each frame
          slabs_partial, slabs_full, slabs_empty,   \* lists of frames, per cache
          slab_count,
          free_pages,        \* frames alloc_page may return
          others,            \* frames other kernel code holds
          held               \* objects kmalloc returned, with the size asked for
lists == <<slabs_partial, slabs_full, slabs_empty>>
vars == <<header, lists, slab_count, free_pages, others, held>>

(* kmem_cache_create: the object size is at least a pointer and a multiple *)
(* of 8, and the cache exists only when a page holds an object.            *)
obj_size(size) == (((IF size < 8 THEN 8 ELSE size) + 7) \div 8) * 8

objs_per_slab_whole_page(size) == PAGE_SIZE \div obj_size(size)

objs_per_slab(size) == (((PAGE_SIZE - HEADER) \div 8) * 8) \div obj_size(size)

Caches == {size \in KmallocSizes : objs_per_slab(size) > 0}

(* kmalloc_index: the smallest class that holds the request.               *)
kmalloc_index(n) ==
    CHOOSE size \in KmallocSizes : n <= size /\ \A k \in KmallocSizes : n <= k => size <= k

PageOf(obj) == obj \div PAGE_SIZE              \* obj & PAGE_MASK
Address(f, i, c) == f * PAGE_SIZE + ((HEADER + 7) \div 8) * 8 + (i - 1) * obj_size(c)

NoSlab == [cache |-> 0, free_list |-> << >>, inuse |-> 0, total |-> 0]

Init ==
    /\ header = [f \in Frames |-> NoSlab]
    /\ slabs_partial = [c \in Caches |-> << >>]
    /\ slabs_full = [c \in Caches |-> << >>]
    /\ slabs_empty = [c \in Caches |-> << >>]
    /\ slab_count = [c \in Caches |-> 0]
    /\ free_pages = Frames /\ others = {} /\ held = {}
-----------------------------------------------------------------------------
ToSet(list) == {list[i] : i \in 1 .. Len(list)}
Distinct(list) == \A i, j \in 1 .. Len(list) : list[i] = list[j] => i = j

slab_list_add(list, f) == <<f>> \o list

slab_list_remove(list, f) ==
    LET i == CHOOSE i \in 1 .. Len(list) : list[i] = f
    IN  IF f \in ToSet(list)
        THEN [j \in 1 .. Len(list) - 1 |-> IF j < i THEN list[j] ELSE list[j + 1]]
        ELSE list

(* slab_init_objs: the header of a new slab.                               *)
new_slab(f, c) ==
    LET n == objs_per_slab(c)
    IN  [cache |-> c, free_list |-> [i \in 1 .. n |-> Address(f, i, c)], inuse |-> 0, total |-> n]

(* The second half of kmem_cache_alloc, for the slab f with header h at    *)
(* the front of the partial list `partial'.                                *)
TakeObject(c, n, f, h, partial) ==
    /\ header' = [header EXCEPT ![f] = [h EXCEPT !.free_list = Tail(@), !.inuse = @ + 1]]
    /\ held' = held \cup {<<Head(h.free_list), n>>}
    /\ IF h.inuse + 1 = h.total
       THEN /\ slabs_partial' = [slabs_partial EXCEPT ![c] = slab_list_remove(partial, f)]
            /\ slabs_full' = [slabs_full EXCEPT ![c] = slab_list_add(@, f)]
       ELSE /\ slabs_partial' = [slabs_partial EXCEPT ![c] = partial]
            /\ UNCHANGED slabs_full

(* kmem_cache_alloc with a partial slab.                                   *)
FromPartial(c, n) ==
    /\ slabs_partial[c] # << >>
    /\ LET f == Head(slabs_partial[c])
       IN  TakeObject(c, n, f, header[f], slabs_partial[c])
    /\ UNCHANGED <<slabs_empty, slab_count, free_pages, others>>

(* ... without one, but with the cached empty slab.                        *)
FromEmpty(c, n) ==
    /\ slabs_partial[c] = << >> /\ slabs_empty[c] # << >>
    /\ LET f == Head(slabs_empty[c])
       IN  /\ slabs_empty' = [slabs_empty EXCEPT ![c] = slab_list_remove(@, f)]
           /\ TakeObject(c, n, f, header[f], slab_list_add(slabs_partial[c], f))
    /\ UNCHANGED <<slab_count, free_pages, others>>

(* ... and without either: slab_alloc.  When there is no page, kmalloc     *)
(* returns NULL and changes nothing.                                       *)
FromNewPage(c, n) ==
    /\ slabs_partial[c] = << >> /\ slabs_empty[c] = << >>
    /\ \E f \in free_pages :
          /\ free_pages' = free_pages \ {f}
          /\ slab_count' = [slab_count EXCEPT ![c] = @ + 1]
          /\ TakeObject(c, n, f, new_slab(f, c), slab_list_add(slabs_partial[c], f))
    /\ UNCHANGED <<slabs_empty, others>>

(* kmalloc(n).  A request larger than every class, which needs more than   *)
(* one page, and one whose cache was not created return NULL.              *)
Kmalloc(n) ==
    /\ \E size \in KmallocSizes : n <= size
    /\ kmalloc_index(n) \in Caches
    /\ LET c == kmalloc_index(n)
       IN  FromPartial(c, n) \/ FromEmpty(c, n) \/ FromNewPage(c, n)

GiveUpSlab_always_freed(c, f) ==
    /\ slab_count' = [slab_count EXCEPT ![c] = @ - 1]
    /\ free_pages' = free_pages \cup {f}
    /\ slabs_empty' = IF slabs_empty[c] = << >>
                      THEN [slabs_empty EXCEPT ![c] = slab_list_add(@, f)] ELSE slabs_empty

GiveUpSlab_always_counted(c, f) ==
    /\ slab_count' = [slab_count EXCEPT ![c] = @ - 1]
    /\ slabs_empty' = [slabs_empty EXCEPT ![c] = slab_list_add(@, f)]
    /\ UNCHANGED free_pages

(* A slab without objects, off the partial list: one is kept per cache,    *)
(* the rest go back to the page allocator (slab_free).                     *)
GiveUpSlab(c, f) ==
    \/ /\ slabs_empty[c] = << >>
       /\ slabs_empty' = [slabs_empty EXCEPT ![c] = slab_list_add(@, f)]
       /\ UNCHANGED <<slab_count, free_pages>>
    \/ /\ slabs_empty[c] # << >>
       /\ slab_count' = [slab_count EXCEPT ![c] = @ - 1]
       /\ free_pages' = free_pages \cup {f}
       /\ UNCHANGED slabs_empty

(* The list moves of kmem_cache_free; h is the header before the call.     *)
MoveSlab(c, f, h) ==
    \/ /\ h.inuse = h.total
       /\ slabs_full' = [slabs_full EXCEPT ![c] = slab_list_remove(@, f)]
       /\ slabs_partial' = [slabs_partial EXCEPT ![c] = slab_list_add(@, f)]
       /\ UNCHANGED <<slabs_empty, slab_count, free_pages>>
    \/ /\ h.inuse # h.total /\ h.inuse # 1
       /\ UNCHANGED <<lists, slab_count, free_pages>>
    \/ /\ h.inuse # h.total /\ h.inuse = 1
       /\ slabs_partial' = [slabs_partial EXCEPT ![c] = slab_list_remove(@, f)]
       /\ UNCHANGED slabs_full
       /\ GiveUpSlab(c, f)

Kfree_drops_list(o) ==
    LET f == PageOf(o[1])
        h == header[f]
    IN  /\ h.cache \in Caches
        /\ held' = held \ {o}
        /\ header' = [header EXCEPT ![f].free_list = <<o[1]>>, ![f].inuse = @ - 1]
        /\ MoveSlab(h.cache, f, h)
        /\ UNCHANGED others

(* kfree(o[1]), and kmem_cache_free on the cache its page's header names.  *)
Kfree(o) ==
    LET f == PageOf(o[1])
        h == header[f]
    IN  /\ h.cache \in Caches
        /\ held' = held \ {o}
        /\ header' = [header EXCEPT ![f].free_list = <<o[1]>> \o @, ![f].inuse = @ - 1]
        /\ MoveSlab(h.cache, f, h)
        /\ UNCHANGED others

Slabs(c) == ToSet(slabs_partial[c]) \cup ToSet(slabs_full[c]) \cup ToSet(slabs_empty[c])

(* kmem_cache_destroy, of a cache with no objects out.                     *)
Destroy(c) ==
    /\ \A o \in held : header[PageOf(o[1])].cache # c
    /\ free_pages' = free_pages \cup Slabs(c)
    /\ slab_count' = [slab_count EXCEPT ![c] = @ - Cardinality(Slabs(c))]
    /\ slabs_partial' = [slabs_partial EXCEPT ![c] = << >>]
    /\ slabs_full' = [slabs_full EXCEPT ![c] = << >>]
    /\ slabs_empty' = [slabs_empty EXCEPT ![c] = << >>]
    /\ UNCHANGED <<header, others, held>>

(* The rest of the kernel takes and returns pages.                         *)
OtherAlloc(f) ==
    /\ f \in free_pages
    /\ free_pages' = free_pages \ {f} /\ others' = others \cup {f}
    /\ UNCHANGED <<header, lists, slab_count, held>>

OtherFree(f) ==
    /\ f \in others
    /\ free_pages' = free_pages \cup {f} /\ others' = others \ {f}
    /\ UNCHANGED <<header, lists, slab_count, held>>

Next ==
    \/ \E n \in Requests : Kmalloc(n)
    \/ \E o \in held : Kfree(o)
    \/ \E c \in Caches : Destroy(c)
    \/ \E f \in Frames : OtherAlloc(f) \/ OtherFree(f)

Spec == Init /\ [][Next]_vars
-----------------------------------------------------------------------------
(* Slab headers, the three lists of a cache and slab_count, never below 0. *)
TypeOK ==
    /\ header \in [Frames -> [cache : Caches \cup {0}, free_list : Seq(Nat),
                             inuse : Nat, total : Nat]]
    /\ \A f \in Frames : header[f].inuse <= header[f].total
    /\ slabs_partial \in [Caches -> Seq(Frames)]
    /\ slabs_full \in [Caches -> Seq(Frames)]
    /\ slabs_empty \in [Caches -> Seq(Frames)]
    /\ slab_count \in [Caches -> Nat]
    /\ free_pages \subseteq Frames /\ others \subseteq Frames
    /\ held \subseteq Nat \X Requests

Bytes(o) == <<o[1], o[1] + o[2] - 1>>          \* first and last byte of an object
Apart(x, y) == x[2] < y[1] \/ y[2] < x[1]

(* What kmalloc returned lies between the header and the end of its page,  *)
(* in a page that still is a slab, and overlaps no other object: for every *)
(* object size of kmem_init, and whatever order objects were freed in.     *)
ObjectsApart ==
    /\ \A o \in held :
          LET f == PageOf(o[1]) IN
          /\ f * PAGE_SIZE + HEADER <= o[1]
          /\ Bytes(o)[2] < (f + 1) * PAGE_SIZE
          /\ \E c \in Caches : f \in Slabs(c)
    /\ \A o, q \in held : o # q => Apart(Bytes(o), Bytes(q))

(* The free list of a slab holds exactly its objects that are not out, and *)
(* inuse counts those that are: no object is lost or offered twice.  And   *)
(* the one list a slab is on says how full it is: a slab with a free       *)
(* object is where kmem_cache_alloc looks for it, so kmalloc fails only    *)
(* when the cache has no free object and there is no page.                 *)
FreeListExact ==
    \A c \in Caches :
       /\ \A f \in Slabs(c) :
             LET h == header[f]
                 all == {Address(f, i, c) : i \in 1 .. h.total}
                 out == {o[1] : o \in {q \in held : PageOf(q[1]) = f}}
             IN  /\ h.cache = c
                 /\ ToSet(h.free_list) = all \ out
                 /\ out \subseteq all
                 /\ Len(h.free_list) = h.total - h.inuse
                 /\ Cardinality(out) = h.inuse
       /\ Distinct(slabs_partial[c] \o slabs_full[c] \o slabs_empty[c])
       /\ \A f \in ToSet(slabs_partial[c]) : header[f].inuse < header[f].total
       /\ \A f \in ToSet(slabs_full[c]) : header[f].inuse = header[f].total
       /\ \A f \in ToSet(slabs_empty[c]) : header[f].inuse = 0

(* Every page is free, held by other code, or on the lists of one cache,   *)
(* and slab_count counts the latter: freeing an object of the last empty   *)
(* slab gives the page back once.  "Keep one empty slab for caching, free  *)
(* the rest."                                                              *)
PagesAccounted ==
    /\ free_pages \cap others = {}
    /\ \A c \in Caches : /\ slab_count[c] = Cardinality(Slabs(c))
                         /\ Slabs(c) \cap (free_pages \cup others) = {}
                         /\ \A d \in Caches : d # c => Slabs(c) \cap Slabs(d) = {}
                         /\ Len(slabs_empty[c]) <= 1
    /\ Frames = free_pages \cup others \cup UNION {Slabs(c) : c \in Caches}
=============================================================================
