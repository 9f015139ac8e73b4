------------------------------- MODULE Buddy -------------------------------
(***************************************************************************)
(* The buddy page allocator, arch/riscv64/mm/page_alloc.c.                 *)
(*                                                                         *)
(* A page is its page frame number.  flags, order and the free lists are   *)
(* those of the code, stale values included; a free list is a sequence,    *)
(* its head first, and nr_free is its length (list_add and list_del keep   *)
(* the two together).  The loops of page_init, alloc_pages and free_pages  *)
(* are one step per iteration; the allocator takes no lock and nothing     *)
(* interrupts it, so no other call starts before a call has returned.      *)
(* ref_count is 1 from alloc_pages to free_pages, since nothing else       *)
(* touches it, and is left out.                                            *)
(*                                                                         *)
(* Callers are correct: they free a block they hold, with its order.       *)
(***************************************************************************)
EXTENDS Integers, Sequences, FiniteSets

CONSTANTS MAX_ORDER,
          START,        \* start_pfn, the first page of mem_map
          FIRST,        \* the first page after mem_map
          END,          \* end_pfn
          Size          \* Size[o] = 1 << o

ASSUME BuddyAssumption ==
    /\ MAX_ORDER \in Nat
    /\ START \in Nat /\ FIRST \in Nat /\ END \in Nat
    /\ START <= FIRST /\ FIRST <= END
    /\ Size \in [0 .. MAX_ORDER -> Nat \ {0}]
    /\ Size[0] = 1
    /\ \A o \in 0 .. MAX_ORDER - 1 : Size[o + 1] = 2 * Size[o]

Orders == 0 .. MAX_ORDER
Pages == START .. END - 1
Extent(b) == b[1] .. b[1] + Size[b[2]] - 1     \* b = <<first page, order>>

VARIABLES flags, order,        \* of each struct page
          free_area,           \* the free list of each order
          free_page_count,
          held,                \* blocks callers hold
          pc,                  \* "boot", "ready", or the loop being run
          page, cur, want      \* its locals: page, current order, order
mem == <<flags, order, free_area, free_page_count>>
vars == <<mem, held, pc, page, cur, want>>

PG_FREE_HEAD == {"FREE", "HEAD"}
PG_USED_HEAD == {"USED", "HEAD"}

list_add(area, o, p) == [area EXCEPT ![o] = <<p>> \o @]

list_del(area, o, p) ==
    LET q == area[o]
        i == CHOOSE i \in 1 .. Len(q) : q[i] = p
    IN  IF p \in {q[k] : k \in 1 .. Len(q)}
        THEN [area EXCEPT ![o] = [j \in 1 .. Len(q) - 1 |-> IF j < i THEN q[j] ELSE q[j + 1]]]
        ELSE area

(* find_buddy: pfn ^ (1 << o), which may lie outside the managed pages.    *)
find_buddy(p, o) == IF (p \div Size[o]) % 2 = 0 THEN p + Size[o] ELSE p - Size[o]

(* page_init, up to the loop that adds the free pages: it starts at the    *)
(* first even page after mem_map.                                          *)
first_free == IF FIRST % 2 = 1 THEN FIRST + 1 ELSE FIRST

Init ==
    /\ flags = [p \in Pages |-> IF p < first_free THEN {"RESERVED"} ELSE {}]
    /\ order = [p \in Pages |-> -1]
    /\ free_area = [o \in Orders |-> << >>]
    /\ free_page_count = 0
    /\ held = {}
    /\ pc = "boot" /\ page = first_free /\ cur = 0 /\ want = 0

(* The largest block that is aligned at p and fits.                        *)
Fits(p, o) == p % Size[o] = 0 /\ p + Size[o] <= END

AddBlock ==
    /\ pc = "boot" /\ page < END
    /\ \E o \in Orders :
          /\ Fits(page, o) /\ \A k \in Orders : Fits(page, k) => k <= o
          /\ flags' = [flags EXCEPT ![page] = PG_FREE_HEAD]
          /\ order' = [order EXCEPT ![page] = o]
          /\ free_area' = list_add(free_area, o, page)
          /\ free_page_count' = free_page_count + Size[o]
          /\ page' = page + Size[o]
    /\ UNCHANGED <<held, pc, cur, want>>

InitDone ==
    /\ pc = "boot" /\ page >= END
    /\ pc' = "ready"
    /\ UNCHANGED <<mem, held, page, cur, want>>
-----------------------------------------------------------------------------
AllocPages_no_del(o) ==
    /\ pc = "ready"
    /\ \E k \in o .. MAX_ORDER :
          /\ free_area[k] # << >>
          /\ \A j \in o .. k - 1 : free_area[j] = << >>
          /\ page' = Head(free_area[k])
          /\ cur' = k
    /\ want' = o
    /\ pc' = "split"
    /\ UNCHANGED <<flags, order, free_area, free_page_count, held>>

(* alloc_pages(o): take the first block of the smallest order that has     *)
(* one.  With none it returns 0 and changes nothing.                       *)
AllocPages(o) ==
    /\ pc = "ready"
    /\ \E k \in o .. MAX_ORDER :
          /\ free_area[k] # << >>
          /\ \A j \in o .. k - 1 : free_area[j] = << >>
          /\ page' = Head(free_area[k])
          /\ cur' = k
          /\ free_area' = list_del(free_area, k, page')
    /\ want' = o
    /\ pc' = "split"
    /\ UNCHANGED <<flags, order, free_page_count, held>>

(* The upper half of the block becomes a free block of its own.            *)
Split ==
    LET k == cur - 1
        buddy == page + Size[k]
    IN  /\ pc = "split" /\ cur > want
        /\ flags' = [flags EXCEPT ![buddy] = PG_FREE_HEAD]
        /\ order' = [order EXCEPT ![buddy] = k]
        /\ free_area' = list_add(free_area, k, buddy)
        /\ cur' = k
        /\ UNCHANGED <<free_page_count, held, pc, page, want>>

AllocDone_uncounted ==
    /\ pc = "split" /\ cur = want
    /\ flags' = [flags EXCEPT ![page] = PG_USED_HEAD]
    /\ order' = [order EXCEPT ![page] = want]
    /\ held' = held \cup {<<page, want>>}
    /\ pc' = "ready"
    /\ UNCHANGED <<free_area, free_page_count, page, cur, want>>

AllocDone ==
    /\ pc = "split" /\ cur = want
    /\ flags' = [flags EXCEPT ![page] = PG_USED_HEAD]
    /\ order' = [order EXCEPT ![page] = want]
    /\ free_page_count' = free_page_count - Size[want]
    /\ held' = held \cup {<<page, want>>}
    /\ pc' = "ready"
    /\ UNCHANGED <<free_area, page, cur, want>>
-----------------------------------------------------------------------------
(* free_pages(addr, o) of a block b the caller holds.  The head test never *)
(* fails for such a block (HeldIsUsed).                                *)
FreePages(b) ==
    /\ pc = "ready" /\ b \in held
    /\ "HEAD" \in flags[b[1]]
    /\ held' = held \ {b}
    /\ flags' = [flags EXCEPT ![b[1]] = PG_FREE_HEAD]
    /\ free_page_count' = free_page_count + Size[b[2]]
    /\ page' = b[1] /\ cur' = b[2]
    /\ pc' = "merge"
    /\ UNCHANGED <<order, free_area, want>>

CanMerge_any_order(p, o) ==
    LET buddy == find_buddy(p, o) IN
    /\ o < MAX_ORDER
    /\ buddy \in Pages
    /\ "FREE" \in flags[buddy]

(* The loop of free_pages goes on: the buddy exists, and its struct page   *)
(* says that it is free and of the same order.                             *)
CanMerge(p, o) ==
    LET buddy == find_buddy(p, o) IN
    /\ o < MAX_ORDER
    /\ buddy \in Pages
    /\ "FREE" \in flags[buddy]
    /\ order[buddy] = o

Merge_keeps_page ==
    LET buddy == find_buddy(page, cur)
    IN  /\ pc = "merge" /\ CanMerge(page, cur)
        /\ free_area' = list_del(free_area, cur, buddy)
        /\ flags' = [flags EXCEPT ![buddy] = {}]
        /\ cur' = cur + 1
        /\ order' = [order EXCEPT ![buddy] = -1, ![page] = cur + 1]
        /\ UNCHANGED <<free_page_count, held, pc, page, want>>

(* The buddy leaves its list and its struct page is cleared, even when it  *)
(* is the lower half and thus the head of the merged block.                *)
Merge ==
    LET buddy == find_buddy(page, cur)
        low == IF buddy < page THEN buddy ELSE page
    IN  /\ pc = "merge" /\ CanMerge(page, cur)
        /\ free_area' = list_del(free_area, cur, buddy)
        /\ flags' = [flags EXCEPT ![buddy] = {}]
        /\ page' = low
        /\ cur' = cur + 1
        /\ order' = [order EXCEPT ![buddy] = -1, ![low] = cur + 1]
        /\ UNCHANGED <<free_page_count, held, pc, want>>

FreeDone ==
    /\ pc = "merge" /\ ~CanMerge(page, cur)
    /\ free_area' = list_add(free_area, cur, page)
    /\ pc' = "ready"
    /\ UNCHANGED <<flags, order, free_page_count, held, page, cur, want>>

Next ==
    \/ AddBlock \/ InitDone
    \/ \E o \in Orders : AllocPages(o)
    \/ Split \/ AllocDone
    \/ \E b \in held : FreePages(b)
    \/ Merge \/ FreeDone

Spec == Init /\ [][Next]_vars
-----------------------------------------------------------------------------
Listed(o) == {free_area[o][i] : i \in 1 .. Len(free_area[o])}
FreeBlocks == UNION {{<<p, o>> : p \in Listed(o)} : o \in Orders}

(* The block a call is working on: the one alloc_pages took off its list,  *)
(* the one free_pages has not put on a list yet.                           *)
InFlight == IF pc \in {"split", "merge"} THEN {<<page, cur>>} ELSE {}

AllBlocks == FreeBlocks \cup InFlight \cup held

(* What page_init has not added yet.                                       *)
NotAdded == IF pc = "boot" THEN page .. END - 1 ELSE {}

(* struct page, the free lists, on which no page is twice, and the page    *)
(* count of page_alloc.c.                                                  *)
TypeOK ==
    /\ flags \in [Pages -> SUBSET {"FREE", "HEAD", "USED", "RESERVED"}]
    /\ order \in [Pages -> Orders \cup {-1}]
    /\ DOMAIN free_area = Orders
    /\ \A o \in Orders : /\ free_area[o] \in Seq(Pages)
                         /\ Cardinality(Listed(o)) = Len(free_area[o])
    /\ free_page_count \in 0 .. END - START
    /\ held \subseteq Pages \X Orders
    /\ pc \in {"boot", "ready", "split", "merge"}
    /\ page \in Pages \cup {END, first_free}
    /\ cur \in Orders /\ want \in Orders

(* A page is in at most one block, whether on a free list, being split or  *)
(* merged, or handed out by alloc_pages, however the blocks were split and *)
(* merged before: no page is given to two callers.  Blocks start at a      *)
(* multiple of their size (the thread_info mask relies on alloc_pages(1)   *)
(* being 8KB-aligned), and a held block keeps PG_USED | PG_HEAD and its    *)
(* order, so that free_pages accepts it.                                   *)
BlocksDisjoint ==
    /\ \A b, c \in AllBlocks : b # c => Extent(b) \cap Extent(c) = {}
    /\ \A b \in AllBlocks : b[1] % Size[b[2]] = 0
    /\ \A b \in held : flags[b[1]] = PG_USED_HEAD /\ order[b[1]] = b[2]

(* Every page that page_init gave to the allocator is still in some block: *)
(* splitting and merging lose none, although free_pages leaves stale flags *)
(* and orders behind inside merged blocks.  Between calls free_page_count  *)
(* is the number of pages on the free lists.                               *)
NoPageLost ==
    /\ first_free .. END - 1 = NotAdded \cup UNION {Extent(b) : b \in AllBlocks}
    /\ pc = "ready" =>
          free_page_count = Cardinality(UNION {Extent(b) : b \in FreeBlocks})

(* free_pages merges by what the buddy's struct page says.  A PG_FREE left *)
(* behind in a merged block never passes for a free block: a buddy it      *)
(* merges with is on the free list of that order.  And two free buddies    *)
(* are left unmerged only where the head of one has lost its PG_FREE by    *)
(* becoming the lower half of a merged block.                              *)
MergesListedBlock ==
    /\ pc = "merge" /\ CanMerge(page, cur) => find_buddy(page, cur) \in Listed(cur)
    /\ pc = "ready" =>
          \A o \in 0 .. MAX_ORDER - 1 : \A p \in Listed(o) :
             find_buddy(p, o) \in Listed(o) =>
                \E h \in {p, find_buddy(p, o)} : "FREE" \notin flags[h]

Pool == INSTANCE PagePool WITH
    Managed <- first_free .. END - 1,
    Blocks <- Pages \X Orders,
    free <- NotAdded \cup UNION {Extent(b) : b \in FreeBlocks \cup InFlight},
    out <- held

(* alloc_pages and free_pages implement the abstract pool: each call takes *)
(* one block out of the free pages or puts one back, at AllocDone and at   *)
(* FreePages; the splits and merges in between change nothing a caller can *)
(* see.                                                                    *)
ImplementsPool == Pool!PoolSpec
=============================================================================
