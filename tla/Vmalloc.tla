------------------------------ MODULE Vmalloc ------------------------------
(***************************************************************************)
(* arch/riscv64/mm/vmalloc.c: areas of kernel addresses, mapped page by    *)
(* page.  Sizes are in pages: a request of so many bytes is rounded up to  *)
(* pages by every caller alike.  The in_use flags of vm_areas[] are those  *)
(* of the structures in vmlist, because every failing path gives its       *)
(* structure back.                                                         *)
(***************************************************************************)
EXTENDS PageTable

CONSTANTS VMALLOC_START, VMALLOC_END, MAX_VMALLOC_AREAS,
          BootGigapages,   \* entries of kernel_pgd that pgtable_init maps
          AllocSizes,      \* pages asked of vmalloc
          MapArrays,       \* page arrays given to vmap
          IoRanges,        \* <<first page, pages>> given to ioremap
          Regions          \* [va, pa, n] given to map_region(_large)

ASSUME VmallocAssumption ==
    VMALLOC_START \in Addresses /\ VMALLOC_END \in Addresses /\ VMALLOC_START # 0

VARIABLES pt, vmlist
vars == <<pt, vmlist>>

VM_ALLOC == "alloc"
VM_MAP == "map"
VM_IOREMAP == "ioremap"
Area == [addr : Addresses, nr_pages : Nat, flags : {VM_ALLOC, VM_MAP, VM_IOREMAP}]

(* addr and nr_pages of a vm_struct; its size counts the guard page.       *)
size(vm) == vm.nr_pages + 1

TypeOK ==
    /\ PageTableType(pt)
    /\ vmlist \in Seq(Area) /\ Len(vmlist) <= MAX_VMALLOC_AREAS

Init == pt = pgtable_init(BootGigapages) /\ vmlist = << >>

find_vmalloc_area_at_end(n) ==
    LET end == IF vmlist = << >> THEN VMALLOC_START ELSE Last(vmlist).addr + size(Last(vmlist))
    IN  IF end + n + 1 <= VMALLOC_END THEN end ELSE 0

(* The loop over vmlist: addr moves past each area until the gap before    *)
(* the next one is large enough; found is the answer once there is one.    *)
find_vmalloc_area(n) ==
    LET turn(s, vm) ==
            IF s.found THEN s
            ELSE IF s.addr + n + 1 <= vm.addr THEN [s EXCEPT !.found = TRUE]
            ELSE [s EXCEPT !.addr = vm.addr + size(vm)]
        last == FoldLeft(turn, [addr |-> VMALLOC_START, found |-> FALSE], vmlist)
    IN  IF last.found \/ last.addr + n + 1 <= VMALLOC_END THEN last.addr ELSE 0

insert_at_head(vm) == <<vm>> \o vmlist

(* Before the first area that does not begin below it.                     *)
insert_vm_struct(vm) ==
    LET before == SelectSeq(vmlist, LAMBDA v : v.addr < vm.addr)
    IN  before \o <<vm>> \o SubSeq(vmlist, Len(before) + 1, Len(vmlist))

unmap_pages(s, addr, n) ==
    FoldLeft(LAMBDA t, j : unmap_page_pte(t, addr + j - 1), s, [j \in 1 .. n |-> j])

(* alloc_page: the pages vmalloc maps are data from here on.               *)
take_page(s) == [s EXCEPT !.free = @ \ {alloc_page(s)}]
free_page(s, p) == [s EXCEPT !.free = @ \cup {p}]

(* One turn of the loops of __vmalloc, vmap and ioremap; source says which *)
(* page goes to address addr + i.  With no page, or no page for a table,   *)
(* the addresses mapped so far are unmapped and the loop ends.             *)
map_turn(s, addr, i, flags, source) ==
    IF ~s.ok THEN s
    ELSE IF flags = VM_ALLOC /\ s.pt.free = {}
    THEN [pt |-> unmap_pages(s.pt, addr, i), ok |-> FALSE]
    ELSE LET page == IF flags = VM_ALLOC THEN alloc_page(s.pt) ELSE source[i + 1]
             held == IF flags = VM_ALLOC THEN take_page(s.pt) ELSE s.pt
             m    == map_page_4k(held, addr + i, page, "RW")
             back == IF flags = VM_ALLOC THEN free_page(m.pt, page) ELSE m.pt
         IN  IF m.ok THEN m ELSE [pt |-> unmap_pages(back, addr, i), ok |-> FALSE]

make_area_unlimited(n, flags, source) ==
    LET addr == find_vmalloc_area(n)
        loop == FoldLeft(LAMBDA s, k : map_turn(s, addr, k - 1, flags, source),
                         [pt |-> pt, ok |-> TRUE], [k \in 1 .. n |-> k])
    IN  /\ addr # 0 /\ loop.ok
        /\ pt' = loop.pt
        /\ vmlist' = insert_vm_struct([addr |-> addr, nr_pages |-> n, flags |-> flags])

(* alloc_vm_struct, find_vmalloc_area, then the loop over the pages.       *)
make_area(n, flags, source) ==
    /\ Len(vmlist) < MAX_VMALLOC_AREAS
    /\ LET addr == find_vmalloc_area(n)
           loop == FoldLeft(LAMBDA s, k : map_turn(s, addr, k - 1, flags, source),
                            [pt |-> pt, ok |-> TRUE], [k \in 1 .. n |-> k])
       IN  /\ addr # 0
           /\ pt' = loop.pt
           /\ vmlist' = IF loop.ok
                        THEN insert_vm_struct([addr |-> addr, nr_pages |-> n, flags |-> flags])
                        ELSE vmlist

vmalloc(n) == make_area(n, VM_ALLOC, << >>)

vmap(pages) == make_area(Len(pages), VM_MAP, pages)

(* The address returned has the offset of phys_addr in its page; iounmap   *)
(* takes it off again.                                                     *)
ioremap(first, n) == make_area(n, VM_IOREMAP, [k \in 1 .. n |-> first + k - 1])

(* The area that find_vm_area(addr) returns is unmapped and forgotten; the *)
(* pages vmalloc took are not given back.                                  *)
drop_area(i) ==
    /\ pt' = unmap_pages(pt, vmlist[i].addr, vmlist[i].nr_pages)
    /\ vmlist' = RemoveAt(vmlist, i)

(* vfree does not look at the flags.                                       *)
vfree(i)   == drop_area(i)
vunmap(i)  == vmlist[i].flags = VM_MAP /\ drop_area(i)
iounmap(i) == vmlist[i].flags = VM_IOREMAP /\ drop_area(i)

region_pages(r) == r.va .. r.va + r.n - 1

(* Drivers map addresses of their own that are not mapped yet: mapping     *)
(* takes no notice of what was there.                                      *)
MapRegion(r) ==
    /\ \A va \in region_pages(r) : translate(pt, va) = Unmapped
    /\ \/ pt' = map_region(pt, r.va, r.pa, r.n, "RW").pt
       \/ pt' = map_region_large(pt, r.va, r.pa, r.n, "RW").pt
    /\ UNCHANGED vmlist

UnmapPage(va) == pt' = unmap_page_pte(pt, va) /\ UNCHANGED vmlist

(* The owner of an area changes the protection of its first page.          *)
ProtectPage(i, prot) ==
    /\ pt' = protect_page(pt, vmlist[i].addr, prot)
    /\ UNCHANGED vmlist

Next ==
    \/ \E n \in AllocSizes : vmalloc(n)
    \/ \E pages \in MapArrays : vmap(pages)
    \/ \E r \in IoRanges : ioremap(r[1], r[2])
    \/ \E i \in DOMAIN vmlist : vfree(i)
    \/ \E i \in DOMAIN vmlist : vunmap(i)
    \/ \E i \in DOMAIN vmlist : iounmap(i)
    \/ \E r \in Regions : MapRegion(r)
    \/ \E r \in Regions : UnmapPage(r.va)
    \/ \E i \in DOMAIN vmlist, prot \in Prots : ProtectPage(i, prot)

Spec == Init /\ [][Next]_vars
-----------------------------------------------------------------------------
area_pages(vm) == vm.addr .. vm.addr + vm.nr_pages - 1

(* The tables form a tree: no table is reached by two entries, none is a   *)
(* page the page allocator has in hand, and none is a page some area has   *)
(* mapped as data, whatever was mapped, unmapped and half mapped before.   *)
(* For the pages of an area lookup_pa finds what the processor finds.      *)
TablesApart ==
    /\ Cardinality(tables(pt)) = Cardinality(table_slots(pt))
    /\ tables(pt) \cap pt.free = {}
    /\ \A i \in DOMAIN vmlist : \A va \in area_pages(vmlist[i]) :
          /\ translate(pt, va).ppn \notin tables(pt) \cup pt.free
          /\ lookup_pa(pt, va) = translate(pt, va).ppn

(* find_vmalloc_area fails only when there is no gap for the pages and     *)
(* their guard page anywhere in the region: its first-fit search over the  *)
(* list of areas leaves none out, whatever came and went before.           *)
FindsEveryGap ==
    \A n \in 1 .. VMALLOC_END - VMALLOC_START :
        find_vmalloc_area(n) = 0 =>
            \A a \in VMALLOC_START .. VMALLOC_END - n - 1 :
                \E i \in DOMAIN vmlist :
                    (a .. a + n) \cap (vmlist[i].addr .. vmlist[i].addr + vmlist[i].nr_pages) # {}

owned_pages(list) == UNION {area_pages(list[i]) : i \in DOMAIN list}

(* Making an area or giving one back changes the translation of no address *)
(* outside of it: "Map a single 4KB page", says map_page_4k, on which the  *)
(* areas are built.                                                        *)
AreasTouchOnlyTheirPages ==
    [][vmlist' # vmlist =>
         \A va \in Addresses \ (owned_pages(vmlist) \cup owned_pages(vmlist')) :
            translate(pt', va) = translate(pt, va)]_vars

Space == INSTANCE AddressSpace WITH
    Places <- Addresses, Region <- VMALLOC_START .. VMALLOC_END - 1, Nowhere <- Unmapped,
    map <- [va \in Addresses |-> translate(pt, va)],
    areas <- {[addr |-> vmlist[i].addr, nr |-> vmlist[i].nr_pages,
                owned |-> vmlist[i].flags = VM_ALLOC] : i \in DOMAIN vmlist}

(* Areas are apart, with an unmapped guard page behind each; making one    *)
(* maps its pages and nothing else, giving it back unmaps them, and a      *)
(* request that fails on its way, at a page or at a table, leaves every    *)
(* translation as it was.                                                  *)
ImplementsAddressSpace == Space!Spec
=============================================================================
