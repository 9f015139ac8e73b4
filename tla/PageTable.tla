----------------------------- MODULE PageTable -----------------------------
(***************************************************************************)
(* arch/riscv64/mm/pgtable.c: three levels of tables, as one record pt.    *)
(* Addresses are page numbers; a table has FANOUT entries, so a leaf in    *)
(* the root table covers FANOUT^2 pages (a gigapage) and one in a middle   *)
(* table FANOUT pages (a megapage).  Pages of the page allocator hold      *)
(* tables or data; the root table kernel_pgd is static.  Every change of   *)
(* an entry is followed by sfence.vma, so what is in the tables is what    *)
(* the processor uses.                                                     *)
(***************************************************************************)
EXTENDS Integers, Sequences, FiniteSetsExt, SequencesExt

CONSTANTS FANOUT, PhysPages, Prots

ASSUME PageTableAssumption ==
    FANOUT \in Nat \ {0, 1} /\ PhysPages \subseteq Nat \ {0}

kernel_pgd == 0
Addresses  == 0 .. FANOUT ^ 3 - 1
Invalid    == [kind |-> "invalid", ppn |-> 0, prot |-> "none"]
TableAt(p) == [kind |-> "table", ppn |-> p, prot |-> "none"]
Leaf(p, prot) == [kind |-> "leaf", ppn |-> p, prot |-> prot]
NoSlot     == <<-1, 0>>

PageTableType(pt) ==
    /\ pt.free \subseteq PhysPages
    /\ \A p \in PhysPages \cup {kernel_pgd}, i \in 0 .. FANOUT - 1 :
          LET e == pt.mem[p][i] IN
          \/ e = Invalid
          \/ e.kind = "table" /\ e.ppn \in PhysPages /\ e.prot = "none"
          \/ e.kind = "leaf" /\ e.ppn \in Nat /\ e.prot \in Prots

pgd_index(va) == va \div FANOUT ^ 2
pmd_index(va) == (va \div FANOUT) % FANOUT
pte_index(va) == va % FANOUT

(* A slot is the place of an entry: a page and an index.                   *)
entry(pt, slot) == pt.mem[slot[1]][slot[2]]

(* Storing an entry; what a page that holds no table contains is not kept. *)
store(pt, slot, e) ==
    IF slot[1] \in DOMAIN pt.mem THEN [pt EXCEPT !.mem[slot[1]][slot[2]] = e] ELSE pt

(* alloc_page: which of the free pages it is makes no difference here.     *)
alloc_page(pt) == Min(pt.free)

pgtable_alloc_stays_free(pt) ==
    [pt EXCEPT !.mem[alloc_page(pt)] = [i \in DOMAIN @ |-> Invalid]]

pgtable_alloc(pt) ==
    LET p == alloc_page(pt) IN
    [pt EXCEPT !.free = @ \ {p}, !.mem[p] = [i \in DOMAIN @ |-> Invalid]]

(* The entry at a slot of an upper level, made to point to a new table     *)
(* when it is invalid.                                                     *)
descend(pt, slot, create) ==
    IF entry(pt, slot) # Invalid THEN [pt |-> pt, slot |-> slot]
    ELSE IF ~create \/ pt.free = {} THEN [pt |-> pt, slot |-> NoSlot]
    ELSE [pt |-> store(pgtable_alloc(pt), slot, TableAt(alloc_page(pt))), slot |-> slot]

ends_walk(w) == w.slot = NoSlot \/ entry(w.pt, w.slot).kind = "leaf"

walk_pgtable(pt, va, create) ==
    LET g == descend(pt, <<kernel_pgd, pgd_index(va)>>, create) IN
    IF ends_walk(g) THEN g
    ELSE LET m == descend(g.pt, <<entry(g.pt, g.slot).ppn, pmd_index(va)>>, create) IN
         IF ends_walk(m) THEN m
         ELSE [pt |-> m.pt, slot |-> <<entry(m.pt, m.slot).ppn, pte_index(va)>>]

map_page_4k(pt, va, pa, prot) ==
    LET w == walk_pgtable(pt, va, TRUE) IN
    IF w.slot = NoSlot THEN [pt |-> w.pt, ok |-> FALSE]
    ELSE [pt |-> store(w.pt, w.slot, Leaf(pa, prot)), ok |-> TRUE]

align(n, size) == n - (n % size)

(* No look at whether the entry of the root table is a leaf.               *)
map_page_2m(pt, va, pa, prot) ==
    LET g == descend(pt, <<kernel_pgd, pgd_index(va)>>, TRUE) IN
    IF g.slot = NoSlot THEN [pt |-> g.pt, ok |-> FALSE]
    ELSE [pt |-> store(g.pt, <<entry(g.pt, g.slot).ppn, pmd_index(va)>>,
                       Leaf(align(pa, FANOUT), prot)),
          ok |-> TRUE]

map_page_1g(pt, va, pa, prot) ==
    [pt |-> store(pt, <<kernel_pgd, pgd_index(va)>>, Leaf(align(pa, FANOUT ^ 2), prot)),
     ok |-> TRUE]

unmap_page_pte(pt, va) ==
    LET w == walk_pgtable(pt, va, FALSE) IN
    IF w.slot = NoSlot THEN pt ELSE store(pt, w.slot, Invalid)

(* The loop of map_region: n pages, up to the first failure.               *)
map_region(pt, va, pa, n, prot) ==
    FoldLeft(LAMBDA s, k : IF s.ok THEN map_page_4k(s.pt, va + k - 1, pa + k - 1, prot) ELSE s,
             [pt |-> pt, ok |-> TRUE], [k \in 1 .. n |-> k])

(* One turn of the loop of map_region_large: the largest page that fits    *)
(* the alignment and what is left.                                         *)
large_step(s, end, prot) ==
    LET fits(size) == /\ s.va % size = 0 /\ s.pa % size = 0 /\ end - s.va >= size
        size == IF fits(FANOUT ^ 2) THEN FANOUT ^ 2 ELSE IF fits(FANOUT) THEN FANOUT ELSE 1
        done == IF size = FANOUT ^ 2 THEN map_page_1g(s.pt, s.va, s.pa, prot)
                ELSE IF size = FANOUT THEN map_page_2m(s.pt, s.va, s.pa, prot)
                ELSE map_page_4k(s.pt, s.va, s.pa, prot)
    IN  IF ~s.ok \/ s.va >= end THEN s
        ELSE [pt |-> done.pt, ok |-> done.ok, va |-> s.va + size, pa |-> s.pa + size]

map_region_large(pt, va, pa, n, prot) ==
    FoldLeft(LAMBDA s, k : large_step(s, va + n, prot),
             [pt |-> pt, ok |-> TRUE, va |-> va, pa |-> pa], [k \in 1 .. n |-> k])

(* The page lookup_pa returns, 0 when it finds none: for an address below  *)
(* a large leaf the first page of that leaf.                               *)
lookup_pa(pt, va) ==
    LET w == walk_pgtable(pt, va, FALSE) IN
    IF w.slot = NoSlot \/ entry(pt, w.slot) = Invalid THEN 0 ELSE entry(pt, w.slot).ppn

protect_page(pt, va, prot) ==
    LET w == walk_pgtable(pt, va, FALSE) IN
    IF w.slot = NoSlot \/ entry(pt, w.slot) = Invalid THEN pt
    ELSE store(pt, w.slot, Leaf(entry(pt, w.slot).ppn, prot))

(* pgtable_init: the identity map of the gigapages of boot.                *)
pgtable_init(boot) ==
    LET empty == [free |-> PhysPages,
                  mem |-> [p \in PhysPages \cup {kernel_pgd} |->
                              [i \in 0 .. FANOUT - 1 |-> Invalid]]]
    IN  FoldSet(LAMBDA i, pt : map_page_1g(pt, i * FANOUT ^ 2, i * FANOUT ^ 2, "RW").pt,
                empty, boot)

Unmapped == [ppn |-> -1, prot |-> "none"]

(* What the processor makes of the tables: the page an address stands for  *)
(* and its protection.  A large leaf must be aligned.                      *)
translate(pt, va) ==
    LET through(e, size) ==
            IF e.ppn % size # 0 THEN Unmapped
            ELSE [ppn |-> e.ppn + (va % size), prot |-> e.prot]
        g == pt.mem[kernel_pgd][pgd_index(va)]
        m == pt.mem[g.ppn][pmd_index(va)]
        e == pt.mem[m.ppn][pte_index(va)]
    IN  CASE g.kind = "leaf"    -> through(g, FANOUT ^ 2)
          [] g.kind = "invalid" -> Unmapped
          [] g.kind = "table"   ->
                CASE m.kind = "leaf"    -> through(m, FANOUT)
                  [] m.kind = "invalid" -> Unmapped
                  [] m.kind = "table"   -> IF e.kind = "leaf" THEN through(e, 1) ELSE Unmapped

(* The tables in use, and the slots that point to them.                    *)
middle_tables(pt) ==
    {pt.mem[kernel_pgd][i].ppn :
        i \in {j \in 0 .. FANOUT - 1 : pt.mem[kernel_pgd][j].kind = "table"}}
table_slots(pt) ==
    {s \in (middle_tables(pt) \cup {kernel_pgd}) \X (0 .. FANOUT - 1) :
        entry(pt, s).kind = "table"}
tables(pt) == {entry(pt, s).ppn : s \in table_slots(pt)}
=============================================================================
