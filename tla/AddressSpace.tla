---------------------------- MODULE AddressSpace ----------------------------
(***************************************************************************)
(* What an allocator of kernel addresses promises.  An area is a run of    *)
(* addresses of the region, followed by a guard address of its own that    *)
(* is never mapped.  Making an area maps its addresses and no others; a    *)
(* request that fails changes nothing; giving an area back unmaps it.      *)
(***************************************************************************)
EXTENDS Integers

CONSTANTS Places,      \* all addresses
          Region,      \* the ones areas are made of
          Nowhere      \* what an unmapped address stands for

VARIABLES map,         \* map[a]: the page and protection address a has
          areas        \* addr and nr of an area, and whether its pages are
                       \* owned, taken from the page allocator for it

vars == <<map, areas>>

Pages(a) == a.addr .. a.addr + a.nr - 1
Span(a)  == a.addr .. a.addr + a.nr

Init ==
    /\ map \in [Places -> {Nowhere} \cup [ppn : Places, prot : {"RW"}]]
    /\ \A p \in Region : map[p] = Nowhere
    /\ areas = {}

OnlyChanges(S) == \A p \in Places \ S : map'[p] = map[p]

(* Nothing else in the region is mapped to a page the area owns.           *)
Make(a) ==
    /\ a.nr > 0 /\ Span(a) \subseteq Region
    /\ \A b \in areas : Span(a) \cap Span(b) = {}
    /\ areas' = areas \cup {a}
    /\ OnlyChanges(Pages(a))
    /\ \A p \in Pages(a) : map'[p] # Nowhere
    /\ a.owned => \A p \in Pages(a), q \in Region :
                     p # q => map'[p].ppn # map'[q].ppn

GiveBack(a) ==
    /\ a \in areas /\ areas' = areas \ {a}
    /\ OnlyChanges(Pages(a))
    /\ \A p \in Pages(a) : map'[p] = Nowhere

(* Mapping outside the region, by whoever owns those addresses.            *)
MapOutside == areas' = areas /\ OnlyChanges(Places \ Region)

(* A new protection for one page of an area.                               *)
Protect(p) ==
    /\ areas' = areas /\ OnlyChanges({p})
    /\ map[p] # Nowhere /\ map'[p].ppn = map[p].ppn

Next ==
    \/ \E a \in areas' \ areas : Make(a)
    \/ \E a \in areas : GiveBack(a)
    \/ \E p \in Region : Protect(p)
    \/ MapOutside

Spec == Init /\ [][Next]_vars
=============================================================================
