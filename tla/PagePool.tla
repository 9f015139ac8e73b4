------------------------------ MODULE PagePool ------------------------------
(***************************************************************************)
(* What a page allocator promises: it hands out blocks of free pages,      *)
(* never a page twice, and takes back what it handed out.                  *)
(***************************************************************************)
EXTENDS Integers

CONSTANTS Managed,    \* the pages there are
          Blocks,     \* the sets of pages a caller may get, by address and order
          Extent(_)   \* the pages of a block
VARIABLES free,       \* pages nobody has
          out         \* blocks handed out
poolVars == <<free, out>>

PoolInit == free = Managed /\ out = {}

Give(b) ==
    /\ b \in Blocks /\ Extent(b) \subseteq free
    /\ free' = free \ Extent(b)
    /\ out' = out \cup {b}

TakeBack(b) ==
    /\ b \in out
    /\ free' = free \cup Extent(b)
    /\ out' = out \ {b}

PoolNext == \E b \in Blocks : Give(b) \/ TakeBack(b)

PoolSpec == PoolInit /\ [][PoolNext]_poolVars
=============================================================================
