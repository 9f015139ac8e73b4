------------------------------ MODULE MCBuddy ------------------------------
(* Buddy on a few pages. *)
EXTENDS Buddy

MCSize == [o \in 0 .. MAX_ORDER |-> 2 ^ o]
=============================================================================
