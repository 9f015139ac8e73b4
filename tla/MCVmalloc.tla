----------------------------- MODULE MCVmalloc -----------------------------
EXTENDS Vmalloc

MCMapArrays == {<<20>>}
MCIoRanges == {<<24, 2>>}
MCRegions == {[va |-> 18, pa |-> 9, n |-> 9], [va |-> 20, pa |-> 11, n |-> 4]}
=============================================================================
