-------------------------- MODULE MCTaskResources --------------------------
EXTENDS TaskResources, TLC

Symmetry == Permutations(Tasks) \cup Permutations(Mms)
            \cup Permutations(Descs) \cup Permutations(Files)
=============================================================================
