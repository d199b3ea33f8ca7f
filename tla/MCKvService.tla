----------------------------- MODULE MCKvService -----------------------------
EXTENDS KvService

CONSTANTS k0, k1

MCWrites == {[num |-> 1, clean |-> TRUE]}
MCLists == {<<k1, k0>>, <<k0, k1>>, <<k1, k1>>}

Symmetry == Permutations(Workers)
=============================================================================
