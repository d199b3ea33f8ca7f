-------------------------------- MODULE MCAof --------------------------------
EXTENDS Aof

CONSTANTS k0, k1

MCPools == {[num |-> 2, clean |-> TRUE]}
MCDeltas == {-3}

MCMisreadings ==
    {[op |-> "SET", key |-> k1, val |-> [num |-> 2, clean |-> TRUE], cond |-> "Always"]}

Symmetry == Permutations(Workers)
=============================================================================
