---------------------------- MODULE MCQuotaStore -----------------------------
EXTENDS QuotaStore

MCWrites == {[num |-> 2, clean |-> TRUE], [num |-> 1, clean |-> FALSE]}

MCDeltas == {-2, 1}
=============================================================================
