---------------------------- MODULE MCIdempotency ----------------------------
EXTENDS Idempotency, TLC

Symmetry == Permutations(Keys) \cup Permutations(Middleware) \cup Permutations(Direct) \cup Permutations(Hashes)
=============================================================================
