----------------------------- MODULE MCHashScan -----------------------------
EXTENDS HashScan, SequencesExt

(* Three keys in shard 0, whose table grows while they come, one in shard 1. *)
ka == <<"a">>
kbab == <<"b", "a", "b">>
kabb == <<"a", "b", "b">>
kb == <<"b">>

MCKeys == {ka, kbab, kabb, kb}
MCHashOf == (ka :> 6) @@ (kbab :> 5) @@ (kabb :> 3) @@ (kb :> 1)
MCShardOf == (ka :> 0) @@ (kbab :> 0) @@ (kabb :> 0) @@ (kb :> 1)
MCPatterns == {<<"*">>, <<"a", "*">>, <<"*", "b">>, <<"?", "a", "*">>}

(* MatchPattern decides Glob for every short key without a '*' of its own. *)
ASSUME MatchPatternIsGlob ==
    \A pat \in SeqOf({"a", "b", "?", "*"}, 4), str \in SeqOf({"a", "b"}, 4) :
        MatchPattern(pat, str) = Glob(pat, str)
=============================================================================
