-------------------------------- MODULE Shard --------------------------------
(***************************************************************************)
(* What KvStore, the operations of a storage shard, and KvService, the     *)
(* requests that call them, have in common: the entries, the clock, and    *)
(* what clients may ask for.                                               *)
(***************************************************************************)
EXTENDS Entries

CONSTANTS
    Keys,      \* keys that hash to the shard
    Writes,    \* values clients write
    Ttls,      \* times to live clients ask for, 0 for none
    Deltas,    \* increments clients ask for
    MaxClock   \* bound on the clock

VARIABLES
    entries,   \* StorageShard::entries
    now        \* the steady clock, in milliseconds
=============================================================================
