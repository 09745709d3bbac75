---------------------------- MODULE MCTileSystem ----------------------------
(* Model checking the composed system: the tiles and programs of the runs.  *)
EXTENDS TileSystem, TLC

CONSTANTS b1, b2  \* the two blocks

Cached(S) == {"AcquireBlock", "Release"} \X S

(* A cache that writes both blocks back on demand, evicts one of them, and  *)
(* fetches instructions from the other.                                     *)
TwoBlocks == Cached({b1}) \cup ({"AcquireBlock", "Get"} \X {b2})
(* One block, cached and fetched.                                           *)
OneBlock == Cached({b1}) \cup {<<"Get", b1>>}
CacheOnly == Cached({b1})
(* A block that is cached and also the target of bursts, atomics, hints and *)
(* permission-only Acquires: the requests the adapter handles least well;   *)
(* beside it a block that is reached by uncached requests only.             *)
Mixed ==
    ({"AcquireBlock", "AcquirePerm", "PutBurst", "Arithmetic", "Logical", "Intent"} \X {b1})
    \cup (UncachedOps \X {b2})

OneProgram == {[loaded |-> {b1, b2}, tohost |-> b1]}
TwoPrograms == {[loaded |-> {b1}, tohost |-> b1], [loaded |-> {b2}, tohost |-> b2]}

SinkSymmetry == Permutations(Sinks)
=============================================================================
