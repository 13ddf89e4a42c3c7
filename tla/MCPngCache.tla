------------------------------ MODULE MCPngCache ------------------------------
(* Instances of PngCache: a job of two chunks, a small one and one that is   *)
(* larger than the cache.                                                    *)
EXTENDS PngCache, TLC

CONSTANTS a, b, c

MixedChunks == (a :> 2) @@ (b :> 1) @@ (c :> 3)
PairChunks == (a :> 2) @@ (b :> 1)
=============================================================================
