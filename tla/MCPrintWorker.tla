--------------------------- MODULE MCPrintWorker ---------------------------
(* Instances of PrintWorker for TLC.  Job options are functions of the job  *)
(* names a and b, so each scenario names the job it is about.              *)
EXTENDS PrintWorker

CONSTANTS a, b

NoSkew      == {}
Behind      == {-2}                  \* a boot whose clock is two ticks slow
Wrong       == {-2, 2}               \* ... or two ticks fast

OneChunk    == [j \in Jobs |-> 1]
PlainChunks == [j \in Jobs |-> IF j = a THEN 2 ELSE 1]   \* a has a cut block

NoDeadlines == [j \in Jobs |-> None]
HoldsB      == [j \in Jobs |-> IF j = b THEN 2 ELSE None]
ExpiresA    == [j \in Jobs |-> IF j = a THEN 1 ELSE None]
=============================================================================
