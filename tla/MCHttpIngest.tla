---------------------------- MODULE MCHttpIngest ----------------------------
(* Instances of HttpIngest for TLC: the requests of each scenario.          *)
EXTENDS HttpIngest

CONSTANTS
    rawA, rawB,         \* /print/raw, one key and one payload
    docA, docB,         \* /print, the same key and another payload
    copy, page,         \* a reprint of docA, and /test
    k

KindOf == [r \in Reqs |->
    IF r \in {rawA, rawB} THEN "raw"
    ELSE IF r \in {docA, docB} THEN "print"
    ELSE IF r = copy THEN "reprint" ELSE "test"]
KeyOf == [r \in Reqs |-> IF KindOf[r] \in {"raw", "print"} THEN k ELSE None]
PayloadOf == [r \in Reqs |-> IF KindOf[r] = "raw" THEN 1 ELSE 2]
SourceOf == [r \in Reqs |-> IF r = copy THEN docA ELSE None]
=============================================================================
