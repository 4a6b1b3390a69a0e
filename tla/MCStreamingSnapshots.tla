------------------------- MODULE MCStreamingSnapshots -------------------------
(* Small instances of StreamingSnapshots: up to two requests with digests of *)
(* their own; the first is scheduled twice.                                  *)
EXTENDS StreamingSnapshots

CONSTANTS r1, r2

OwnDigests == [r \in Requests |-> IF r = r1 THEN "d1" ELSE "d2"]
FirstTwice == [r \in Requests |-> IF r = r1 THEN 2 ELSE 1]
===============================================================================
