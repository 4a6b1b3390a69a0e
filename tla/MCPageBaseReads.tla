--------------------------- MODULE MCPageBaseReads ---------------------------
(***************************************************************************)
(* Instances of PageBaseReads.                                             *)
(***************************************************************************)
EXTENDS PageBaseReads

CONSTANTS k1, k2

\* All requests need one base; or the last one needs another, larger base.
OneBase == [q \in Requests |-> k1]
TwoBases == [q \in Requests |-> IF q = N THEN k2 ELSE k1]
Sizes == [k \in Keys |-> IF k = k1 THEN 1 ELSE 2]
=============================================================================
