-------------------------- MODULE MCRestoreFlights --------------------------
(***************************************************************************)
(* Instances of RestoreFlights.  Entry dt is a one-block prefix; da and dc  *)
(* are two-block prefixes that extend it.                                  *)
(***************************************************************************)
EXTENDS RestoreFlights

CONSTANTS dt, da, dc, q1, q2, q3

MCSpan == [d \in Digests |-> IF d = dt THEN 1 ELSE 2]

\* Two requests with diverging tails, and one with the shared trunk only.
Diverging == [q \in Requests |-> IF q = q1 THEN {dt, da} ELSE IF q = q2 THEN {dt, dc} ELSE {dt}]

\* One request with a long prefix, two with its trunk.
Trunk == [q \in Requests |-> IF q = q1 THEN {dt, da} ELSE {dt}]

\* The whole prompt of q1 is an entry that nobody has stored yet.
Partial == [q \in Requests |-> IF q = q1 THEN {dt, dc} ELSE {dt, da}]
=============================================================================
