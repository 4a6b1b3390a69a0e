---------------------------- MODULE MCHeldInventory ----------------------------
\* Two entries of HeldInventory: the second extends the first.
EXTENDS HeldInventory

CONSTANTS a, b

Two == {a, b}
Extends == [d \in Two |-> IF d = b THEN a ELSE NoDigest]
Aliased == [d \in Two |-> IF d = b THEN Two ELSE {}]
=============================================================================
