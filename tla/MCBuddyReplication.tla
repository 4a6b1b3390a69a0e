------------------------- MODULE MCBuddyReplication -------------------------
\* Two generations of one entry, the first of two chunks.
EXTENDS BuddyReplication

Entries == {<<1, 1>>, <<1, 2>>}
Pieces == [k \in Entries |-> IF k = <<1, 1>> THEN 2 ELSE 1]
=============================================================================
