------------------------- MODULE ReplicaPublication -------------------------
(***************************************************************************)
(* What buddy replication promises: a replica becomes visible at once, as  *)
(* a whole, with exactly the content the sender sealed for it, and never   *)
(* changes afterwards; and it is not published again soon.                 *)
(***************************************************************************)
EXTENDS Integers, Sequences

CONSTANTS
    Keys, Contents,
    Memory     \* how many publications the buddy remembers: those are not published again

VARIABLES
    sealed,   \* contents the sender named in a COMMIT: pairs <<key, content>>
    visible   \* contents the buddy published, in order

Init == sealed = {} /\ visible = <<>>

Seal(k, c) == /\ sealed' = sealed \cup {<<k, c>>} /\ visible' = visible

Publish(k, c) ==
    /\ <<k, c>> \in sealed
    /\ \A i \in DOMAIN visible : visible[i][1] = k => Len(visible) - i >= Memory
    /\ visible' = Append(visible, <<k, c>>) /\ sealed' = sealed

Next == \E k \in Keys, c \in Contents : Seal(k, c) \/ Publish(k, c)

Spec == Init /\ [][Next]_<<sealed, visible>>
=============================================================================
